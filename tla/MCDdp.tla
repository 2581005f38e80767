------------------------------- MODULE MCDdp -------------------------------
(* Small instance of Ddp for TLC: three parameters in two buckets.  The     *)
(* bucket of the single parameter c is first in line, so {a, b} can be      *)
(* ready before it.                                                         *)
EXTENDS DdpAveraging

CONSTANTS a, b, c

MCParams == {a, b, c}
MCBucketOf == [p \in MCParams |-> IF p = c THEN 0 ELSE 1]

\* Gradient accumulation, a synchronised backward after a synchronised one,
\* an explicit flush of averaged and of accumulated gradients, and a second
\* iteration after an optimizer step.
MCPlans ==
    {<<"no_sync", "backward", "opt">>,
     <<"backward", "backward", "opt">>,
     <<"backward", "finish", "opt">>,
     <<"no_sync", "finish", "opt">>,
     <<"backward", "opt", "backward">>}

MCUsedSets == {{a, b, c}, {a, c}, {b}}
=============================================================================
