------------------------------- MODULE MCFsdp -------------------------------
(* Small instances of Fsdp for TLC: a root unit with a head, which backward  *)
(* reaches first, and an embedding, which it reaches last, around two blocks *)
(* of two parameters each.                                                   *)
EXTENDS Fsdp

MCOrder == <<3, 2, 2, 1, 1, 3>>

\* Training with evaluation; accumulation ended by a synchronised backward
\* and by a flush; two synchronised passes in one step; parameters summoned
\* between a forward and its backward and before an update.
MCPlans ==
    {<<"forward", "backward", "opt", "forward", "backward", "opt", "eval">>,
     <<"forward", "no_sync", "forward", "backward", "opt", "forward">>,
     <<"forward", "no_sync", "forward", "no_sync", "finish", "opt", "eval", "forward">>,
     <<"forward", "backward", "forward", "backward", "finish", "opt", "summon">>,
     <<"forward", "summon", "backward", "summon", "opt", "eval", "forward", "backward">>}

ASSUME MCPlansAssumption == \A p \in MCPlans : Alternates(p) /\ FlushedBeforeStep(p)

\* A pipeline stage that runs two microbatches forward before the first
\* backward, under no_sync, as the training example does.
PipelinedPlans ==
    {<<"forward", "forward", "no_sync", "no_sync", "finish", "opt">>}

\* Gradient accumulation, flushed at the end.
FlushPlans == {<<"forward", "no_sync", "finish", "opt">>}
=============================================================================
