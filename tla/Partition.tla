------------------------------ MODULE Partition -----------------------------
(***************************************************************************)
(* What each pipeline stage holds: build_pipeline_layers of models/gpt.py  *)
(* and partition_layers of pipeline.py.  Layers and stages are counted     *)
(* from 0, as in the code; a sequence's first layer is at 1.               *)
(***************************************************************************)
EXTENDS Integers, Sequences

\* The model as the sequence of modules a pipeline splits over.
PipelineLayers(n_layer) ==
    <<"embedding">> \o [i \in 1 .. n_layer |-> "block"] \o <<"head">>

Base(n, stages) == n \div stages
Extra(n, stages) == n % stages

\* Mutant: the stages that hold a layer more are not counted in the start.
StageStartUneven(n, stages, stage) == stage * Base(n, stages)

\* The first layer of a stage: the first Extra stages hold one layer more.
StageStart(n, stages, stage) ==
    stage * Base(n, stages) + (IF stage < Extra(n, stages) THEN stage ELSE Extra(n, stages))

StageSize(n, stages, stage) ==
    Base(n, stages) + (IF stage < Extra(n, stages) THEN 1 ELSE 0)

\* The layer after the last of a stage.
StageEnd(n, stages, stage) == StageStart(n, stages, stage) + StageSize(n, stages, stage)

LayersOf(n, stages, stage) == StageStart(n, stages, stage) .. StageEnd(n, stages, stage) - 1

partition_layers(layers, stages, stage) ==
    SubSeq(layers, StageStart(Len(layers), stages, stage) + 1,
           StageEnd(Len(layers), stages, stage))
=============================================================================
