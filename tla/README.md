# A TLA+ model of minidist

minidist is a small framework for distributed training on PyTorch: data
parallelism by gradient all-reduce (DDP) and by sharding (FSDP), tensor and
pipeline parallelism, mixed precision with loss scaling, and a trace analyser.
These modules model its control: what each rank calls, in which order, when it
waits, and what each gradient and parameter buffer holds at that moment. The
numbers inside tensors are abstracted to what the properties tell apart: in most
modules to whose contribution they are, in ShardedStep to numbers modulo a
prime.

All file and line references are to `src/`; `PROJECT.json` maps every
definition to the lines it models.

## The system

Every rank is one process running the same program. A rank has one main
thread; autograd runs hooks during `backward()`, and the process group's own
threads run the collectives. Ranks share nothing. They meet in collectives,
which a group matches **by call order**, and in point-to-point messages, which
are in order on each link.

| Component | State it keeps | Operations | Interacts with |
|---|---|---|---|
| `minidist/ddp.py` DistributedDataParallel | buckets (flat buffer, `pending`, `work`), `_next_to_launch`, `_callback_queued`, `require_backward_grad_sync` | constructor broadcast, gradient hook, bucket launch, end-of-backward callback, `finish_gradient_sync`, `no_sync` | autograd (hooks), process group (asynchronous all-reduce), optimizer (`p.grad`) |
| `minidist/fsdp.py` FullyShardedDataParallel | per unit: shard, gathered buffer, `_unsharded`, `_grads_pending` | forward and backward hooks, `unshard`, `reshard`, gradient hook, reduce-scatter, `finish_gradient_sync`, `summon_full_params`, `no_sync` | autograd, process group (blocking all-gather, reduce-scatter), optimizer (shards) |
| `minidist/pipeline.py` schedules and `_P2P` | `_in_flight`, header caches, pending sends, timeline | `step` of GPipe and 1F1B, `_forward_one`, `_backward_one`, `send`, `recv`, `drain`, `partition_layers` | neighbouring stages (messages), the wrapped model (DDP or FSDP) |
| `minidist/amp.py` DistributedGradScaler | `_scale`, `_good_steps`, `_found_inf_this_step`, `_unscaled` | `scale_loss`, `unscale_`, `step`, `update`, `state_dict` | optimizer, process group (all-reduce MAX of the overflow flag) |
| `minidist/mesh.py` ParallelMesh | coordinates and groups of the rank | construction of the tensor, pipeline and data groups, neighbour ranks | `torch.distributed.new_group` (collective) |
| `minidist/comm.py` | byte counters, world initialisation | collective wrappers, `record_comm` | all of the above |
| `minidist/tensor_parallel.py` | sharded weights | autograd functions f and g, column and row linear, vocabulary-parallel embedding and cross entropy | tensor group |
| `minidist/profiling.py` | none | trace parsing, interval union, intersection, difference | the trace file |
| `minidist/models/gpt.py` | weights | network definition | tensor-parallel layers |
| `examples/train_gpt.py` | none of its own | the training loop: zero_grad, forward and backward or schedule, flush, loss broadcast, scaler step and update | everything |
| `benchmarks/` | none | measurement drivers | everything |

### What is hard, and what makes each part correct

- **DDP.** Parameters become ready in an order that differs between ranks,
  hooks launch all-reduces while backward still runs, and a reduction finishes
  at any later time. Correct: the k-th all-reduce is the same bucket
  everywhere; a launched bucket is final; nobody touches a buffer in flight;
  after a synchronisation every gradient is the mean of all contributions
  since the last optimizer step, each once; no rank waits for ever; the
  reducer is clean before the next pass.
- **FSDP.** Buffers appear and vanish under autograd's feet, by hooks that
  fire in several passes. Correct: parameters read are present and of the last
  update; each gradient reaches the shards exactly once, whatever the mixture
  of accumulation, synchronised passes and flushes; memory is freed between
  passes and bounded within one.
- **Pipeline.** Stages are in different phases and even different steps.
  Correct: each gradient meets its own activation; activations in flight keep
  the bound of the schedule; no receive waits for ever; headers and payloads
  stay in step.
- **Gradient scaler.** Any subset of ranks may overflow, and callers may
  unscale early, or not. Correct: all ranks step or none, with real (unscaled
  once) and finite gradients; scales stay equal without being communicated;
  training always advances again.
- **Mesh.** Every rank belongs to one group of each kind and all ranks create
  all groups in one order.
- **Training loop.** A rank is a member of four groups and waits in each of
  them in turn. Correct: on every group the members make the same calls in the
  same order; no rank waits for ever across groups; no rank runs steps ahead of
  one it shares no group with, as long as anything in a step ties the two
  together (with `--strategy none` and no loss scaling nothing does across
  replicas).
- **Tensor parallel, GPT, flat buffers.** Each rank computes with a slice of
  each weight, and a sum left out or made twice shows in no error. Correct:
  replicated tensors agree in both directions, the loss is that of the whole
  vocabulary, and a step trains the model as one device would with the whole
  batch.
- **comm, profiling.** Sequential algorithms: accounting that counts a block's
  traffic and nothing else, interval arithmetic equal to its pointwise meaning.

`PROJECT.json` lists the hazards one by one, at their lines.

## The modules

### Ddp - `minidist/ddp.py`

A rank runs a *plan*, the training program: a sequence of `backward`,
`no_sync` (a backward inside `no_sync()`), `finish` (an explicit
`finish_gradient_sync()`) and `opt` (optimizer step and `zero_grad`). All ranks
run the same plan, each at its own speed.

| In the model | In the code |
|---|---|
| `pc` ctor / idle / backward / finish | `__init__`; the caller; autograd; `finish_gradient_sync` |
| `pending`, `work`, `buffer` | `_Bucket.pending`, `.work`, the flat buffer |
| `next`, `queued` | `_next_to_launch`, `_callback_queued` |
| `grad` | `p.grad` |
| `log`, `completed` | the all-reduces called, and those the group has finished |
| `Construct` | `_sync_module_states` |
| `StartBackward`, `GradReady`, `LaunchReady`, `EndBackward` | the engine, `_on_grad_ready`, `_launch_ready_buckets`, `_finalize_backward` |
| `CallFinish`, `FlushBucket`, `WaitBucket` | the two loops of `finish_gradient_sync` |
| `Complete(k)` | the process group reduces the buffers of the ranks' k-th calls |

A gradient is a linear combination of *contributions*, one per rank and
backward pass; the model keeps each coefficient as 0, 1 at the rank that
computed it (`own`), 1/W (`mean`) or anything else (`bad`). That is enough to
tell a gradient averaged once from one never averaged, averaged twice, summed,
or mixed with another bucket. Which parameters a backward pass reaches is
chosen per rank and pass, and their order is free.

Abstractions: the group has at least two ranks (one rank registers no hooks);
`broadcast_parameters` is on; a `None` gradient is zero; every backward reaches
at least one parameter, as the class asks of its callers ("static graph");
an all-reduce completes at one moment for all ranks, while its waiters go on at
any later time; the bucket assignment is a parameter, which FlatBuffers
computes.

### DataParallel and DdpAveraging - what DDP promises

`DataParallel` says what a caller of either wrapper is told, without buckets,
hooks, call order or buffers: a rank accumulates gradients; in a step that
synchronises it offers each gradient once, when the pass will add nothing to it
any more (`Offer`); what all ranks have offered in the same step is averaged,
any set of parameters at a time (`Average`); the rank takes each average and
only then leaves the step (`Take`); and all replicas start from one rank's
parameters. `DdpAveraging` maps Ddp to it: a gradient's place in the average
(`slot`) is read off its bucket's work handle, and what is in it off the bucket
buffer. `Averaging == DP!Spec` is checked as a property of Ddp. That covers what
no invariant of Ddp says, that averages are of the *same step* on all ranks and
each is taken over exactly once, by the rank's own step.

### DdpFailure - a backward pass that raises

Ddp with a pass that raises between two hooks on every rank and is caught.
autograd discards the callbacks queued in it, and nothing in `ddp.py` runs:
`_callback_queued` stays set (`lost`), and the next pass ends without
`_finalize_backward` (`EndUnfinalized`). See finding 1.

### Tensors, FlatBuffers, ShardedStep - the values

`Tensors` has matrices of numbers modulo a prime with the operations the model
needs; sums, products and quotients are exact, so that equality is decidable and
a partial sum is not taken for the whole. `FlatBuffers` has what both wrappers
do with tensors: `BuildBuckets` is `_build_buckets` (reverse order, capacity),
`GatherIntoBuffer` and `ScatterFromBuffer` the two loops of `_Bucket`;
`FlatParameter`, `ShardOf`, `ReduceScatterGrads` and `Unsharded` the
constructor, `reduce_scatter_grads` and `unshard` of `_FSDPUnit`.

`ShardedStep` is a training step of the GPT on a data by tensor mesh, next to
the same step on a single device, which is the code with groups of one. The
network is a *tape* of operators (`Tape`): column- and row-parallel layers, the
f and g operators of `tensor_parallel.py` as `fork` and `join` around them, the
heads of the attention, the vocabulary-parallel embedding and cross entropy.
`Forward` applies the operator under the tape's head on all devices, `Backward`
goes back through it; `AverageGradients` is DDP's buckets or FSDP's
reduce-scatter, `OptStep` an SGD step on what the optimizer was given, FSDP's
being a shard that is gathered again. `EnterRecord` and `ExitRecord` are
`record_comm` around any part of the pass, nested or not; the collectives called
meanwhile are counted as in `comm.py`.

Abstractions: layer norm, activation and attention weights are other functions
of what the real ones are functions of; one block; SGD instead of AdamW (both
act on one element at a time); FSDP's traffic is kept out of `record_comm`; the
hidden layer of the MLP is gathered and split again in half of the instances,
an option of the layers that the GPT leaves off.

### Fsdp - `minidist/fsdp.py`

A plan of `forward`, `eval` (under `no_grad`), `backward`, `no_sync`, `finish`,
`opt` and `summon` steps. In a step a rank is `at` one hook after another, for
one module, parameter or unit after another: `gather` and `free` are
`_FSDPUnit.unshard` and `reshard`, `arm` is `arm_gradient_reduction`, `use` a
module reading its parameters, `post` the post-forward hook, `grad` a
parameter's gradient with `on_param_grad_ready`, `reduce` is
`reduce_scatter_grads`, `flush` and `restore` a turn of the loops of
`finish_gradient_sync` and `summon_full_params`. Where a hook hands over to is
said by `Module` (the nesting of the modules in a forward), `Reached` (the
engine's order in a backward, with the pre-backward hooks) and `EachUnit` (a
loop over all units).

`full[r][u]` is the gathered buffer: empty when freed, else the set of update
counts its shards had when gathered. So "present and fresh" is
`full[r][u] = {version[r]}`. Collectives block: `AllGather` and `ReduceScatter`
happen once every rank is at them. `grad` and `shardGrad` count how often each
backward pass of each rank is contained.

Abstractions: a backward reaches all parameters; the parameters of one unit are
alike, so they become ready in one order; the engine accumulates a unit's
gradients before it enters the previous block (accumulation has the highest
priority in the engine's queue); dtypes are left out, and the shard arithmetic
is FlatBuffers'.

### Pipeline - `minidist/pipeline.py`

One process per stage; `link` holds the messages between neighbours in order,
`inflight` is `_in_flight`, `sendKnown` and `recvKnown` the header caches.
`NextOp` is the position in `step()` of either schedule, given by the counts of
forwards and backwards done. `RecvHeader` and `RecvPayload` are the two halves
of `recv`, `Forward` and `Backward` are `_forward_one` and `_backward_one` with
their sends, `Drain` is `drain()` and the return of `step()`. A tensor is the
step and microbatch it belongs to, and its shape. `eager` says whether a send
completes before it is received (small messages) or not (rendezvous); both
are explored.

Abstractions: losses, their scaling by 1/M, and the timeline are left out.

### GradScaler - `minidist/amp.py`

Each rank repeats `ScaledBackward`, any number of `CallUnscale`/`LeaveUnscale`
(explicit, or from `step()`) and `Update`. `SaveCheckpoint` writes one rank's
`state_dict()` at any point of its iteration outside of `unscale_`; `Restart`
is a crash of the job, after which every rank loads it into a new scaler. The scale is a power of two, which
the default growth (2) and backoff (1/2) factors keep it: `level` is its
logarithm. A gradient is the power it is scaled by and whether it overflowed.
Gradients may overflow above `SafeLevel`, must at `Ceiling`, and a bounded
number of batches (`MaxBadBatches`) are nan at any scale.

Abstractions: the scaler is enabled; a state dict is loaded into a fresh scaler,
as after a crash, not into one in the middle of an iteration; all ranks make the `unscale_` calls they make for the same optimizer, as the
all-reduce needs; the iteration number is kept modulo two, which is exact as
ranks are never two iterations apart (each iteration has an all-reduce; over
a whole mesh this is `WithinOneStep` of TrainStep, for whose `Tied` an enabled
scaler is enough).

### Mesh - `minidist/mesh.py`

Operators over a *shape*, the three degrees: `CoordOf` and `RankOf` translate
between ranks and coordinates, `TpGroups`, `DpGroups` and `PpGroups` are the
loops of `_build_groups` in their order, `GroupsCreated` what one rank creates
and `GroupOf` what it keeps, `PrevStageRank` and `NextStageRank` the neighbours
in the pipeline.

### Partition - `pipeline.py`, `models/gpt.py`

`PipelineLayers` is the list `build_pipeline_layers` makes, `StageStart` and
`StageEnd` the slice `partition_layers` takes of it. TrainStep gives each rank
the modules of its stage with it.

### TrainStep - `examples/train_gpt.py`

The composition: every rank of a mesh, from the creation of the groups through
the training steps to `shutdown_distributed`. `todo` is what the rank has still
to call in its step; `StepOps` puts it together from the schedule
(`ScheduleStep`), the flush of the gradients (`GradientSync`), `BroadcastLoss`
and the scaler's all-reduce (`ScalerStep`), or from a plain forward and
backward with the flush of DDP's callback (`PlainStep`). A forward or backward makes the all-reduces of the
modules on the rank's stage (`ForwardOps`, `BackwardOps`), so that stages differ
in what they call. A call appends to the rank's sequence for that group
(`called`), a wait returns once the group has made its call (`Returned`);
`link` counts the messages between stages. The shape, the strategy, overlap, the
schedule and the precision are chosen once and for all in `Init`, from `Configs`.

The strategies differ in what they call on the data group. FSDP gathers in each
pass and reduce-scatters each unit in a hook, in the middle of a backward that
synchronises (`Hook`, `Scatter`). DDP launches its buckets from hooks when it
overlaps, and at the end of the backward with `--no-overlap` (`Launch`,
`Launches`), and waits there (`Flush`). Under a pipeline the hooks are off, and
both do it all in `finish_gradient_sync`. With `--strategy none`, or a single replica,
`build` leaves the model unwrapped: no broadcast of parameters, no
synchronisation, no call on the data group at all.

That last case bounds what can be said of steps. Replicas of an unwrapped model
train on their own, each on its own data, and unless a scaler all-reduces its
overflow flag over the world one may run any number of steps ahead, up to the
barrier at the end. `Tied` says which ranks a step holds together: with loss
scaling or a wrapped model all of them, else those of one replica.
`WithinOneStep` is about these.

A broadcast may return as soon as its source has called it, and a send may
complete before it is received; or neither may. Both are explored, and only
the late return is fair, so that what is shown to end does not rely on an early
one.

Abstractions: what the calls move is left out, the component modules say that;
one all-gather stands for those of all FSDP units in a pass, one broadcast for
those of all parameters (each is the same sequence on all members of the group; finding 4
says which gathers FSDP leaves out under a pipeline); buckets fill in
order, as the flush order is Ddp's concern; the headers of messages are left
out, they are Pipeline's.

### TraceAnalysis - `minidist/profiling.py`

A profiler writes events (`Record`), `Analyze` is `analyze_trace`. `Merge`,
`Intersect` and `Subtract` are `_merge`, `_intersect` and `_subtract`, each
`Fold` a loop over a list with one turn an operator of its own (`Join`, `Walked`,
`Past`), and `Sorted` the sort as insertions; `Report` is the `OverlapReport`. The properties
compare its times with the sizes of sets of busy instants.

Abstractions: time is an integer; a name is its class; threads are left out, as
the analysis does not look at them. `_subtract` keeps its place in the second
list from one interval to the next: as both lists are sorted, that is the same
as skipping what ends before the interval begins.

## What is checked

| Run | Instance | States | Shows |
|---|---|---|---|
| `ddp` | 2 ranks, 3 parameters in 2 buckets, 5 plans of 3 steps, overlap on and off, a subgroup with `src` 1 | 71,890 | type, matching collectives, final launches, mean gradients, clean reducer, untouched buffers, implementation of DataParallel, termination |
| `sharded_step` | 1, 2 or 3 replicas of 1 or 2 tensor-parallel ranks, DDP and FSDP, MLP gathered or not, batches drawn from 2 samples, 2 uses of `record_comm` | 46,160 | type, agreeing activations and gradients, cross entropy, the parameters of one device, one all-reduce each way |
| `fsdp` | 3 ranks, 2 blocks and a root, 6 parameters, 5 plans of up to 8 steps, both reshard flags | 72,896 | type and pending counts, fresh parameters, mean shards, freed buffers, one block at a time |
| `pipeline` | 4 stages, 4 microbatches, 2 steps, both schedules, eager and rendezvous sends | 8,248 | order, pairing, activation bound, headers, termination |
| `grad_scaler` | 2 ranks, 1 optimizer, scales 1 to 8, growth every 2 good steps, 2 bad batches, 2 restarts | 137,871 | unanimous steps, equal scales, real and finite gradients, progress for ever, across crashes |
| `train_step` | 4 ranks, all six factorisations into three axes, no strategy, DDP with and without overlap, FSDP, both schedules, with and without loss scaling, 3 blocks, 2 microbatches, 2 parts, 2 steps | 675,636 | type, matching calls on every group, sound groups, stages that hold the model, ranks that are tied within one step, termination |
| `trace_analysis` | 4 events, 3 units of time, device and host profiles with events to leave aside, both values of `prefer_device` | 323,664 | counts, exact busy and overlapped times, wall time |
| `ddp_failed_backward` | as `ddp`, the first backward raises | | finding 1 |
| `pipeline_short_batch` | 3 stages, the second batch smaller | | finding 2 |
| `grad_scaler_two_optimizers` | 2 ranks, 2 optimizers | | finding 3 |
| `fsdp_pipelined` | 2 ranks, two forwards before the first backward | | finding 4 |
| `fsdp_single_rank` | 1 rank, accumulation and flush | | finding 5 |

**Bounds, and why they are enough.** *Ddp*: two buckets are the least for which
order matters, and the second holds two parameters and can fill up before the
first; the sets of reached parameters include all, a part of a bucket and none
of one; the plans contain every pair of synchronised, unsynchronised and
explicit synchronisation, and a second iteration after an update. *Fsdp*: the
plans make each unit be gathered and freed in each kind of pass, with an update
in between; the root owns parameters that backward reaches first and last.
*Pipeline*: with four stages and microbatches warm-up, steady state and
cool-down are all non-empty on some stage and stage 0 has no steady
backward before the warm-up ends; two steps let one stage be a step ahead.
*ShardedStep*: two tensor-parallel ranks own different heads and halves of the
vocabulary, and the samples have targets on either; three replicas make no
unit a multiple of the group's size, so that padding and parameters across two
shards occur; buckets hold several parameters each, or a large one alone.
The prime is 101 and weights have no pattern two shards could share.
*GradScaler*: two ranks let one or both overflow; the levels include one
that never, one that may and one that must overflow; a second restart loads a
checkpoint written after the first; the state space is otherwise unbounded in
time, and the iterations repeat.
*TrainStep*: four ranks are the fewest with two axes of two, so that a rank
shares no group with another; axes of four and the three single-axis meshes are
included; two steps let a rank be in the next one. Two microbatches give the
1F1B schedule a warm-up, a steady state and a cool-down. Three blocks make five
modules, which neither two nor four stages hold evenly.
*TraceAnalysis*: four events are two of each class, the least for the walk over
two lists to leave either behind; three units of time have room for intervals
that nest with a gap on both sides, touch, coincide or are apart. Events are
written in the order they end, so that they are not in the order they begin.

**Fairness.** Every rank's thread runs on until a wait blocks it, so each rank
(stage) has weak fairness on its steps (in TrainStep only the weaker: some rank
that can go on does), and the process group has weak fairness
on each collective all ranks have called. In GradScaler the caller must also,
in the end, step each optimizer: strong fairness on the call of `unscale_` from
`step()`, since explicit `unscale_` calls may come in between any number of
times. SaveCheckpoint and Restart have no fairness: crashes need not happen, and
are bounded. Fsdp and ShardedStep have safety properties only; their runs still
check for deadlock.

**Mutants.** Every property has a mutant, a definition of the code changed the
way a plausible bug would (they stand next to the originals, commented
*Mutant*), under which it is violated.

## Findings

1. `ddp.py:220`: a backward that raises leaves `_callback_queued` set, so the
   next backward does not queue `_finalize_backward`, which alone clears it
   (`ddp.py:250`), and returns with local gradients; the design goal stated at `ddp.py:206-209` is that a plain
   backward synchronises.
2. `pipeline.py:217`: headers are cached for ever, so a later batch of another
   shape is received into buffers of the old shape, although the transport is
   called shape-self-describing.
3. `amp.py:198`: one `_unscaled` flag serves all optimizers; the second of two
   steps with gradients still multiplied by the scale, unlike the scaler this
   one is called a drop-in replacement for.
4. `fsdp.py:203`: the pending count is set by each forward and serves one
   backward, and the root has no backward pre-hook; with two microbatches in
   flight, as a pipeline has and `examples/train_gpt.py` allows, a backward
   computes with freed parameters.
5. `fsdp.py:464`: on one rank `finish_gradient_sync` does not flush what
   `no_sync` accumulated.

Seen while reading, without a run: with the default group `ddp.py:161` replaces
`src` by 0, while the docstring (110-111) promises a broadcast from `src`; a
target no rank's vocabulary holds contributes a zero logit with tensor
parallelism instead of an error (`tensor_parallel.py:468-473`); FSDP's comment
(`fsdp.py:207-213`) says no stale buffer is left behind, but a unit with a
parameter that got no gradient is neither reduced nor freed in that pass; the GPipe diagram (`pipeline.py:17-20`)
draws backwards in reverse order, the code runs them first in, first out;
`comm.py:3-4` says everything talks to the backend through it, but the
overflow flag (`amp.py:217`), the cross entropy (`tensor_parallel.py:459-473`)
and the constructors' broadcasts bypass it and its accounting;
`profiling.py:315` says only top-level operators are kept of a host trace, but
all are (the times are right, since intervals are merged; the count of compute
events includes nested ones).

## What is proved

Every theorem holds for all values of the constants that satisfy the assumptions
stated in the component's module (`...Assumption`); where one needs more, it has
the hypothesis in front. The runs above check the same properties on small
instances.

| Module | Theorem | States |
|---|---|---|
| `DdpProofs` | `TypeCorrect` | `Spec => []TypeOK` |
| | `CollectiveOrder` | `Spec => []CollectivesMatch` |
| | `CleanReducer` | `Spec => []CleanBetweenSteps` |
| | `LaunchFinal` | `Spec => []LaunchedIsFinal` |
| | `BuffersInFlight` | `Spec => InFlightUntouched` |
| | `SyncedMean` | `Spec => []SyncedGradIsMean` |
| | `Refinement` | `Spec => Averaging`: Ddp implements DataParallel |
| `PipelineProofs` | `PipelineTypes` | `Spec => []TypeOK` |
| | `InOrder` | `Spec => []InFlightInOrder` |
| | `BackwardsPair` | `Spec => []BackwardPairs` |
| | `Bounded` | `Spec => []ActivationBound` |
| | `HeadersAgree` | `Spec => [][ReadAsSent]_vars` |
| | `Lockstep` | `SameShapes => (Spec => []TransportLockstep)` |
| `GradScalerProofs` | `ScalerTypes` | `Spec => []TypeOK` |
| | `ScalesAgree` | `Spec => []ScaleAgrees` |
| | `UnanimousSteps` | `Spec => []StepsUnanimous` |
| | `RealGradients` | `OneOptimizer => (Spec => AppliesRealGradients)` |
| | `FiniteGradients` | `OneOptimizer => (Spec => AppliesFiniteGradients)` |
| `FsdpProofs` | `FsdpTypes` | `Alternating => (Spec => []TypeOK)` |
| | `AllFreed` | `Alternating => (Spec => []FreedBetweenPasses)` |
| | `OneBlock` | `Alternating => (Spec => []OneBlockGathered)` |
| | `FreshParams` | `Alternating => (Spec => []ParamsFresh)` |
| | `ShardsHoldMean` | `Alternating /\ ... => (Spec => []ShardGradIsMean)` |
| `TrainStepProofs` | `SoundMesh` | `Spec => []MeshSound` |
| | `ModelOnStages` | `Spec => []StagesHoldModel` |
| | `TrainStepTypes` | `Spec => []TypeOK` |
| | `CallsMatchInGroups` | `Spec => []GroupCallsMatch` |
| | `StepsTogether` | `Spec => []WithinOneStep` |
| | `CoordOfRankOf`, `RanksDistinct`, `RankOfCoordOf` | ranks and coordinates are in bijection |
| | `EveryLayerOnce`, `StagesEven`, `EndsOfPipeline` | the cut into stages |
| `TraceAnalysisProofs` | `AnalysisTypes` | `Spec => []TypeOK` |
| | `BusyTimesCounted` | `Spec => []BusyTimesExact` |
| | `OverlapCounted` | `Spec => []OverlapExact` |
| | `BusyFitsInWall` | `Spec => []FitsInWall` |
| `ShardedStepProofs` | `ForwardActivationsAgree` | `Spec => [](phase = "forward" => ActivationsAgree)` |
| | `ShardedLossIsCrossEntropy` | `Spec => []LossIsCrossEntropy` |
| | `ColumnParallelSlices`, `ColumnParallelGathers`, `GatherUndoesScatter`, `RowParallelAddsUp`, `ParallelPair` | sharded layers, forward |
| | `ColumnParallelInputGrad`, `RowParallelInputGrad`, `ColumnParallelWeightGrad`, `RowParallelWeightGrad` | and backward |
| | `PaddingSmall`, `ShardsTile` | the cut into shards |

`SequenceLaws` has the lemmas that the last three rest on. The prover cannot take a
theorem of induction about an arbitrary predicate, so induction is stated for
sets, from the library's theorem that a set of numbers without a least member is
empty: a property is the set of the numbers (`SetInduction`, `InductionTo`) or
sequences (`SequenceInduction`) that have it. From it follow that a recursive
function over a range exists and has the value of each of its turns (`Iterate`),
which opens every fold of the models, and laws of sequences put together from
pieces: what is left of them when only the members of a set are kept (`Only`),
how many those are (`Tally`), and where a cut through the whole cuts the pieces
(`SplitFlatten`).

### Ddp: order and counting (`DdpProofs`)

Assumed are a finite group of at least two ranks, buckets that are not empty and
sets of reached parameters that are not empty (`RanksAssumption`,
`BucketsAssumption`, `PlansAssumption`). *Types* are inductive together with
`BusyAtStep`: a rank in a backward or a flush is at a step of its plan, without
which incrementing `step` could leave its range. *Order* rests on the
observation that a rank's call log is cyclic: `CyclicLogs` says its k-th entry
is (k - 1) mod NumBuckets, and `NextFollowsLog` ties `next` to the log's length.
Two cyclic logs agree wherever both are defined. That each launch is at `next`
is what makes this inductive, and is what the in-order launch of the code is
for. *The reducer* rests on `RankInv`, one rank at a time: `LaunchedRange`
(exactly the buckets below `next` have a work handle, those already waited for
excepted), `Resting` (between steps all counters are as initialised) and
`Counting` (during a synchronising backward, `pending` of a bucket is the number
of its parameters still in `todo`). A full bucket therefore has no parameter
left to reach, which gives `LaunchFinal`; and `next` reaches `NumBuckets` before
the wait loop resets it, which gives `CleanReducer`. `BuffersInFlight` follows
step by step: only `Launch` sets a handle, of a bucket that has none, and only
`WaitBucket` drops one, after its reduction.

### Ddp: the average (`DdpProofs`)

That the k-th calls are of the same bucket is not enough for `SyncedGradIsMean`:
they have to be of the same *step*. No rank knows another's step. But a rank
makes one call per bucket in every synchronising step, so the number of a call
gives its step and bucket (`Base`, `CallOf`), and a rank leaves a step only when
all its calls have completed, that is, when every rank has made them. `CallInv`
says both; it follows that while a call is open all ranks are in one step, at
most some of them not yet begun.
`GradInv` then says what `p.grad` is at any moment: the mean, if the step's
average has been taken over (`Mean`), and before that, of each contribution, the
mean if a synchronisation lies behind it, the rank's own part if it has been
accumulated since, and nothing otherwise (`Local`). `BufferInv` says a launched
bucket's buffer holds the gradients, and after the call's completion their mean;
for this the gradient must not change between launch and wait, which is
`LaunchFinal` again. `PassInv` says which passes a rank has begun, so that an
average cannot contain a part that another rank has yet to compute.

The refinement has one lemma for each action of Ddp. `StartBackward` and
`CallFinish` begin the caller's step, `GradReady` accumulates, a launch offers
all gradients of the bucket, `Complete` averages them, a turn of the wait loop
takes them, and the last turn ends the step. `FlushBucket` offers what `LaunchReady`
did not; the rest the caller does not see. That `Complete` is an `Average` needs
that all ranks' offers are of the same step, and the mean of what they hold:
both are in the invariant above. One more is needed, `OriginInv`: the
rank that the others copy keeps its own parameters.

### Pipeline (`PipelineProofs`)

A stage knows only its own counts; a tensor's identity is in the order of the
messages. `LinkInv` says that a link holds exactly what its sender has sent and
its receiver not yet received, in the order of the microbatches and *across
steps* (`Stream`, from the receiver's position to the sender's), and that the
first message of all is the header if the receiver has still to read it.
`InboxInv` says a received tensor is of the microbatch the next operation is
for, and `StageInv` that `inflight` and `passes` are what the counts say, the
forwards never more than `Warmup + 1` ahead. Each action moves one end of one
stream. The types are part of it: `fwd` and `bwd` stay below M only because the
schedule does. `HeadersAgree` needs no assumption on shapes; `Lockstep` has the
hypothesis `SameShapes`, every step with the same shapes, without which it is
false (finding 2).

### GradScaler (`GradScalerProofs`)

Nothing tells a rank what scale another has. The invariant compares two ranks:
they are in the same iteration if and only if they are on the same side of the
iteration's all-reduce (`PairInv`). On the same side, scale, growth count and
agreed flag are equal (`Together`); if one has run `update()` and the other has
not, its scale is what the other's `update()` will make of it (`Leads`). A
restart puts all ranks on the same side with one rank's saved state.
`CeilingHolds` keeps the scale in bounds: where every gradient overflows, the
group has found an overflow, and the scale is not grown. The two action
properties add `ScaledOnce`, the gradients carry the scale until `unscale_` has
divided by it and not after, which holds for one optimizer (`OneOptimizer`) and
is false for two (finding 3), and `FoundAll`, an agreed flag that is clear
speaks for every rank's gradients.

### Fsdp (`FsdpProofs`)

The buffers are gathered and freed by hooks of different passes, and no hook
knows what the others did. What holds them together is that a rank's place in
its plan says everything about its units (`UnitsInv`): which are gathered
(`Gathered`) and how many gradients each of them awaits (`Awaited`), for every
hook of every pass, with either flag. Within a forward the blocks passed are
gathered if they are kept; within a backward a unit is gathered while gradients
of it are to come, if it was kept, or from its own pre-backward hook on; the
pending count is the number of those gradients (`Remaining`), so that it reaches
zero at the unit's last parameter and not before. There is one lemma for each
action; `Arriving` and `Onward` say what changes from one parameter to the next.
The first three theorems read the answer off `Gathered` and `Awaited`.

The other two are about all ranks at once, and a rank goes through its hooks on
its own; only the collectives hold the ranks together, and they are matched by
the order of the calls, not by name. `Lockstep` is what makes them match: no rank
is past a collective another rank has not called (`SamePassed`, over the places
of a plan in the order a rank comes to them). A rank's own step takes it past
none: `SkipGather` passes a gather that is not one (`SkipPassed`), and a flush
leaves a unit out only if nothing is accumulated, which is then true of all
ranks (`FlushPassed`). Ranks that call a collective are therefore at the same place
(`CalledTogether`), so that an all-gather finds shards that have had the same
optimizer steps (`FreshGather`), and nothing is gathered when they are updated
(`FreshOpt`).

What the gradients and the shards contain is said by the place, too (`InGrad`,
`InShard`): the passes accumulated under `no_sync` and not reduced
(`Accumulated`), and those since the last optimizer step that are reduced. A
reduce-scatter moves the one to the other, on ranks at the same place
(`ReduceGrads`). `ShardsHoldMean` has two hypotheses more: at least two ranks, as on
one rank `finish_gradient_sync` flushes nothing (finding 5), and
`FlushedBeforeStep`, that what is accumulated under `no_sync` is reduced before
the optimizer steps. Without the latter the gradients of before the step stay in
`p.grad`, as `zero_grad()` of the shards' optimizer does not reach them.

All five have the hypothesis `Alternating`: each forward has its backward before the
next forward, evaluation or optimizer step, and each backward its forward.
Without it they are false: two forwards before the first backward are finding 4,
and an evaluation between a forward and its backward frees the root. The plans
of the `fsdp` run satisfy it (`MCPlansAssumption`), and so does the training
loop without a pipeline.

### Mesh and stages (`TrainStepProofs`)

`CoordOfRankOf` and `RankOfCoordOf` say that `coord_of` and `rank_of` invert one
another; they rest on `DivUnique` (a number has one quotient and remainder) and
`TwoDigits` (two digits are below the product of their bases). The groups
are created in three loops over pairs of coordinates (`Flatten`, `Unflatten`);
a rank is in exactly one group of each kind, so the one it keeps is the group
along that axis (`TpGroupOf`, `DpGroupOf`, `PpGroupOf`).

That a layer is on some stage is shown by computing the stage, from the quotient
of the layer by the size of the larger stages or, beyond those, of the smaller;
that it is on no other, from `StagesInOrder`: a stage ends before a later one
starts. Both need `Shares`, the division of n with its remainder.

No step of TrainStep changes the configuration or the groups (`GroupInv`), so
`SoundMesh` and `ModelOnStages` are statements about the shape: the members of a
group are the ranks with the same coordinates on the other axes (`KeptGroup`),
one for every coordinate on its own (`GroupSize`), hence in a pipeline group one
for every stage (`OneRankPerStage`), to which the theorems about the cut apply.

### The training loop (`TrainStepProofs`)

The invariant, `RunInv`, does not say where each rank is; it says that a state is
the record of programs partly run (`Recorded`). Each rank has done some beginning
d of its step's program and `todo` is the rest; what it has called, waited for
and sent since the start is what is in the programs of its earlier steps followed
by d (`Run`), and a link holds what the sender's run has sent and the receiver's
not yet received. One lemma, `OperationRecorded`, serves all operations, which
move one entry from `todo` to d; beginning a step is the other (`StepRecorded`).
`WaitsMet` adds what a wait that has returned says of the group, for the
collectives that do not return early: each member has made the call that a
counted wait was for. A broadcast gives no such guarantee, and so the pipeline
group, and the first call on the data group, which is the broadcast of the
parameters, are left out of it.

*Matching calls* then is about programs, not states: two members of a group have
the same calls on it in every step (`SameStepCalls`), and a
beginning of equal sequences matches another beginning (`CallsMatch`). The calls
on the tensor group depend on the modules of the stage, which a tensor group
shares (`SameStage`); those on the data group on the schedule, which puts the
same number of forwards and backwards in a different order on each stage, but in
one order on the same stage.

*Within one step* is a chain of reductions and messages (`Together`). Say rank r
is beyond step j, and s has not begun it. With loss scaling r has waited for the
all-reduce of step j over the world, in which s takes part (`WorldHop`), and
that is all. Else, if the model is wrapped, r has waited for the reduction of
the gradients of step j, so that every rank of its data group has been through
the schedule of that step (`GradientHop`), also the one, x, with the data
coordinate of s. If it is not wrapped, r and s are tied by their data coordinate,
and x is r itself. For that, x has received the activations of the stage before it
and the gradients of the stage behind it, and these those of theirs
(`StagesBefore`, `StagesBehind`, by induction over the stages): a rank y on the
stage of s has sent a message of step j. It has then been through an all-reduce of
its tensor group in that step (`ReducedBefore`), and s is in that group
(`ReduceHop`). On each leg it is a count that is compared: a rank has called,
sent or received more often than its steps before j contain (`Gone`), so its
neighbour has. Where a group is a single rank, or the pipeline a single stage,
the leg is left out, which is why each has its own lemma. *Types* rest
on the same counting: `FewUnderWay` bounds a link by the messages of one step, as
what is under way from the step before has been received before a new one
starts.

### TraceAnalysis (`TraceAnalysisProofs`)

`analyze_trace` is one step of the model, and what has to be proved is in the
loops of its helpers, for lists of any length. Each loop has an invariant over
its turns, by `Iterate` and `InductionTo`, that compares the list so far with the
set of instants it covers (`Instants`).

- `_merge`: sorting keeps the intervals and puts them in the order in which they
  begin (`SortedFacts`), and so a turn of the loop meets only the last interval of
  the result; it keeps a list of intervals apart and in order (`Rows`) with the
  same instants (`JoinFacts`, `MergeFacts`).
- `_total`: the lengths of a row sum up to the number of its instants
  (`TotalFacts`), as they share none.
- `_intersect`: the instants found and those in what is left of both rows are
  together all that they have in common (`WalkSound`), because the interval that
  ends first meets only the other of the two (`OneLeft`). Each turn leaves one
  interval behind, so there are as many turns as needed (`Far`).
- `_subtract`: what lies before the cursor is written or covered (`CutSound`), for
  each interval on its own (`CutFacts`), and the pieces of a row are a row
  (`SubtractFacts`).

The invariant `Settled` says that the report, if there is one, is that of the
trace, to which nothing is added any more (`SameReport`). No assumption on the
order of the events or on their nesting is needed, only that none ends before it
begins (`TraceAnalysisAssumption`).

### ShardedStep: layers and forward pass (`ShardedStepProofs`)

Assumed are sizes above zero, meshes that divide the heads and the vocabulary, as
the constructors ask, and weights and samples of the shapes they have
(`SizesAssumption`, `ConfigsAssumption`, `WeightsAssumption`,
`SamplesAssumption`). All else is free: any number of replicas, of ranks to a
tensor group, of heads, of features, of tokens, any weights, any batch.

The model adds numbers with a fold over a set (`Total`), in an order that no one
may rely on. The community modules' fold is a recursive function over the subsets
of its domain; by induction over those (`SubsetInduction`) a sum can be taken
apart at any element (`TotalOf`), hence is additive, is split at a cut and is put
together from the sums of equal pieces. These laws are all that the theorems about
layers need: a column-parallel layer computes slices (`ColumnParallelSlices`), as
each feature of its output is a sum of its own; a row-parallel layer computes parts of
a sum cut into equal pieces (`RowParallelAddsUp`), and its gradients the other way
round.

An activation is held in one of few ways: whole on each device of a replica, in
slices of its features, or in parts that add up (`Holds`, with `WholeIn`,
`SliceIn`, `PartialIn`). Each operator changes one way into another (`Turns`), and
the tape is a chain of them in which each finds what the one before it leaves
(`TapeChain`, along the places of `Path`), whether the MLP gathers or not, and whole
where a residual branch begins and ends. There is one lemma for each operator
(`ApplyTurn`). For attention it is `SliceIn` of whole heads that is needed: the
qkv features of a rank are those of its heads because the layout is by head first.
For the embedding, an id is owned by one rank of the group and the others add
zeros. The invariant, `ForwardInv`, says the activation is held as its place on the
tape says, and the residual branch whole; between modules the place is whole,
which gives `ForwardActivationsAgree`.

The loss is formed from three reductions. The maximum is the same on all
ranks, and whichever it is (`MaxIs`), it is subtracted from the target's logit and
from all others: the exponential turns the difference into a factor (`ExpSum`), the
same above and below the line, that has an inverse (`Inverses`: every number but
zero has one modulo the prime, which is checked over the table of the powers of the
generator). The target's logit comes from the one rank that owns it
(`PredictedIs`), and the sum of the exponentials from all slices (`SumExpIs`).

### What stays with TLC

- Liveness (`AllFinish`, `AllStepsEnd`, `TrainingAdvances`): the prover does no
  fairness or ENABLED reasoning.
- Of ShardedStep, the backward pass and what follows it: `ActivationsAgree` of gradients,
  `TrainedAsOneDevice`, `TypeOK` and `OneAllReduceEachWay`. The gradients of the
  linear layers are proved (above); those of attention and of the loss, the walk
  back over the tape, and the way of the gradients through buckets or shards to
  the optimizer are not.

## What is not modelled, and why

- Random initialisation, dropout, dtypes and rounding: the numbers are exact.
- FSDP with parts of the model unused. The code asks, without saying so, that
  every backward reach all parameters of a unit: otherwise `_grads_pending`
  stays above zero, the unit is neither reduced nor freed, and its next forward
  reads it as it is. The same goes for a forward under `no_grad` between a
  forward and its backward, which frees the root.
- An exception within a pipeline step: messages already sent stay on the links
  and nothing in the code takes them back; a job in that state is not continued.
- The disabled scaler, `PrecisionPolicy`, the pipeline's timeline, the running
  of the profiler, backend and device choice, reports and printing: no control
  state, or wording and measurement.
- The benchmarks, which drive the same components.
- A mesh of a single rank, which creates no groups and calls nothing.

## Plan

1. **ShardedStep, backward**: the gradients of attention and loss are linear in the
   gradient they are given, and held as its place on the tape says, so that
   `ActivationsAgree` has an invariant like `ForwardInv`; then `TrainedAsOneDevice`.
2. **An abstract specification of sharded training that Fsdp implements**: one
   replica's parameters and the window of passes that goes into its next update.
   DataParallel does not fit as it is: it keeps a gradient per parameter where
   Fsdp has shards and blocks that are freed.
