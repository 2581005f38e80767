---------------------------- MODULE ShardedStep ----------------------------
(***************************************************************************)
(* One training step of the GPT of minidist/models/gpt.py, with its layers *)
(* sharded over a tensor group (minidist/tensor_parallel.py) and its batch *)
(* over a data group (ddp.py or fsdp.py), next to the same step of the     *)
(* same model on a single device, which the code builds with a group of    *)
(* one.                                                                    *)
(*                                                                         *)
(* The forward pass applies the operators of a tape, the backward pass     *)
(* goes through it in reverse.  All devices take an operator together:     *)
(* within a step they only meet in blocking collectives, which they all    *)
(* call in the order of the tape.                                          *)
(*                                                                         *)
(* Normalisation, activation and attention are stood for by other          *)
(* functions of what the real ones are functions of: one element and its   *)
(* weight, one element, and one head of one sequence.                      *)
(***************************************************************************)
EXTENDS FlatBuffers, FiniteSets, TLC

CONSTANTS
    Heads, HeadDim,     \* n_head, head_dim
    SeqLen,             \* tokens of a sequence
    Vocab,              \* vocab_size
    FullWeight,         \* the unsharded weights, by name
    Samples,            \* the sequences explored, with their targets
    Configs,            \* the meshes and options explored
    BucketCap           \* bucket_cap_mb, in elements

Embd == Heads * HeadDim

ASSUME SizesAssumption ==
    Heads \in Nat \ {0} /\ HeadDim \in Nat \ {0} /\ SeqLen \in Nat \ {0} /\ Vocab \in Nat \ {0}

\* The constructors refuse a tensor group that does not divide these.
ASSUME ConfigsAssumption ==
    \A c \in Configs :
        /\ c.dp \in Nat \ {0} /\ c.tp \in Nat \ {0}
        /\ Heads % c.tp = 0 /\ Vocab % c.tp = 0
        /\ c.wrapper \in {"ddp", "fsdp"} /\ c.gathered \in BOOLEAN /\ c.records \in Nat

ASSUME SamplesAssumption ==
    \A s \in Samples : s.ids \in [1 .. SeqLen -> 0 .. Vocab - 1] /\ s.targets \in [1 .. SeqLen -> 0 .. Vocab - 1]

\* Rows and columns of the unsharded weights.
WeightShape ==
    [wte |-> <<Vocab, Embd>>, wpe |-> <<SeqLen, Embd>>,
     ln1 |-> <<Embd, 1>>, qkv |-> <<3 * Embd, Embd>>, qkv_bias |-> <<3 * Embd, 1>>,
     attn_proj |-> <<Embd, Embd>>, attn_proj_bias |-> <<Embd, 1>>,
     ln2 |-> <<Embd, 1>>, fc |-> <<4 * Embd, Embd>>, fc_bias |-> <<4 * Embd, 1>>,
     mlp_proj |-> <<Embd, 4 * Embd>>, mlp_proj_bias |-> <<Embd, 1>>,
     ln_f |-> <<Embd, 1>>, head |-> <<Vocab, Embd>>]

ASSUME WeightsAssumption ==
    \A p \in DOMAIN WeightShape :
        FullWeight[p] \in [1 .. WeightShape[p][1] -> [1 .. WeightShape[p][2] -> Num]]

VARIABLES
    config,     \* dp, tp, wrapper, whether the MLP gathers its hidden layer,
                \* and (a bound) how often record_comm is used
    batch,      \* the sequence of each data-parallel rank
    phase,      \* forward, backward, sync, opt, done
    at,         \* position on the tape
    value,      \* the activation, or in backward its gradient
    saved,      \* what each operator of the tape saved for backward
    skip,       \* the residual branch
    loss,       \* exp(-loss) of each token
    weight,     \* the parameters
    grad,       \* p.grad, or after the sync of FSDP the shards' mean
    recording,  \* record_comm: enabled, the flags to restore, uses, the last entry
    stats       \* comm_stats: calls and bytes by collective

vars == <<config, batch, phase, at, value, saved, skip, loss, weight, grad, recording, stats>>

-----------------------------------------------------------------------------
(* Devices: the mesh, and the single device. *)

Single == <<"single", 0, 0>>
DpRanks == 0 .. config.dp - 1
TpRanks == 0 .. config.tp - 1
MeshDevices == {"mesh"} \X DpRanks \X TpRanks
Devices == MeshDevices \cup {Single}

World(d) == IF d = Single THEN 1 ELSE config.tp
Rank(d) == d[3]
TpPeer(d, t) == <<d[1], d[2], t>>
DpPeer(d, r) == <<d[1], r, d[3]>>

\* What the ranks of the tensor group hold.
OfGroup(f, d) == [t \in 0 .. World(d) - 1 |-> f[TpPeer(d, t)]]

\* The sequences of a device, one after the other, as rows.
MySamples(d) == IF d = Single THEN [i \in 1 .. config.dp |-> batch[i - 1]]
                ELSE <<batch[d[2]]>>
IdsOf(d) == FlattenSeq([i \in DOMAIN MySamples(d) |-> MySamples(d)[i].ids])
TargetsOf(d) == FlattenSeq([i \in DOMAIN MySamples(d) |-> MySamples(d)[i].targets])
PosOf(n) == ((n - 1) % SeqLen) + 1
SameSeq(n, m) == (n - 1) \div SeqLen = (m - 1) \div SeqLen

-----------------------------------------------------------------------------
(* The model. *)

ParamOrder ==
    <<"wte", "wpe", "ln1", "qkv", "qkv_bias", "attn_proj", "attn_proj_bias",
      "ln2", "fc", "fc_bias", "mlp_proj", "mlp_proj_bias", "ln_f", "head">>
Params == Range(ParamOrder)
BlockUnit == SubSeq(ParamOrder, 3, 12)
RootUnit == <<"wte", "wpe", "ln_f", "head">>

SplitByRow == {"wte", "qkv", "qkv_bias", "fc", "fc_bias", "head"}
SplitByColumn == {"attn_proj", "mlp_proj"}

\* The slice of a full weight that a rank owns, when the layer is built or
\* loaded (set_full_weight).
ShardOfWeight(name, full, world, rank) ==
    IF name \in SplitByRow THEN Rows(full, world, rank)
    ELSE IF name \in SplitByColumn THEN Columns(full, world, rank)
    ELSE full

Op(kind, name, bias) == [kind |-> kind, name |-> name, bias |-> bias]
Plain(kind) == Op(kind, "none", "none")

ColumnParallel(name, bias) == <<Plain("copy"), Op("linear", name, bias)>>
RowParallel(name, bias) ==
    <<Op("linear", name, "none"), Plain("reduce"), Op("bias", bias, "none")>>

Residual(ops) == <<Plain("fork")>> \o ops \o <<Plain("join")>>

CausalSelfAttention ==
    ColumnParallel("qkv", "qkv_bias") \o <<Plain("attend")>>
    \o RowParallel("attn_proj", "attn_proj_bias")

\* A hidden layer that is gathered (gather_output) is scattered again
\* (input_is_parallel = False).
MLP ==
    ColumnParallel("fc", "fc_bias")
    \o (IF config.gathered THEN <<Plain("gather"), Plain("act"), Plain("scatter")>>
        ELSE <<Plain("act")>>)
    \o RowParallel("mlp_proj", "mlp_proj_bias")

Embedding == <<Op("lookup", "wte", "none"), Plain("reduce"), Op("position", "wpe", "none")>>
Block ==
    Residual(<<Op("norm", "ln1", "none")>> \o CausalSelfAttention)
    \o Residual(<<Op("norm", "ln2", "none")>> \o MLP)
LMHead == <<Op("norm", "ln_f", "none")>> \o ColumnParallel("head", "none")

\* GPT.forward, with one block.
Tape == Embedding \o Block \o LMHead \o <<Plain("loss")>>

-----------------------------------------------------------------------------
(* Vocabulary-parallel embedding and cross entropy. *)

PerPartition(d) == Vocab \div World(d)
VocabStart(d) == Rank(d) * PerPartition(d)

Owns(d, id) == id >= VocabStart(d) /\ id < VocabStart(d) + PerPartition(d)

\* clamp_(0, per_partition - 1), as an index.
LocalIndex(d, id) ==
    LET i == id - VocabStart(d)
    IN  1 + (IF i < 0 THEN 0 ELSE IF i > PerPartition(d) - 1 THEN PerPartition(d) - 1 ELSE i)

LookupRow(d, id) ==
    IF World(d) = 1 THEN weight[d]["wte"][id + 1]
    ELSE IF Owns(d, id) THEN weight[d]["wte"][LocalIndex(d, id)] ELSE Zeros(Embd)
Lookup(d) == [n \in DOMAIN IdsOf(d) |-> LookupRow(d, IdsOf(d)[n])]
LookupGrad(d, g) ==
    [i \in 1 .. PerPartition(d) |-> [j \in 1 .. Embd |->
        Total([n \in DOMAIN g |->
            IF Owns(d, IdsOf(d)[n]) /\ LocalIndex(d, IdsOf(d)[n]) = i THEN g[n][j] ELSE 0])]]

RowMax(row) == CHOOSE v \in Range(row) : \A u \in Range(row) : u <= v

\* Mutant: each rank subtracts its own maximum.
MaxOverShard(logits, d, n) == RowMax(logits[d][n])

\* The maximum over the shard, then over the group.
MaxOverGroup(logits, d, n) ==
    RowMax([t \in 0 .. World(d) - 1 |-> RowMax(logits[TpPeer(d, t)][n])])

ExpLogits(logits, d) ==
    [n \in DOMAIN logits[d] |-> [j \in DOMAIN logits[d][n] |->
        Exp(logits[d][n][j] - MaxOverGroup(logits, d, n))]]

SumExp(logits, d, n) ==
    Total([t \in 0 .. World(d) - 1 |-> Total(ExpLogits(logits, TpPeer(d, t))[n])])

\* The target's own logit, from the rank that owns it.
Predicted(logits, d, n) ==
    LET id == TargetsOf(d)[n]
        Mine(e) == IF Owns(e, id)
                   THEN logits[e][n][LocalIndex(e, id)] - MaxOverGroup(logits, e, n)
                   ELSE 0
    IN  SumFunction([t \in 0 .. World(d) - 1 |-> Mine(TpPeer(d, t))])

\* exp(-loss) for every token.
TokenLoss(logits, d) ==
    [n \in DOMAIN logits[d] |-> Over(Exp(Predicted(logits, d, n)), SumExp(logits, d, n))]

Softmax(logits, d) ==
    [n \in DOMAIN logits[d] |-> [j \in DOMAIN logits[d][n] |->
        Over(ExpLogits(logits, d)[n][j], SumExp(logits, d, n))]]

\* softmax - onehot, times the gradient of the mean over the tokens.
LossGrad(d, softmax) ==
    LET rows == Len(softmax)
        OneHot(n, j) == IF Owns(d, TargetsOf(d)[n]) /\ j = LocalIndex(d, TargetsOf(d)[n])
                        THEN 1 ELSE 0
    IN  [n \in 1 .. rows |-> [j \in DOMAIN softmax[n] |->
            Over(softmax[n][j] - OneHot(n, j) + P, rows)]]

-----------------------------------------------------------------------------
(* Attention: one head sees its own q, k and v of earlier positions. *)

\* The qkv features are laid out [head, (q, k, v), head_dim].
QkvIndex(heads, h, which, e) == ((h - 1) * 3 + which) * HeadDim + e

HeadsOf(x) == Width(x) \div (3 * HeadDim)
Seen(x, n) == {m \in 1 .. n : SameSeq(n, m)}
Part(x, n, h, which) == [e \in 1 .. HeadDim |-> x[n][QkvIndex(HeadsOf(x), h, which, e)]]
Dot(u, v) == Total([e \in DOMAIN u |-> u[e] * v[e]])
Score(x, n, m, h) == Dot(Part(x, n, h, 0), Part(x, m, h, 1))

HeadOf(i) == ((i - 1) \div HeadDim) + 1
InHead(i) == ((i - 1) % HeadDim) + 1

Attend(x) ==
    [n \in DOMAIN x |-> [i \in 1 .. HeadsOf(x) * HeadDim |->
        Total([m \in Seen(x, n) |->
            Score(x, n, m, HeadOf(i)) * Part(x, m, HeadOf(i), 2)[InHead(i)]])]]

AttendGrad(x, g) ==
    LET heads == HeadsOf(x)
        Out(n, h) == [e \in 1 .. HeadDim |-> g[n][(h - 1) * HeadDim + e]]
        Weighted(n, m, h) == Dot(Out(n, h), Part(x, m, h, 2))
        Later(m) == {n \in DOMAIN x : m \in Seen(x, n)}
        PartGrad(n, h, which, e) ==
            IF which = 0 THEN Total([m \in Seen(x, n) |-> Weighted(n, m, h) * Part(x, m, h, 1)[e]])
            ELSE IF which = 1
            THEN Total([m \in Later(n) |-> Weighted(m, n, h) * Part(x, m, h, 0)[e]])
            ELSE Total([m \in Later(n) |-> Score(x, m, n, h) * Out(m, h)[e]])
        Place(i) == CHOOSE c \in (1 .. heads) \X (0 .. 2) \X (1 .. HeadDim) :
                        QkvIndex(heads, c[1], c[2], c[3]) = i
    IN  [n \in DOMAIN x |-> [i \in 1 .. Width(x) |->
            PartGrad(n, Place(i)[1], Place(i)[2], Place(i)[3])]]

-----------------------------------------------------------------------------
(* One operator forward, and backward. *)

Current == Tape[at]

\* comm.all_reduce over the tensor group.
AllReduce(vs, d) == IF World(d) > 1 THEN SumOver(OfGroup(vs, d)) ELSE vs[d]
GatherLastDim(vs, d) == IF World(d) = 1 THEN vs[d] ELSE Concat(OfGroup(vs, d), World(d))
SplitLastDim(v, d) == Columns(v, World(d), Rank(d))

ForwardOf(d) ==
    LET x == value[d]
        w == weight[d]
        kind == Current.kind
    IN  CASE kind = "lookup" -> Lookup(d)
          [] kind = "position" ->
                [n \in DOMAIN x |-> [i \in DOMAIN x[n] |-> (x[n][i] + w["wpe"][PosOf(n)][i]) % P]]
          [] kind \in {"fork", "copy"} -> x
          [] kind = "join" -> Plus(skip[d], x)
          [] kind = "norm" ->
                [n \in DOMAIN x |-> [i \in DOMAIN x[n] |-> (x[n][i] * w[Current.name][i][1]) % P]]
          [] kind = "linear" ->
                IF Current.bias = "none" THEN Linear(x, w[Current.name])
                ELSE AddBias(Linear(x, w[Current.name]), w[Current.bias])
          [] kind = "bias" -> AddBias(x, w[Current.name])
          [] kind = "attend" -> Attend(x)
          [] kind = "act" -> [n \in DOMAIN x |-> [i \in DOMAIN x[n] |-> (x[n][i] * x[n][i]) % P]]
          [] kind = "reduce" -> AllReduce(value, d)
          [] kind = "gather" -> GatherLastDim(value, d)
          [] kind = "scatter" -> SplitLastDim(x, d)
          [] kind = "loss" -> Softmax(value, d)

\* Mutant: f passes its own partial gradient on.
CopyBackwardLocal(g, d) == g[d]
CopyBackward(g, d) == AllReduce(g, d)

BackwardOf(d) ==
    LET g == value[d]
        x == saved[d][at]
        kind == Current.kind
    IN  CASE kind = "loss" -> LossGrad(d, x)
          [] kind = "copy" -> CopyBackward(value, d)
          [] kind = "gather" -> SplitLastDim(g, d)
          [] kind = "scatter" -> GatherLastDim(value, d)
          [] kind = "linear" -> LinearInputGrad(g, weight[d][Current.name])
          [] kind = "attend" -> AttendGrad(x, g)
          [] kind = "act" -> [n \in DOMAIN g |-> [i \in DOMAIN g[n] |-> (2 * x[n][i] * g[n][i]) % P]]
          [] kind = "norm" ->
                [n \in DOMAIN g |-> [i \in DOMAIN g[n] |->
                    (g[n][i] * weight[d][Current.name][i][1]) % P]]
          [] kind = "fork" -> Plus(skip[d], g)
          [] OTHER -> g

\* What the operator accumulates into the gradients of its parameters.
ParamGrads(d) ==
    LET g == value[d]
        x == saved[d][at]
        kind == Current.kind
    IN  CASE kind = "lookup" -> ("wte" :> LookupGrad(d, g))
          [] kind = "position" ->
                ("wpe" :> [s \in 1 .. SeqLen |-> [i \in 1 .. Embd |->
                    Total([n \in {m \in DOMAIN g : PosOf(m) = s} |-> g[n][i]])]])
          [] kind = "norm" ->
                (Current.name :> [i \in 1 .. Width(g) |->
                    <<Total([n \in DOMAIN g |-> g[n][i] * x[n][i]])>>])
          [] kind = "linear" ->
                (Current.name :> LinearWeightGrad(g, x))
                @@ (IF Current.bias = "none" THEN << >> ELSE (Current.bias :> BiasGrad(g)))
          [] kind = "bias" -> (Current.name :> BiasGrad(g))
          [] OTHER -> << >>

-----------------------------------------------------------------------------
(* Byte accounting: collectives called through minidist/comm.py. *)

Collectives == {"all_reduce", "all_gather"}

\* Bytes that cross the interconnect, in elements.
BusBytes(op, payload, world) ==
    ((IF op = "all_reduce" THEN 2 ELSE 1) * (world - 1) * payload) \div world

\* CommStats.add; a group of one calls nothing.
Add(st, op, payload, world) ==
    IF recording.enabled /\ world > 1
    THEN [st EXCEPT ![op] = [count |-> @.count + 1, payload |-> @.payload + payload,
                             bus |-> @.bus + BusBytes(op, payload, world)]]
    ELSE st

NoStats == [op \in Collectives |-> [count |-> 0, payload |-> 0, bus |-> 0]]

\* The loss calls dist.all_reduce itself and is not counted.
ForwardStats(d) ==
    IF Current.kind = "reduce"
    THEN Add(stats[d], "all_reduce", Numel(value[d]), World(d))
    ELSE IF Current.kind = "gather"
    THEN Add(stats[d], "all_gather", Numel(value[d]) * World(d), World(d))
    ELSE stats[d]
BackwardStats(d) ==
    IF Current.kind = "copy"
    THEN Add(stats[d], "all_reduce", Numel(value[d]), World(d))
    ELSE IF Current.kind = "scatter"
    THEN Add(stats[d], "all_gather", Numel(value[d]) * World(d), World(d))
    ELSE stats[d]

-----------------------------------------------------------------------------
(* The training step. *)

Init ==
    /\ config \in Configs
    /\ batch \in [0 .. config.dp - 1 -> Samples]
    /\ phase = "forward"
    /\ at = 1
    /\ value = [d \in Devices |-> << >>]
    /\ saved = [d \in Devices |-> << >>]
    /\ skip = value
    /\ loss = value
    /\ weight = [d \in Devices |-> [p \in Params |->
                    ShardOfWeight(p, FullWeight[p], World(d), Rank(d))]]
    /\ grad = value
    /\ recording = [enabled |-> FALSE, outer |-> << >>, uses |-> 0, since |-> 0]
    /\ stats = [d \in Devices |-> NoStats]

Forward ==
    /\ phase = "forward"
    /\ value' = [d \in Devices |-> ForwardOf(d)]
    /\ saved' = [d \in Devices |->
                   Append(saved[d], IF Current.kind = "loss" THEN ForwardOf(d) ELSE value[d])]
    /\ skip' = IF Current.kind = "fork" THEN value ELSE skip
    /\ loss' = IF Current.kind = "loss" THEN [d \in Devices |-> TokenLoss(value, d)] ELSE loss
    /\ stats' = [d \in Devices |-> ForwardStats(d)]
    /\ IF at = Len(Tape) THEN phase' = "backward" /\ UNCHANGED at
       ELSE at' = at + 1 /\ UNCHANGED phase
    /\ UNCHANGED <<config, batch, weight, grad, recording>>

Backward ==
    /\ phase = "backward"
    /\ value' = [d \in Devices |-> BackwardOf(d)]
    /\ grad' = [d \in Devices |-> ParamGrads(d) @@ grad[d]]
    /\ skip' = IF Current.kind = "join" THEN value ELSE skip
    /\ stats' = [d \in Devices |-> BackwardStats(d)]
    /\ IF at = 1 THEN phase' = "sync" /\ UNCHANGED at
       ELSE at' = at - 1 /\ UNCHANGED phase
    /\ UNCHANGED <<config, batch, saved, loss, weight, recording>>

\* The data group of a device, and what its members hold.
OfDpGroup(f, d) == [r \in DpRanks |-> f[DpPeer(d, r)]]

NumelOfUnit(u, d) == FoldLeft(LAMBDA n, p : n + Numel(weight[d][p]), 0, u)
Sizes(d) == [p \in Params |-> Numel(weight[d][p])]
BucketsOf(d) == BuildBuckets(ParamOrder, Sizes(d), BucketCap)

\* DDP averages the gradients bucket by bucket, FSDP unit by unit, leaving
\* each rank its shards; a group of one does nothing.
Averaged(d) ==
    IF d = Single \/ (config.wrapper = "ddp" /\ config.dp = 1) THEN grad[d]
    ELSE IF config.wrapper = "ddp"
    THEN ReduceBuckets(BucketsOf(d), OfDpGroup(grad, d))[d[2]]
    ELSE [u \in {BlockUnit, RootUnit} |-> ReduceScatterGrads(u, OfDpGroup(grad, d))[d[2]]]

\* The sync of DDP is counted, one call for each bucket (that of FSDP is not
\* modelled: a bound keeps it out of record_comm).
SyncStats(d) ==
    IF d = Single THEN stats[d]
    ELSE FoldLeft(LAMBDA st, b : Add(st, "all_reduce", NumelOfUnit(b, d), config.dp),
                  stats[d], BucketsOf(d))

AverageGradients ==
    /\ phase = "sync"
    /\ recording.enabled => config.wrapper = "ddp"
    /\ grad' = [d \in Devices |-> Averaged(d)]
    /\ stats' = [d \in Devices |-> SyncStats(d)]
    /\ phase' = "opt"
    /\ UNCHANGED <<config, batch, at, value, saved, skip, loss, weight, recording>>

\* The optimizer's step on a flat shard: gradient descent.
SteppedShard(unit, d) ==
    LET shard == ShardOf(FlatParameter(unit, weight[d], config.dp), config.dp, d[2])
    IN  Flat(Minus(Column(shard), Column(grad[d][unit])))

\* The parameters FSDP gathers for the next forward.
Regathered(unit, d) ==
    Unsharded(unit, [r \in DpRanks |-> SteppedShard(unit, DpPeer(d, r))], weight[d])

OptStep ==
    /\ phase = "opt"
    /\ weight' = [d \in Devices |->
            IF d = Single \/ config.wrapper = "ddp"
            THEN [p \in Params |-> Minus(weight[d][p], grad[d][p])]
            ELSE Regathered(BlockUnit, d) @@ Regathered(RootUnit, d)]
    /\ phase' = "done"
    /\ UNCHANGED <<config, batch, at, value, saved, skip, loss, grad, recording, stats>>

-----------------------------------------------------------------------------
(* record_comm, around whole modules of the model. *)

\* Operators count from the start of the step, backward ones after forward.
Length == Len(Tape)
Now == IF phase = "forward" THEN at
       ELSE IF phase = "backward" THEN 2 * Length + 1 - at ELSE 2 * Length + 1
Passes(t, forward, kinds) ==
    IF forward THEN t \in 1 .. Length /\ Tape[t].kind \in kinds
    ELSE t \in Length + 1 .. 2 * Length /\ Tape[2 * Length + 1 - t].kind \in kinds

\* Between two modules: the model is about to enter, or has left, a block.
Boundary ==
    \/ Now \in {1, 2 * Length + 1}
    \/ Passes(Now, TRUE, {"fork"}) \/ Passes(Now - 1, TRUE, {"join"})
    \/ Passes(Now, FALSE, {"join"}) \/ Passes(Now - 1, FALSE, {"fork"})

EnterRecord ==
    /\ Boundary /\ phase \in {"forward", "backward"}
    /\ recording.uses < config.records
    /\ recording' = [enabled |-> TRUE, outer |-> Append(recording.outer, recording.enabled),
                     uses |-> recording.uses + 1, since |-> Now]
    /\ stats' = [d \in Devices |-> NoStats]
    /\ UNCHANGED <<config, batch, phase, at, value, saved, skip, loss, weight, grad>>

\* Mutant: leaving any block disables the accounting.
RestoredFlag == FALSE

Restored == Last(recording.outer)

ExitRecord ==
    /\ Boundary /\ recording.outer # << >>
    /\ recording' = [recording EXCEPT !.enabled = Restored, !.outer = Front(@)]
    /\ UNCHANGED <<config, batch, phase, at, value, saved, skip, loss, weight, grad, stats>>

Terminating == phase = "done" /\ UNCHANGED vars

Next ==
    \/ Forward \/ Backward \/ AverageGradients \/ OptStep
    \/ EnterRecord \/ ExitRecord
    \/ Terminating

Spec == Init /\ [][Next]_vars

-----------------------------------------------------------------------------
(* Properties *)

Tensor(t) == t = << >> \/ \A n \in DOMAIN t : \A i \in DOMAIN t[n] : t[n][i] \in Num

\* Every variable has its type, and the gradient FSDP leaves is a shard's.
TypeOK ==
    /\ config \in Configs
    /\ batch \in [DpRanks -> Samples]
    /\ phase \in {"forward", "backward", "sync", "opt", "done"}
    /\ at \in 1 .. Length
    /\ \A d \in Devices :
        /\ Tensor(value[d]) /\ Tensor(skip[d])
        /\ \A i \in DOMAIN saved[d] : Tensor(saved[d][i])
        /\ \A n \in DOMAIN loss[d] : loss[d][n] \in Num
        /\ \A p \in Params : Tensor(weight[d][p])
        /\ \A op \in Collectives : \A f \in {"count", "payload", "bus"} : stats[d][op][f] \in Nat
    /\ recording.enabled \in BOOLEAN
    /\ recording.outer \in Seq(BOOLEAN)
    /\ phase \in {"opt", "done"} /\ config.wrapper = "fsdp" =>
        \A d \in MeshDevices : \A u \in {BlockUnit, RootUnit} :
            Len(grad[d][u]) = ShardNumel(NumelOfUnit(u, d), config.dp)
    /\ recording.uses \in 0 .. config.records

\* The rows of one data-parallel rank among those of the whole batch.
RowsOfReplica(rows, r) == SubSeq(rows, r * SeqLen + 1, (r + 1) * SeqLen)

\* Between modules every device holds the activations the single device has
\* for its sequence, and in backward their gradient: each partial sum has
\* been added up exactly once, in either direction.  (The mean over the batch
\* of one rank weighs a token dp times as much as that over the whole batch.)
ActivationsAgree ==
    Boundary /\ Now > 1 /\ phase \in {"forward", "backward"} =>
        \A d \in MeshDevices :
            value[d] = IF phase = "forward" THEN RowsOfReplica(value[Single], d[2])
                       ELSE Times(RowsOfReplica(value[Single], d[2]), config.dp)

\* The loss of every token is the cross entropy of the unsharded logits,
\* -log of exp(z_target) over the sum of all exp(z), on every rank of the
\* tensor group, whichever rank owns the target.
LossIsCrossEntropy ==
    phase = "backward" /\ at = Length =>
        LET z == Linear(saved[Single][Length - 1], weight[Single]["head"])
            Reference(n) ==
                Over(Exp(z[n][TargetsOf(Single)[n] + 1]),
                     Total([j \in 1 .. Vocab |-> Exp(z[n][j])]))
        IN  \A d \in MeshDevices :
                loss[d] = RowsOfReplica([n \in DOMAIN z |-> Reference(n)], d[2])

\* After the optimizer's step every device holds its slice of the weights the
\* single device has after a step on the whole batch, for any mesh, with DDP
\* or FSDP: gradients of sharded weights are slices, those of replicated ones
\* the same on all ranks, and the average over the data group, through
\* buckets or padded flat shards, loses and mixes up nothing.
TrainedAsOneDevice ==
    phase = "done" =>
        \A d \in MeshDevices : \A p \in Params :
            weight[d][p] = ShardOfWeight(p, weight[Single][p], World(d), Rank(d))

\* A collective of a whole module: the embedding and a block leaving forward,
\* the head and a block leaving backward.
OneCall(t) ==
    \/ Passes(t, TRUE, {"lookup", "join"})
    \/ Passes(t, FALSE, {"fork"})
    \/ t > Length /\ Tape[2 * Length + 1 - t].name = "ln_f"

\* A parallel region costs exactly one all-reduce each way
\* (tensor_parallel.py:23,34), of its activation, and DDP one of every
\* gradient; inside record_comm, nested or not, the counters hold those since
\* it was last entered and nothing else.
OneAllReduceEachWay ==
    recording.outer # << >> /\ Boundary =>
        \A d \in MeshDevices :
            LET calls == IF config.tp = 1 THEN 0
                         ELSE Cardinality({t \in recording.since .. Now - 1 : OneCall(t)})
                synced == phase \in {"opt", "done"} /\ config.dp > 1
                seen == stats[d]["all_reduce"]
            IN  /\ seen.count = calls + (IF synced THEN Len(BucketsOf(d)) ELSE 0)
                /\ seen.payload = calls * SeqLen * Embd
                     + (IF synced THEN NumelOfUnit(ParamOrder, d) ELSE 0)
=============================================================================
