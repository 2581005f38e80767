-------------------------------- MODULE Fsdp --------------------------------
(***************************************************************************)
(* minidist/fsdp.py: parameters, gradients and optimizer state sharded     *)
(* over the data-parallel group.                                           *)
(*                                                                         *)
(* The model is cut into units: blocks, run one after the other, and a     *)
(* root unit around them that owns the remaining parameters.  A unit's     *)
(* parameters are views into a buffer that is gathered before the unit     *)
(* runs and freed afterwards, by hooks on the forward and backward pass    *)
(* and on each parameter's gradient.                                       *)
(*                                                                         *)
(* What the caller does is a plan, the same on every rank; in each of its  *)
(* steps the rank goes through the hooks of the modules, the parameters or *)
(* the units in turn.  A gathered buffer is known by the optimizer updates *)
(* its shards had had, a gradient by how often it contains each backward   *)
(* pass.                                                                   *)
(***************************************************************************)
EXTENDS Integers, Sequences, FiniteSets

CONSTANTS
    Ranks,      \* the ranks of process_group
    NumBlocks,  \* how many modules of the unit_types there are
    Order,      \* the unit of each parameter, in the order backward reaches them
    MaxSteps,   \* bound: length of the plans explored
    Plans       \* the plans explored

BackwardKinds == {"backward", "no_sync"}
StepKinds == {"forward", "eval", "backward", "no_sync", "finish", "opt", "summon"}
Steps == 1 .. MaxSteps

\* After k steps of a plan a forward awaits its backward.
Open(p, k) ==
    \E j \in 1 .. k : p[j] = "forward" /\ \A i \in j + 1 .. k : p[i] \notin BackwardKinds

\* Each forward has its backward before the next forward, evaluation or
\* optimizer step, and each backward its forward.
Alternates(p) ==
    \A k \in DOMAIN p :
        /\ p[k] \in {"forward", "eval", "opt"} => ~Open(p, k - 1)
        /\ p[k] \in BackwardKinds => Open(p, k - 1)

\* What was accumulated under no_sync is reduced before the optimizer step.
FlushedBeforeStep(p) ==
    \A j, k \in DOMAIN p :
        j < k /\ p[j] = "no_sync" /\ p[k] = "opt" =>
            \E i \in j + 1 .. k - 1 : p[i] \in {"backward", "finish"}

Params == DOMAIN Order
Blocks == 1 .. NumBlocks
Root == NumBlocks + 1
Units == {u \in 1 .. Root : \E i \in Params : Order[i] = u}
ParamsOf(u) == {i \in Params : Order[i] = u}
NumParams(u) == Cardinality(ParamsOf(u))

ASSUME RanksAssumption == IsFiniteSet(Ranks) /\ Ranks # {}

\* Backward reaches the blocks in reverse; _build_units makes no empty unit.
ASSUME UnitsAssumption ==
    /\ NumBlocks \in Nat
    /\ Order \in Seq(1 .. Root) /\ Order # << >>
    /\ Blocks \subseteq Units
    /\ \A i, j \in Params : i < j /\ Order[j] \in Blocks => Order[j] <= Order[i]

ASSUME PlansAssumption ==
    /\ MaxSteps \in Nat
    /\ \A p \in Plans : p \in Seq(StepKinds) /\ Len(p) <= MaxSteps

VARIABLES
    plan,           \* what the caller does
    reshardBlocks,  \* reshard_after_forward
    reshardRoot,    \* reshard_root_after_forward
    step,           \* how many steps of the plan the rank has begun
    at,             \* where it is in the step under way: what comes next,
                    \* and for which module, parameter or unit
    restore,        \* summon_full_params: the units not was_unsharded
    full,           \* the updates seen by the shards in _full; {} if freed
    pending,        \* _grads_pending
    grad,           \* p.grad: how often it contains each own backward pass
    shardGrad,      \* flat_shard.grad, by parameter: each rank's passes
    version         \* optimizer updates of the rank's flat_shards

config == <<plan, reshardBlocks, reshardRoot>>
vars == <<config, step, at, restore, full, pending, grad, shardGrad, version>>

Return == <<"idle", 0>>

NoGrad == [k \in Steps |-> 0]
NoShardGrad == [s \in Ranks |-> NoGrad]

Init ==
    /\ plan \in Plans
    /\ reshardBlocks \in BOOLEAN
    /\ reshardRoot \in BOOLEAN
    /\ step = [r \in Ranks |-> 0]
    /\ at = [r \in Ranks |-> Return]
    /\ restore = [r \in Ranks |-> {}]
    /\ full = [r \in Ranks |-> [u \in Units |-> {}]]
    /\ pending = [r \in Ranks |-> [u \in Units |-> 0]]
    /\ grad = [r \in Ranks |-> [i \in Params |-> NoGrad]]
    /\ shardGrad = [r \in Ranks |-> [i \in Params |-> NoShardGrad]]
    /\ version = [r \in Ranks |-> 0]

-----------------------------------------------------------------------------
(* The hooks a pass goes through. *)

ReshardsAfterForward(u) == IF u = Root THEN reshardRoot ELSE reshardBlocks

Unsharded(r, u) == full[r][u] # {}

\* The last of _units.
LastUnit == IF Root \in Units THEN Root ELSE NumBlocks

\* The next module of a forward call: the root's hooks and computations
\* enclose the blocks', as modules 0 and Root.
Module(n) ==
    IF n < Root THEN <<"gather", n>> ELSE IF Root \in Units THEN <<"use", Root>> ELSE Return

FirstModule == IF Root \in Units THEN Module(0) ELSE Module(1)

\* Mutant: without gradients the reshard flag still decides.
FreedAfterForwardByFlag(u, graded) == ReshardsAfterForward(u)

\* Mutant: blocks stay gathered.
FreedAfterForwardRootOnly(u, graded) == u = Root

\* The condition of the post-forward hook.
FreedAfterForward(u, graded) == ReshardsAfterForward(u) \/ ~graded

ReachedFirst(i) == Order[i] \in Blocks /\ \A j \in ParamsOf(Order[i]) : i <= j

\* The next parameter of a backward call.  The engine accumulates a unit's
\* gradients before it goes on to the previous block.  The pre-backward hook
\* exists only on units that reshard after forward; the root's is first.
Reached(i) ==
    IF i > Len(Order) THEN Return
    ELSE IF ReachedFirst(i) /\ ReshardsAfterForward(Order[i]) THEN <<"gather", i>>
    ELSE <<"grad", i>>

FirstReached == IF Root \in Units /\ reshardRoot THEN <<"gather", 0>> ELSE Reached(1)

\* The next unit of a loop over all units.
EachUnit(op, u) == IF u <= LastUnit THEN <<op, u>> ELSE Return

-----------------------------------------------------------------------------
(* The caller. *)

Idle(r) == at[r] = Return
NextIs(r, kind) == Idle(r) /\ step[r] < Len(plan) /\ plan[step[r] + 1] = kind

Begin(r, kind, first) ==
    /\ NextIs(r, kind)
    /\ step' = [step EXCEPT ![r] = @ + 1]
    /\ at' = [at EXCEPT ![r] = first]
    /\ UNCHANGED <<config, full, pending, grad, shardGrad, version>>

Forward(r) == Begin(r, "forward", FirstModule) /\ UNCHANGED restore
Evaluate(r) == Begin(r, "eval", FirstModule) /\ UNCHANGED restore

Backward(r) ==
    (\E kind \in BackwardKinds : Begin(r, kind, FirstReached)) /\ UNCHANGED restore

\* With one rank it returns at once.
FinishGradientSync(r) ==
    /\ Begin(r, "finish", IF Cardinality(Ranks) = 1 THEN Return ELSE EachUnit("flush", 1))
    /\ UNCHANGED restore

\* Mutant: every unit is resharded when the block ends.
RestoredAll(r) == Units

\* The units to reshard when the block ends.
Restored(r) == {u \in Units : ~Unsharded(r, u)}

\* With a body that reads all parameters.
SummonFullParams(r) ==
    /\ Begin(r, "summon", EachUnit("gather", 1))
    /\ restore' = [restore EXCEPT ![r] = Restored(r)]

\* optimizer.step() on the shards, and zero_grad().
OptStep(r) ==
    /\ NextIs(r, "opt")
    /\ step' = [step EXCEPT ![r] = @ + 1]
    /\ version' = [version EXCEPT ![r] = @ + 1]
    /\ shardGrad' = [shardGrad EXCEPT ![r] = [i \in Params |-> NoShardGrad]]
    /\ UNCHANGED <<config, at, restore, full, pending, grad>>

-----------------------------------------------------------------------------
(* The hooks. *)

Kind(r) == plan[step[r]]
At(r, op) == at[r][1] = op
Pos(r) == at[r][2]

\* The unit the rank is at: that of a module, of a parameter, or itself.
UnitAt(r) ==
    IF Pos(r) = 0 THEN Root ELSE IF Kind(r) \in BackwardKinds THEN Order[Pos(r)] ELSE Pos(r)

Continue(r, next) == at' = [at EXCEPT ![r] = next]

AfterGather(r) ==
    IF Kind(r) = "summon" THEN IF Pos(r) < LastUnit THEN <<"gather", Pos(r) + 1>> ELSE <<"use", 1>>
    ELSE IF Kind(r) \in BackwardKinds THEN IF Pos(r) = 0 THEN Reached(1) ELSE <<"grad", Pos(r)>>
    ELSE <<"arm", Pos(r)>>

\* unshard() of a unit that is unsharded.
SkipGather(r) ==
    /\ At(r, "gather")
    /\ Unsharded(r, UnitAt(r))
    /\ Continue(r, AfterGather(r))
    /\ UNCHANGED <<config, step, restore, full, pending, grad, shardGrad, version>>

\* unshard() otherwise: the all-gather returns on all ranks once all call it.
AllGather(u) ==
    /\ \A r \in Ranks : At(r, "gather") /\ UnitAt(r) = u /\ ~Unsharded(r, u)
    /\ full' = [r \in Ranks |-> [full[r] EXCEPT ![u] = {version[s] : s \in Ranks}]]
    /\ at' = [r \in Ranks |-> AfterGather(r)]
    /\ UNCHANGED <<config, step, restore, pending, grad, shardGrad, version>>

\* Mutant: the count is one short.
ArmedShort(u) == NumParams(u) - 1

\* arm_gradient_reduction
Armed(u) == NumParams(u)

\* The pre-forward hook arms the unit if gradients are enabled.
Arm(r) ==
    /\ At(r, "arm")
    /\ pending' = IF Kind(r) = "forward"
                  THEN [pending EXCEPT ![r][UnitAt(r)] = Armed(UnitAt(r))] ELSE pending
    /\ Continue(r, <<"use", Pos(r)>>)
    /\ UNCHANGED <<config, step, restore, full, grad, shardGrad, version>>

\* The unit's parameters are read: by its module, or by the body of
\* summon_full_params.
Use(r) ==
    /\ At(r, "use")
    /\ Continue(r, IF Kind(r) = "summon"
                   THEN IF Pos(r) < LastUnit THEN <<"use", Pos(r) + 1>> ELSE <<"restore", 1>>
                   ELSE IF Pos(r) = 0 THEN Module(1) ELSE <<"post", Pos(r)>>)
    /\ UNCHANGED <<config, step, restore, full, pending, grad, shardGrad, version>>

\* reshard(), under a condition.
Reshard(r, u, condition) ==
    full' = IF condition THEN [full EXCEPT ![r][u] = {}] ELSE full

\* The post-forward hook.
PostForward(r) ==
    /\ At(r, "post")
    /\ Reshard(r, UnitAt(r), FreedAfterForward(UnitAt(r), Kind(r) = "forward"))
    /\ Continue(r, IF Pos(r) = Root THEN Return ELSE Module(Pos(r) + 1))
    /\ UNCHANGED <<config, step, restore, pending, grad, shardGrad, version>>

\* The engine computes a gradient, accumulates it and calls the hook,
\* on_param_grad_ready, which goes on once the unit's last gradient is there.
GradReady(r) ==
    LET i == Pos(r)
        u == UnitAt(r)
    IN  /\ At(r, "grad")
        /\ grad' = [grad EXCEPT ![r][i][step[r]] = @ + 1]
        /\ pending' = [pending EXCEPT ![r][u] = @ - 1]
        /\ Continue(r, IF pending[r][u] - 1 > 0 THEN Reached(i + 1)
                       ELSE IF Kind(r) = "backward" THEN <<"reduce", i>> ELSE <<"free", i>>)
        /\ UNCHANGED <<config, step, restore, full, shardGrad, version>>

\* One turn of the loop of finish_gradient_sync.
Flush(r) ==
    /\ At(r, "flush")
    /\ Continue(r, IF \A i \in ParamsOf(Pos(r)) : grad[r][i] = NoGrad
                   THEN EachUnit("flush", Pos(r) + 1) ELSE <<"reduce", Pos(r)>>)
    /\ UNCHANGED <<config, step, restore, full, pending, grad, shardGrad, version>>

\* Mutant: a unit kept after forward is kept after backward.
FreedAfterReduceByFlag(r, u) == ReshardsAfterForward(u)

\* on_param_grad_ready always reshards, the flush under the flag.
FreedAfterReduce(r, u) == Kind(r) \in BackwardKinds \/ ReshardsAfterForward(u)

FreeReduced(r) ==
    /\ At(r, "free")
    /\ Reshard(r, UnitAt(r), FreedAfterReduce(r, UnitAt(r)))
    /\ Continue(r, IF Kind(r) \in BackwardKinds THEN Reached(Pos(r) + 1)
                   ELSE EachUnit("flush", Pos(r) + 1))
    /\ UNCHANGED <<config, step, restore, pending, grad, shardGrad, version>>

\* The end of summon_full_params, for one unit.
Restore(r) ==
    /\ At(r, "restore")
    /\ Reshard(r, Pos(r), Pos(r) \in restore[r])
    /\ Continue(r, EachUnit("restore", Pos(r) + 1))
    /\ UNCHANGED <<config, step, restore, pending, grad, shardGrad, version>>

\* Mutant: the full gradients stay.
LeftKept(r, u) == grad[r]

\* p.grad = None for the parameters of the unit.
Left(r, u) == [i \in Params |-> IF Order[i] = u THEN NoGrad ELSE grad[r][i]]

\* flat_shard.grad.add_(out)
Added(r, u) ==
    [i \in Params |->
        IF Order[i] = u
        THEN [s \in Ranks |-> [k \in Steps |-> shardGrad[r][i][s][k] + grad[s][i][k]]]
        ELSE shardGrad[r][i]]

\* reduce_scatter_grads: averages over the ranks, once all have called it.
ReduceScatter(u) ==
    /\ \A r \in Ranks : At(r, "reduce") /\ UnitAt(r) = u
    /\ shardGrad' = [r \in Ranks |-> Added(r, u)]
    /\ grad' = [r \in Ranks |-> Left(r, u)]
    /\ at' = [r \in Ranks |-> <<"free", Pos(r)>>]
    /\ UNCHANGED <<config, step, restore, full, pending, version>>

RankStep(r) ==
    \/ Forward(r) \/ Evaluate(r) \/ Backward(r)
    \/ FinishGradientSync(r) \/ SummonFullParams(r) \/ OptStep(r)
    \/ SkipGather(r) \/ Arm(r) \/ Use(r) \/ PostForward(r)
    \/ GradReady(r) \/ Flush(r) \/ FreeReduced(r) \/ Restore(r)

Terminating == (\A r \in Ranks : Idle(r) /\ step[r] = Len(plan)) /\ UNCHANGED vars

Next ==
    \/ \E r \in Ranks : RankStep(r)
    \/ \E u \in Units : AllGather(u) \/ ReduceScatter(u)
    \/ Terminating

Spec == Init /\ [][Next]_vars

-----------------------------------------------------------------------------
(* Properties *)

Hooks == {"idle", "gather", "arm", "use", "post", "grad", "reduce", "free", "flush", "restore"}

\* Every variable has its type; a unit awaits no more gradients than it has
\* parameters, and no fewer than none.
TypeOK ==
    /\ plan \in Plans /\ reshardBlocks \in BOOLEAN /\ reshardRoot \in BOOLEAN
    /\ step \in [Ranks -> 0 .. MaxSteps]
    /\ at \in [Ranks -> Hooks \X Nat]
    /\ restore \in [Ranks -> SUBSET Units]
    /\ full \in [Ranks -> [Units -> SUBSET Nat]]
    /\ pending \in [Ranks -> [Units -> Nat]]
    /\ \A r \in Ranks : \A u \in Units : pending[r][u] <= NumParams(u)
    /\ grad \in [Ranks -> [Params -> [Steps -> Nat]]]
    /\ shardGrad \in [Ranks -> [Params -> [Ranks -> [Steps -> Nat]]]]
    /\ version \in [Ranks -> Nat]

\* Whenever a module's forward reads its parameters, or its backward does to
\* compute a gradient, they are gathered, and are those of the last optimizer
\* update on every rank: neither freed by a hook of another pass, nor kept
\* from before an update, nor gathered while the ranks were at different ones.
ParamsFresh ==
    \A r \in Ranks : At(r, "use") \/ At(r, "grad") => full[r][UnitAt(r)] = {version[r]}

\* The backward passes since the last optimizer step, at the end of step k.
Window(k) == {j \in 1 .. k : plan[j] \in BackwardKinds /\ \A i \in j .. k : plan[i] # "opt"}

\* After a synchronising backward or finish_gradient_sync every rank's shard
\* holds the mean over all ranks of all backward passes since the last
\* optimizer step, each counted once, and no full gradient is left: for any
\* mixture of accumulation under no_sync, synchronised passes and flushes.
ShardGradIsMean ==
    \A r \in Ranks :
        Idle(r) /\ step[r] > 0 /\ plan[step[r]] \in {"backward", "finish"} =>
            \A i \in Params :
                /\ grad[r][i] = NoGrad
                /\ shardGrad[r][i] = [s \in Ranks |-> [k \in Steps |->
                        IF k \in Window(step[r]) THEN 1 ELSE 0]]

\* Between steps, with no forward awaiting its backward, every gathered
\* buffer is freed (test_fsdp_frees_gathered_parameters), also after
\* evaluation and summon_full_params, whatever the reshard flags.
FreedBetweenPasses ==
    \A r \in Ranks :
        Idle(r) /\ ~Open(plan, step[r]) => \A u \in Units : ~Unsharded(r, u)

\* The peak of the module docstring (fsdp.py:17-20): with
\* reshard_after_forward no two blocks are gathered at once in training.
OneBlockGathered ==
    \A r \in Ranks :
        reshardBlocks /\ step[r] > 0 /\ plan[step[r]] # "summon" =>
            \A b, c \in Blocks : Unsharded(r, b) /\ Unsharded(r, c) => b = c
=============================================================================
