------------------------------ MODULE TrainStep ------------------------------
(***************************************************************************)
(* examples/train_gpt.py over a whole mesh: what each rank calls on its    *)
(* tensor, data and pipeline groups and on the world, from the creation of *)
(* the groups through a number of training steps.                          *)
(*                                                                         *)
(* Every component waits on its own group only; a rank is a member of four *)
(* groups, and a wait in one may keep it from a call another group waits   *)
(* for.  A collective is matched by call order within its group, and       *)
(* returns at a member once all have called it, a broadcast possibly as    *)
(* soon as its source has; a message is received in order.  What the calls *)
(* move is not kept: Ddp, Fsdp, Pipeline and GradScaler say that.          *)
(***************************************************************************)
EXTENDS Mesh, Partition, FiniteSets

CONSTANTS
    World,      \* the world size
    Shapes,     \* the shapes of the mesh explored
    NLayer,     \* --layers
    M,          \* --microbatches
    Parts,      \* DDP buckets, or FSDP units, of a rank's model
    NumSteps    \* bound: training steps

ASSUME TrainStepAssumption ==
    /\ World \in Nat \ {0, 1} /\ {NLayer, M, Parts, NumSteps} \subseteq Nat \ {0}
    /\ Parts <= Len(PipelineLayers(NLayer))
    /\ \A m \in Shapes :
          IsShape(m) /\ WorldSize(m) = World /\ m.pp <= Len(PipelineLayers(NLayer))

Ranks == 0 .. World - 1
Kinds == {"tp", "dp", "pp", "world"}

VARIABLES
    config,     \* the mesh and the arguments of the program
    group,      \* the groups each rank keeps, by kind
    step,       \* the training step the rank is in, 0 during construction,
                \* NumSteps + 1 in shutdown_distributed
    todo,       \* the operations left in it
    called,     \* the collectives the rank has called, by kind of group
    waited,     \* how many of them it has waited for
    link        \* messages between pipeline stages, not yet received

vars == <<config, group, step, todo, called, waited, link>>

\* --strategy, whether DDP overlaps (no --no-overlap), --schedule, and whether
\* --precision needs loss scaling.  With one replica, or strategy "none", the
\* model is not wrapped; a pipeline leaves DDP nothing to overlap, and only a
\* pipeline has a schedule.
Configs ==
    {c \in [shape : Shapes, strategy : {"none", "ddp", "fsdp"}, overlap : BOOLEAN,
            sched : {"gpipe", "1f1b"}, scaled : BOOLEAN] :
        /\ c.shape.dp = 1 => c.strategy = "none"
        /\ c.overlap => c.strategy = "ddp" /\ c.shape.pp = 1
        /\ c.shape.pp = 1 => c.sched = "1f1b"}

Members(r, kind) == Range(group[r][kind])

Prev(m, r) == PrevStageRank(m, r, GroupOf(m, r, "pp"))
Succ(m, r) == NextStageRank(m, r, GroupOf(m, r, "pp"))

-----------------------------------------------------------------------------
(* The operations of a rank under a configuration. *)

Call(kind, name) == [op |-> "call", kind |-> kind, name |-> name]
Wait(kind) == [op |-> "wait", kind |-> kind]
Send(to) == [op |-> "send", peer |-> to]
Recv(from) == [op |-> "recv", peer |-> from]
Drain == [op |-> "drain"]

\* Collectives on a group of one rank are not called.
Size(c, kind) == IF kind = "world" THEN World ELSE c.shape[kind]

OnGroup(c, kind, ops) == IF Size(c, kind) > 1 THEN ops ELSE << >>

\* A blocking collective.
Blocking(c, kind, name) == OnGroup(c, kind, <<Call(kind, name), Wait(kind)>>)

\* FSDP gathers the parameters of a pass.
Gather(c, pass) == IF c.strategy = "fsdp" THEN Blocking(c, "dp", <<pass, << >>>>) ELSE << >>

\* The max, sum and target all-reduces of the vocabulary-parallel loss.
Loss(c) == Blocking(c, "tp", <<"max", << >>>>) \o Blocking(c, "tp", <<"sum", << >>>>)
        \o Blocking(c, "tp", <<"predicted", << >>>>)

\* The modules of the stage of a rank; one stage holds them all.
Model(c, r) == partition_layers(PipelineLayers(NLayer), c.shape.pp, CoordOf(c.shape, r).pp)

\* The tensor-parallel layers of a module all-reduce in g on the way
\* forward, in f on the way back; attention and MLP of a block have one each.
Reduces == [embedding |-> 1, block |-> 2, head |-> 0]
Copies == [embedding |-> 0, block |-> 2, head |-> 1]

\* FlattenSeq, which asks for each piece several times.
InTurn(n, f) ==
    LET first[k \in 0 .. n] == IF k = 0 THEN << >> ELSE first[k - 1] \o f[k]
    IN  first[n]

TpCalls(c, n, name) == InTurn(n, [i \in 1 .. n |-> Blocking(c, "tp", <<name, << >>>>)])

ForwardOps(c, r) ==
    LET model == Model(c, r)
    IN  Gather(c, "forward")
        \o InTurn(Len(model), [k \in DOMAIN model |-> TpCalls(c, Reduces[model[k]], "reduce")])
        \o (IF IsLastStage(c.shape, r) THEN Loss(c) ELSE << >>)

\* A gradient hook launches a bucket of an overlapping DDP, and blocks in the
\* reduce-scatter of an FSDP unit.
Launch(c, b) == OnGroup(c, "dp", <<Call("dp", <<"bucket", <<b>>>>)>>)
Scatter(c, b) == Blocking(c, "dp", <<"scatter", <<b>>>>)

Hook(c, b) == IF c.strategy = "fsdp" THEN Scatter(c, b)
              ELSE IF c.overlap THEN Launch(c, b) ELSE << >>

\* Backward reaches the modules in reverse; the hooks of the last part fire
\* with the last module, if they are to synchronise.
BackwardOps(c, r, synchronises) ==
    LET model == Model(c, r)
        Hooks(left) == IF synchronises /\ left < Parts THEN Hook(c, Parts - left) ELSE << >>
    IN  Gather(c, "backward")
        \o InTurn(Len(model), [k \in DOMAIN model |->
                TpCalls(c, Copies[model[Len(model) + 1 - k]], "copy") \o Hooks(Len(model) - k)])

ForwardOne(c, r) ==
    (IF IsFirstStage(c.shape, r) THEN << >> ELSE <<Recv(Prev(c.shape, r))>>)
    \o ForwardOps(c, r)
    \o (IF IsLastStage(c.shape, r) THEN << >> ELSE <<Send(Succ(c.shape, r))>>)

BackwardOne(c, r) ==
    (IF IsLastStage(c.shape, r) THEN << >> ELSE <<Recv(Succ(c.shape, r))>>)
    \o BackwardOps(c, r, FALSE)
    \o (IF IsFirstStage(c.shape, r) THEN << >> ELSE <<Send(Prev(c.shape, r))>>)

\* The schedule: w forwards, forwards and backwards in turn, backwards.
Warmup(c, r) ==
    LET w == c.shape.pp - 1 - CoordOf(c.shape, r).pp
    IN  IF c.sched = "1f1b" /\ w < M THEN w ELSE M

IsForward(c, r, k) ==
    k <= Warmup(c, r) \/ (k < 2 * M - Warmup(c, r) /\ (k - Warmup(c, r)) % 2 = 1)

ScheduleStep(c, r) ==
    LET forward == ForwardOne(c, r)
        backward == BackwardOne(c, r)
    IN  InTurn(2 * M, [k \in 1 .. 2 * M |-> IF IsForward(c, r, k) THEN forward ELSE backward])
        \o <<Drain>>

\* finish_gradient_sync, one collective per bucket or unit: DDP launches what
\* no hook has, then waits; FSDP's reduce-scatters block.  A model that is not
\* wrapped has neither.
Scatters(c) == InTurn(Parts, [b \in 1 .. Parts |-> Scatter(c, b)])

Launches(c) == OnGroup(c, "dp", [b \in 1 .. Parts |-> Call("dp", <<"bucket", <<b>>>>)])
Waits(c) == OnGroup(c, "dp", [b \in 1 .. Parts |-> Wait("dp")])

Flush(c) == (IF c.overlap THEN << >> ELSE Launches(c)) \o Waits(c)

GradientSync(c) ==
    IF c.strategy = "fsdp" THEN Scatters(c) ELSE IF c.strategy = "ddp" THEN Flush(c) ELSE << >>

\* Without a pipeline: a backward that synchronises, and DDP's callback.
PlainStep(c, r) ==
    ForwardOps(c, r) \o BackwardOps(c, r, TRUE)
    \o (IF c.strategy = "ddp" THEN Flush(c) ELSE << >>)

\* _broadcast_loss
BroadcastLoss(c, r) == Blocking(c, "pp", <<"loss", << >>>>)

\* scaler.step: the all-reduce of the overflow flag.
ScalerStep(c) == IF c.scaled THEN Blocking(c, "world", <<"found_inf", << >>>>) ELSE << >>

StepOps(c, r) ==
    (IF c.shape.pp > 1 THEN ScheduleStep(c, r) \o GradientSync(c) \o BroadcastLoss(c, r)
     ELSE PlainStep(c, r))
    \o ScalerStep(c)

\* A wrapper broadcasts the parameters.
BroadcastParameters(c) ==
    IF c.strategy = "none" THEN << >> ELSE Blocking(c, "dp", <<"parameters", << >>>>)

\* new_group is collective over the world.
ConstructOps(c, r) ==
    LET created == GroupsCreated(c.shape, r)
    IN  InTurn(Len(created), [i \in DOMAIN created |->
            Blocking(c, "world", <<"new_group", created[i].ranks>>)])
        \o BroadcastParameters(c)

\* shutdown_distributed waits for everybody.
ShutdownOps(c) == Blocking(c, "world", <<"barrier", << >>>>)

\* What main's call of train_step does on each rank.
StepPrograms == [c \in Configs |-> [r \in Ranks |-> StepOps(c, r)]]

-----------------------------------------------------------------------------
Init ==
    /\ config \in Configs
    /\ group = [r \in Ranks |-> [k \in Kinds |->
            IF k = "world" THEN [i \in 1 .. World |-> i - 1] ELSE GroupOf(config.shape, r, k)]]
    /\ step = [r \in Ranks |-> 0]
    /\ todo = [r \in Ranks |-> ConstructOps(config, r)]
    /\ called = [r \in Ranks |-> [k \in Kinds |-> << >>]]
    /\ waited = [r \in Ranks |-> [k \in Kinds |-> 0]]
    /\ link = [l \in Ranks \X Ranks |-> 0]

At(r, op) == todo[r] # << >> /\ Head(todo[r]).op = op
Now(r) == Head(todo[r])
Continue(r) == todo' = [todo EXCEPT ![r] = Tail(@)]

\* main calls train_step again, or shuts down.
BeginStep(r) ==
    /\ todo[r] = << >> /\ step[r] <= NumSteps
    /\ step' = [step EXCEPT ![r] = @ + 1]
    /\ todo' = [todo EXCEPT ![r] = IF step[r] < NumSteps THEN StepPrograms[config][r]
                                  ELSE ShutdownOps(config)]
    /\ UNCHANGED <<config, group, called, waited, link>>

CallCollective(r) ==
    /\ At(r, "call")
    /\ Continue(r)
    /\ called' = [called EXCEPT ![r][Now(r).kind] = Append(@, Now(r).name)]
    /\ UNCHANGED <<config, group, step, waited, link>>

\* Mutant: the call is asynchronous and nobody waits.
ReturnedAtOnce(r, k) == TRUE

\* The first collective not waited for has been called by the whole group.
Returned(r, k) == \A s \in Members(r, k) : Len(called[s][k]) > waited[r][k]

WaitCollective(r) ==
    /\ At(r, "wait")
    /\ Returned(r, Now(r).kind)
    /\ Continue(r)
    /\ waited' = [waited EXCEPT ![r][Now(r).kind] = @ + 1]
    /\ UNCHANGED <<config, group, step, called, link>>

\* Mutant: every message has a header, which nobody receives.
SendMessageTwice(r) ==
    /\ At(r, "send")
    /\ Continue(r)
    /\ link' = [link EXCEPT ![<<r, Now(r).peer>>] = @ + 2]
    /\ UNCHANGED <<config, group, step, called, waited>>

SendMessage(r) ==
    /\ At(r, "send")
    /\ Continue(r)
    /\ link' = [link EXCEPT ![<<r, Now(r).peer>>] = @ + 1]
    /\ UNCHANGED <<config, group, step, called, waited>>

RecvMessage(r) ==
    /\ At(r, "recv")
    /\ link[<<Now(r).peer, r>>] > 0
    /\ Continue(r)
    /\ link' = [link EXCEPT ![<<Now(r).peer, r>>] = @ - 1]
    /\ UNCHANGED <<config, group, step, called, waited>>

\* Sends complete when they are received, at the latest.
DrainSends(r) ==
    /\ At(r, "drain")
    /\ \A s \in Ranks : link[<<r, s>>] = 0
    /\ Continue(r)
    /\ UNCHANGED <<config, group, step, called, waited, link>>

\* A broadcast may return at a member once its source has called it.
BroadcastEarly(r) ==
    /\ At(r, "wait")
    /\ Continue(r)
    /\ LET k == Now(r).kind
           name == called[r][k][waited[r][k] + 1][1]
           source == IF name = "loss" THEN Last(group[r][k]) ELSE Head(group[r][k])
       IN  /\ name \in {"loss", "parameters"} /\ Len(called[source][k]) > waited[r][k]
           /\ waited' = [waited EXCEPT ![r][k] = @ + 1]
    /\ UNCHANGED <<config, group, step, called, link>>

\* The transport may complete sends before they are received.
DrainEarly(r) ==
    /\ At(r, "drain")
    /\ Continue(r)
    /\ UNCHANGED <<config, group, step, called, waited, link>>

RankStep(r) ==
    \/ BeginStep(r) \/ CallCollective(r) \/ WaitCollective(r)
    \/ SendMessage(r) \/ RecvMessage(r) \/ DrainSends(r)

Finished == \A r \in Ranks : todo[r] = << >> /\ step[r] = NumSteps + 1

Terminating == Finished /\ UNCHANGED vars

Next == (\E r \in Ranks : RankStep(r) \/ BroadcastEarly(r) \/ DrainEarly(r)) \/ Terminating

\* As long as a rank can go on, some rank does: a rank is a process that runs
\* until a wait blocks it.  Nothing makes the transport return early.  Every step
\* of a rank changes its step or its operations.
Spec == Init /\ [][Next]_vars /\ WF_<<step, todo>>(\E r \in Ranks : RankStep(r))

-----------------------------------------------------------------------------
(* Properties *)

Names == {"new_group", "parameters", "forward", "backward", "reduce", "copy",
          "max", "sum", "predicted", "bucket", "scatter", "loss", "found_inf", "barrier"}

Operations ==
    [op : {"call"}, kind : Kinds, name : Names \X Seq(Nat)] \cup [op : {"wait"}, kind : Kinds]
    \cup [op : {"send", "recv"}, peer : Ranks] \cup [op : {"drain"}]

\* Every variable has its type, the sequences where a step changes them;
\* nothing is waited for that was not called, and no more messages are under
\* way than a step has microbatches.
TypeOK ==
    /\ config \in Configs /\ group \in [Ranks -> [Kinds -> Seq(Ranks)]]
    /\ step \in [Ranks -> 0 .. NumSteps + 1]
    /\ \A r \in Ranks : todo[r] # << >> => Now(r) \in Operations
    /\ waited \in [Ranks -> [Kinds -> Nat]]
    /\ \A r \in Ranks : \A k \in Kinds :
          /\ waited[r][k] <= Len(called[r][k])
          /\ called[r][k] # << >> => Last(called[r][k]) \in Names \X Seq(Nat)
    /\ link \in [Ranks \X Ranks -> 0 .. M]

\* The call a rank makes is the one the other members of the group have
\* made, or will make, in the same place of their sequence: also those that
\* create the groups, and also between ranks of a group that are at different
\* places of the schedule or the flush.
GroupCallsMatch ==
    \A r \in Ranks : \A k \in Kinds :
        LET i == Len(called[r][k])
        IN  i > 0 => \A s \in Members(r, k) :
                i <= Len(called[s][k]) => called[s][k][i] = called[r][k][i]

\* Nobody trains yet.  The mesh, the groups and the stages stay as they are
\* from here on.
Constructing == \A r \in Ranks : step[r] = 0

\* The mesh: a rank is a member of the group it keeps, all its members keep
\* the same one, two groups of different kinds share one rank at most, and
\* neighbouring stages have each other as neighbours (test_mesh.py).
MeshSound ==
    LET m == config.shape
    IN  Constructing => \A r \in Ranks :
            LET at == CoordOf(m, r)
                mine == [k \in Kinds |-> Members(r, k)]
            IN  /\ RankOf(m, at.pp, at.dp, at.tp) = r
                /\ \A k \in {"tp", "dp", "pp"} :
                      /\ r \in mine[k] /\ Cardinality(mine[k]) = m[k]
                      /\ \A s \in mine[k] : group[s][k] = group[r][k]
                      /\ \A j \in {"tp", "dp", "pp"} \ {k} : mine[k] \cap mine[j] = {r}
                /\ ~IsLastStage(m, r) => Prev(m, Succ(m, r)) = r

\* The stages of a pipeline hold the model: every layer on exactly one rank
\* of the group, none of them without layers, the stages' sizes as even as
\* they can be (partition_layers' docstring), the embedding where the data
\* comes in and the head where the loss is computed.
StagesHoldModel ==
    LET m == config.shape
        n == Len(PipelineLayers(NLayer))
        Held(s) == LayersOf(n, m.pp, CoordOf(m, s).pp)
    IN  Constructing => \A r \in Ranks :
            /\ \A l \in 0 .. n - 1 :
                  Cardinality({s \in Members(r, "pp") : l \in Held(s)}) = 1
            /\ Held(r) # {}
            /\ \A s \in Members(r, "pp") : Cardinality(Held(s)) <= Cardinality(Held(r)) + 1
            /\ (0 \in Held(r)) = IsFirstStage(m, r)
            /\ (n - 1 \in Held(r)) = IsLastStage(m, r)

\* What a step ties together: the ranks of a replica, by reductions in the
\* layers and messages between the stages; the replicas, by the wrapper's
\* collectives; all ranks, by the scaler's.  Replicas that nothing ties, with
\* strategy "none" and no scaling, run on until the barrier at the end.
Tied(r, s) ==
    \/ config.scaled
    \/ config.strategy # "none"
    \/ CoordOf(config.shape, r).dp = CoordOf(config.shape, s).dp

\* No rank is more than one training step ahead of another it is tied to, also
\* of one it shares no group with: what keeps their scalers and batches in the
\* same or in neighbouring iterations.
WithinOneStep == \A r, s \in Ranks : Tied(r, s) => step[r] <= step[s] + 1

\* No rank waits for ever on another, whichever groups they wait in.
AllFinish == <>Finished
=============================================================================
