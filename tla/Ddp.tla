-------------------------------- MODULE Ddp --------------------------------
(***************************************************************************)
(* minidist/ddp.py: bucketed, overlapped data-parallel gradient averaging. *)
(*                                                                         *)
(* Every rank of the data-parallel group runs the same training program    *)
(* (plan), at its own speed.  During a backward pass the autograd engine   *)
(* calls a hook for each parameter that received a gradient, in an order   *)
(* that differs from rank to rank; the hooks launch asynchronous           *)
(* all-reduces, which the process group matches across ranks by call order *)
(* and completes whenever it likes.                                        *)
(*                                                                         *)
(* A gradient is a linear combination of contributions, one per rank and   *)
(* backward pass; only its coefficients are kept.  "own" is 1 at the rank  *)
(* that computed the contribution, "mean" is 1/W, "bad" any other non-zero *)
(* coefficient.  A grad that is None is the zero gradient.                 *)
(***************************************************************************)
EXTENDS Integers, Sequences, FiniteSets

CONSTANTS
    Ranks,          \* the ranks of the process group, 0 .. world_size - 1
    Params,         \* the trainable parameters
    NumBuckets,     \* len(self._buckets)
    BucketOf,       \* self._param_to_bucket
    NumSteps,       \* bound: length of the training programs explored
    Plans,          \* the training programs explored
    UsedSets,       \* which parameters a backward pass may reach
    Src,            \* the constructor's src argument
    DefaultGroup    \* process_group is None

Buckets == 0 .. NumBuckets - 1
Steps == 1 .. NumSteps
StepKinds == {"backward", "no_sync", "finish", "opt"}

ParamsOf(b) == {p \in Params : BucketOf[p] = b}

\* world_size = 1 registers no hook and finish_gradient_sync returns at once:
\* there is nothing to synchronise, so the group has at least two ranks.
ASSUME RanksAssumption ==
    /\ Ranks \subseteq Nat /\ IsFiniteSet(Ranks) /\ Cardinality(Ranks) > 1
    /\ 0 \in Ranks /\ Src \in Ranks /\ DefaultGroup \in BOOLEAN

ASSUME BucketsAssumption ==
    /\ IsFiniteSet(Params)
    /\ NumBuckets \in Nat \ {0}
    /\ BucketOf \in [Params -> Buckets]
    /\ \A b \in Buckets : ParamsOf(b) # {}

\* A rank whose backward reaches no parameter would never run a hook and
\* leave its peers waiting: the static-graph contract of the class.
ASSUME PlansAssumption ==
    /\ NumSteps \in Nat
    /\ Plans \subseteq [Steps -> StepKinds]
    /\ UsedSets \subseteq (SUBSET Params) \ {{}}

VARIABLES
    plan,       \* the training program every rank runs
    overlap,    \* overlap_with_backward
    pc,         \* where a rank's thread is
    step,       \* the rank's position in the plan
    origin,     \* the rank whose initial parameters the replica holds
    todo,       \* parameters the running backward pass has yet to reach
    used,       \* history: parameters each backward pass reaches
    grad,       \* p.grad
    buffer,     \* the flat bucket buffers, by parameter slice
    pending,    \* bucket.pending
    work,       \* bucket.work: position in the call log, 0 for None
    next,       \* self._next_to_launch
    queued,     \* self._callback_queued
    at,         \* loop index of the wait loop of finish_gradient_sync
    log,        \* the rank's all-reduce calls so far, by bucket index
    completed   \* the calls (log positions) the process group has completed

program == <<plan, overlap>>
pass == <<todo, used>>
reducer == <<pending, work, next, queued, at>>
calls == <<log, completed>>
vars == <<program, pc, step, origin, pass, grad, buffer, reducer, calls>>

-----------------------------------------------------------------------------
(* Gradients as coefficients of contributions. *)

Contribs == Ranks \X Steps
Coefs == {"zero", "own", "mean", "bad"}
Grads == [Contribs -> Coefs]
ZeroGrad == [c \in Contribs |-> "zero"]
BadGrad == [c \in Contribs |-> "bad"]

\* Mutant: the sum over the ranks, not pre-scaled by 1 / W.
AverageUnscaled(owner, w) ==
    IF \A r \in Ranks : w[r] = "zero" THEN "zero"
    ELSE IF w[owner] = "own" THEN "own" ELSE "bad"

\* Sum over the ranks of w[r] / W for a contribution computed by owner.
Average(owner, w) ==
    IF \A r \in Ranks : w[r] = "zero" THEN "zero"
    ELSE IF \/ \A r \in Ranks : w[r] = "mean"
            \/ w[owner] = "own" /\ \A r \in Ranks \ {owner} : w[r] = "zero"
         THEN "mean"
         ELSE "bad"

\* The average of one slice over the ranks: gather_into_buffer pre-scales
\* by 1 / W and the all-reduce sums.
MeanSlice(p) ==
    [c \in Contribs |-> Average(c[1], [r \in Ranks |-> buffer[r][p][c]])]

\* Adding this backward pass's gradient of p to p.grad.
Accumulated(r, p) == [grad[r][p] EXCEPT ![<<r, step[r]>>] = "own"]

-----------------------------------------------------------------------------
FullPending == [b \in Buckets |-> Cardinality(ParamsOf(b))]

\* The rank the constructor broadcasts the parameters from.
BroadcastRoot == IF DefaultGroup THEN 0 ELSE Src

Init ==
    /\ plan \in Plans
    /\ overlap \in BOOLEAN
    /\ pc = [r \in Ranks |-> "ctor"]
    /\ step = [r \in Ranks |-> 1]
    /\ origin = [r \in Ranks |-> r]
    /\ todo = [r \in Ranks |-> {}]
    /\ used = [r \in Ranks |-> [k \in Steps |-> {}]]
    /\ grad = [r \in Ranks |-> [p \in Params |-> ZeroGrad]]
    /\ buffer = [r \in Ranks |-> [p \in Params |-> ZeroGrad]]
    /\ pending = [r \in Ranks |-> FullPending]
    /\ work = [r \in Ranks |-> [b \in Buckets |-> 0]]
    /\ next = [r \in Ranks |-> 0]
    /\ queued = [r \in Ranks |-> FALSE]
    /\ at = [r \in Ranks |-> 0]
    /\ log = [r \in Ranks |-> << >>]
    /\ completed = {}

AtStep(r, kinds) ==
    pc[r] = "idle" /\ step[r] \in Steps /\ plan[step[r]] \in kinds

\* require_backward_grad_sync: FALSE inside the no_sync() block of a step.
SyncEnabled(r) == plan[step[r]] # "no_sync"

GoTo(r, label) == pc' = [pc EXCEPT ![r] = label]
NextStep(r) == step' = [step EXCEPT ![r] = @ + 1]

\* __init__: a blocking broadcast returns at the root once sent, elsewhere
\* once the root has sent.
Construct(r) ==
    /\ pc[r] = "ctor"
    /\ r = BroadcastRoot \/ pc[BroadcastRoot] # "ctor"
    /\ origin' = [origin EXCEPT ![r] = origin[BroadcastRoot]]
    /\ GoTo(r, "idle")
    /\ UNCHANGED <<program, step, pass, grad, buffer, reducer, calls>>

\* The caller runs loss.backward(), inside no_sync() or not.
StartBackward(r) ==
    /\ AtStep(r, {"backward", "no_sync"})
    /\ \E u \in UsedSets :
        /\ todo' = [todo EXCEPT ![r] = u]
        /\ used' = [used EXCEPT ![r][step[r]] = u]
    /\ GoTo(r, "backward")
    /\ UNCHANGED <<program, step, origin, grad, buffer, reducer, calls>>

\* Mutant: one parameter short of full.
NextIsReadyEarly(r) == next[r] < NumBuckets /\ pending[r][next[r]] <= 1

\* The loop condition of _launch_ready_buckets: full and next in line.
NextIsReady(r) == next[r] < NumBuckets /\ pending[r][next[r]] <= 0

\* The last hook that ran has launched all it can.
HookReturned(r) == ~(overlap /\ NextIsReady(r))

\* The engine accumulates a parameter's gradient and calls _on_grad_ready.
GradReady(r, p) ==
    /\ pc[r] = "backward"
    /\ p \in todo[r]
    /\ HookReturned(r)
    /\ todo' = [todo EXCEPT ![r] = @ \ {p}]
    /\ grad' = [grad EXCEPT ![r][p] = Accumulated(r, p)]
    /\ IF SyncEnabled(r)
       THEN /\ queued' = [queued EXCEPT ![r] = TRUE]
            /\ pending' = [pending EXCEPT ![r][BucketOf[p]] = @ - 1]
       ELSE UNCHANGED <<queued, pending>>
    /\ UNCHANGED <<program, pc, step, origin, used, buffer, work, next, at, calls>>

\* _launch: copy the bucket's gradients into its buffer and call all_reduce.
Launch(r, b) ==
    /\ buffer' = [buffer EXCEPT ![r] =
                    [p \in Params |-> IF BucketOf[p] = b THEN grad[r][p] ELSE @[p]]]
    /\ log' = [log EXCEPT ![r] = Append(@, b)]
    /\ work' = [work EXCEPT ![r][b] = Len(log[r]) + 1]
    /\ next' = [next EXCEPT ![r] = @ + 1]
    /\ UNCHANGED <<program, pc, step, origin, pass, grad, pending, queued, at, completed>>

\* Mutant: any full bucket is launched, in the order they fill up.
LaunchReadyAnyOrder(r) ==
    /\ pc[r] = "backward" /\ overlap
    /\ \E b \in Buckets : pending[r][b] <= 0 /\ work[r][b] = 0 /\ Launch(r, b)

\* A hook, in the loop of _launch_ready_buckets.
LaunchReady(r) ==
    /\ pc[r] = "backward"
    /\ overlap
    /\ NextIsReady(r)
    /\ Launch(r, next[r])

\* The engine has visited the whole graph: it runs _finalize_backward if a
\* hook queued it, and backward() returns otherwise.
EndBackward(r) ==
    /\ pc[r] = "backward"
    /\ todo[r] = {}
    /\ HookReturned(r)
    /\ IF queued[r]
       THEN GoTo(r, "finish") /\ UNCHANGED step
       ELSE GoTo(r, "idle") /\ NextStep(r)
    /\ queued' = [queued EXCEPT ![r] = FALSE]
    /\ UNCHANGED <<program, origin, pass, grad, buffer, pending, work, next, at, calls>>

\* The caller runs finish_gradient_sync().
CallFinish(r) ==
    /\ AtStep(r, {"finish"})
    /\ GoTo(r, "finish")
    /\ UNCHANGED <<program, step, origin, pass, grad, buffer, reducer, calls>>

\* Mutant: the flush runs one bucket too far.
FlushBucketTooFar(r) ==
    pc[r] = "finish" /\ at[r] = 0 /\ next[r] <= NumBuckets /\ Launch(r, next[r])

\* Mutant: the flush leaves out a bucket with parameters not reached.
FlushBucketFull(r) ==
    pc[r] = "finish" /\ NextIsReady(r) /\ Launch(r, next[r])

\* finish_gradient_sync launches what is still unlaunched, in index order.
FlushBucket(r) ==
    /\ pc[r] = "finish"
    /\ next[r] < NumBuckets
    /\ Launch(r, next[r])

\* Mutant: a gradient that is None stays None.
ScatteredUsed(r, b) ==
    [p \in Params |-> IF BucketOf[p] = b /\ grad[r][p] # ZeroGrad
                      THEN buffer[r][p] ELSE grad[r][p]]

\* scatter_from_buffer
Scattered(r, b) ==
    [p \in Params |-> IF BucketOf[p] = b THEN buffer[r][p] ELSE grad[r][p]]

\* Mutant: the launch counter is not reset.
EndOfWaitKeepNext(r) ==
    IF at[r] = NumBuckets - 1
    THEN at' = [at EXCEPT ![r] = 0] /\ UNCHANGED next /\ GoTo(r, "idle") /\ NextStep(r)
    ELSE at' = [at EXCEPT ![r] = @ + 1] /\ UNCHANGED <<next, pc, step>>

\* Leaving the wait loop of finish_gradient_sync, or going on with it.
EndOfWait(r) ==
    IF at[r] = NumBuckets - 1
    THEN /\ at' = [at EXCEPT ![r] = 0]
         /\ next' = [next EXCEPT ![r] = 0]
         /\ GoTo(r, "idle") /\ NextStep(r)
    ELSE at' = [at EXCEPT ![r] = @ + 1] /\ UNCHANGED <<next, pc, step>>

\* Mutant: wait() returns at once.
WaitedNot(r, b) == TRUE

\* work.wait() has returned.
Waited(r, b) == work[r][b] \in completed

\* One turn of the wait loop: wait, scatter and reset the bucket.
WaitBucket(r) ==
    /\ pc[r] = "finish"
    /\ next[r] = NumBuckets
    /\ IF work[r][at[r]] # 0
       THEN /\ Waited(r, at[r])
            /\ grad' = [grad EXCEPT ![r] = Scattered(r, at[r])]
       ELSE UNCHANGED grad
    /\ pending' = [pending EXCEPT ![r][at[r]] = FullPending[at[r]]]
    /\ work' = [work EXCEPT ![r][at[r]] = 0]
    /\ EndOfWait(r)
    /\ UNCHANGED <<program, origin, pass, buffer, queued, calls>>

\* The caller runs opt.step() and zero_grad().
OptStep(r) ==
    /\ AtStep(r, {"opt"})
    /\ grad' = [grad EXCEPT ![r] = [p \in Params |-> ZeroGrad]]
    /\ NextStep(r)
    /\ UNCHANGED <<program, pc, origin, pass, buffer, reducer, calls>>

\* The process group completes the k-th all-reduce: it reduces, in place,
\* the buffers the ranks passed in their k-th calls.  Buffers of different
\* buckets reduced together leave garbage.
Complete(k) ==
    /\ k \notin completed
    /\ \A r \in Ranks : k <= Len(log[r])
    /\ buffer' = [r \in Ranks |-> [p \in Params |->
            IF BucketOf[p] # log[r][k] THEN buffer[r][p]
            ELSE IF \A s \in Ranks : log[s][k] = log[r][k]
                 THEN MeanSlice(p) ELSE BadGrad]]
    /\ completed' = completed \cup {k}
    /\ UNCHANGED <<program, pc, step, origin, pass, grad, reducer, log>>

MaxCalls == NumSteps * NumBuckets

Finished(r) == pc[r] = "idle" /\ step[r] > NumSteps

Terminating == (\A r \in Ranks : Finished(r)) /\ UNCHANGED vars

RankStep(r) ==
    \/ Construct(r)
    \/ StartBackward(r)
    \/ \E p \in Params : GradReady(r, p)
    \/ LaunchReady(r)
    \/ EndBackward(r)
    \/ CallFinish(r)
    \/ FlushBucket(r)
    \/ WaitBucket(r)
    \/ OptStep(r)

Next ==
    \/ \E r \in Ranks : RankStep(r)
    \/ \E k \in 1 .. MaxCalls : Complete(k)
    \/ Terminating

\* A rank's thread runs until it blocks in a wait, and the process group
\* completes a collective all ranks have called.
Fairness ==
    /\ \A r \in Ranks : WF_vars(RankStep(r))
    /\ \A k \in 1 .. MaxCalls : WF_vars(Complete(k))

Spec == Init /\ [][Next]_vars /\ Fairness

-----------------------------------------------------------------------------
(* Properties *)

Labels == {"ctor", "idle", "backward", "finish"}

\* Every variable has its type.
TypeOK ==
    /\ plan \in Plans
    /\ overlap \in BOOLEAN
    /\ pc \in [Ranks -> Labels]
    /\ step \in [Ranks -> 1 .. NumSteps + 1]
    /\ origin \in [Ranks -> Ranks]
    /\ todo \in [Ranks -> SUBSET Params]
    /\ used \in [Ranks -> [Steps -> SUBSET Params]]
    /\ grad \in [Ranks -> [Params -> Grads]]
    /\ buffer \in [Ranks -> [Params -> Grads]]
    /\ pending \in [Ranks -> [Buckets -> Int]]
    /\ work \in [Ranks -> [Buckets -> Nat]]
    /\ next \in [Ranks -> 0 .. NumBuckets]
    /\ queued \in [Ranks -> BOOLEAN]
    /\ at \in [Ranks -> Buckets]
    /\ log \in [Ranks -> Seq(Buckets)]
    /\ completed \subseteq Nat

\* The k-th all-reduce of any two ranks is for the same bucket, whatever the
\* order in which their parameters became ready and whichever parameters
\* their backward passes reached: the in-order launch of _launch_ready_buckets
\* and the flush in finish_gradient_sync.
CollectivesMatch ==
    \A r, s \in Ranks : \A k \in 1 .. Len(log[r]) :
        k <= Len(log[s]) => log[r][k] = log[s][k]

\* While a backward pass runs, a bucket that has been launched holds no
\* parameter the pass has still to reach: what the all-reduce reads is final.
LaunchedIsFinal ==
    \A r \in Ranks : \A b \in Buckets :
        work[r][b] # 0 => ParamsOf(b) \cap todo[r] = {}

\* The steps whose contributions are in the gradient at step k of the plan:
\* those since the last optimizer step.
Window(k) ==
    {j \in 1 .. k - 1 : \A i \in j .. k - 1 : plan[i] # "opt"}

\* p.grad on every rank after steps 1 .. k - 1, the last of them a sync.
ExpectedMean(p, k) ==
    [c \in Contribs |->
        IF c[2] \in Window(k) /\ p \in used[c[1]][c[2]] THEN "mean" ELSE "zero"]

\* After a synchronising backward pass or an explicit finish_gradient_sync,
\* p.grad is, on every rank, the mean over all ranks of everything
\* accumulated since the last optimizer step, each contribution counted once:
\* also those accumulated under no_sync, those already averaged by an earlier
\* sync, and those of parameters some ranks did not use.
SyncedGradIsMean ==
    \A r \in Ranks :
        /\ pc[r] = "idle"
        /\ step[r] > 1
        /\ plan[step[r] - 1] \in {"backward", "finish"}
        => \A p \in Params : grad[r][p] = ExpectedMean(p, step[r])

\* Between steps the reducer is back in the state __init__ left it in, so
\* each synchronisation starts afresh.
CleanBetweenSteps ==
    \A r \in Ranks :
        pc[r] = "idle" =>
            /\ pending[r] = FullPending
            /\ next[r] = 0
            /\ ~queued[r]
            /\ \A b \in Buckets : work[r][b] = 0

\* A work handle changes only once its all-reduce has completed.
HandleKept ==
    \A r \in Ranks : \A b \in Buckets :
        work[r][b] # 0 /\ work'[r][b] # work[r][b] => work[r][b] \in completed

\* A bucket is neither refilled and launched again nor its work handle
\* dropped while its all-reduce is in flight: nobody writes a buffer the
\* process group is reducing.
InFlightUntouched == [][HandleKept]_vars

\* Every rank gets through its whole program: no rank waits for ever on an
\* all-reduce its peers never call.
AllFinish == <>(\A r \in Ranks : Finished(r))
=============================================================================
