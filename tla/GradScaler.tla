----------------------------- MODULE GradScaler -----------------------------
(***************************************************************************)
(* minidist/amp.py: DistributedGradScaler, loss scaling whose overflow     *)
(* decision is agreed by an all-reduce over all ranks.                     *)
(*                                                                         *)
(* Each rank repeats: backward of the scaled loss, scaler.unscale_ if the  *)
(* caller wants real gradients, scaler.step for every optimizer, and       *)
(* scaler.update.  The scale is 2 ^ level: with the default factors a      *)
(* growth adds 1 to the level and a backoff takes 1 off.  A gradient is    *)
(* the power of two it is scaled by and whether it overflowed.             *)
(***************************************************************************)
EXTENDS Integers, FiniteSets

CONSTANTS
    Ranks,          \* the ranks of process_group
    Opts,           \* the optimizers a caller steps in an iteration
    InitLevel,      \* log2 of init_scale
    MinLevel,       \* log2 of min_scale
    GrowthInterval, \* growth_interval
    SafeLevel,      \* a scale up to 2 ^ SafeLevel overflows no gradient
    Ceiling,        \* bound: 2 ^ Ceiling overflows every gradient
    MaxBadBatches,  \* bound: batches whose gradients are nan at any scale
    MaxRestarts     \* bound: crashes of the job

ASSUME ScalerAssumption ==
    /\ IsFiniteSet(Ranks) /\ Ranks # {} /\ Opts # {}
    /\ GrowthInterval \in Nat \ {0}
    /\ {InitLevel, MinLevel, SafeLevel, Ceiling} \subseteq Int
    /\ MinLevel <= SafeLevel /\ SafeLevel < Ceiling /\ MaxBadBatches \in Nat
    /\ MaxRestarts \in Nat
    /\ MinLevel <= InitLevel /\ InitLevel <= Ceiling

VARIABLES
    pc,         \* where the rank's thread is
    iter,       \* parity of the rank's iteration
    level,      \* log2 of self._scale
    good,       \* self._good_steps
    foundInf,   \* self._found_inf_this_step
    unscaled,   \* self._unscaled
    power,      \* log2 of the factor the optimizer's gradients carry
    bad,        \* the rank's own gradients of the optimizer have an inf or nan
    calling,    \* the optimizer unscale_ was called with
    stepping,   \* it was called from step()
    badBatches, \* how many such batches may still come
    outcome,    \* what step() did with the optimizer in this iteration
    checkpoint, \* the last state_dict() written
    restarts    \* crashes that may still come

scaler == <<level, good, foundInf, unscaled>>
gradients == <<power, bad, badBatches>>
call == <<calling, stepping>>
job == <<checkpoint, restarts>>
vars == <<pc, iter, scaler, gradients, call, outcome, job>>

Everywhere(value) == [r \in Ranks |-> value]

Init ==
    /\ checkpoint = [scale |-> InitLevel, goodSteps |-> 0]
    /\ pc = Everywhere("backward")
    /\ iter = Everywhere(0)
    /\ level = Everywhere(checkpoint.scale)
    /\ good = Everywhere(checkpoint.goodSteps)
    /\ foundInf = Everywhere(FALSE) /\ unscaled = Everywhere(FALSE)
    /\ power = Everywhere([o \in Opts |-> 0])
    /\ bad = Everywhere([o \in Opts |-> FALSE])
    /\ calling = Everywhere(CHOOSE o \in Opts : TRUE)
    /\ stepping = Everywhere(FALSE)
    /\ outcome = Everywhere([o \in Opts |-> "none"])
    /\ badBatches = MaxBadBatches
    /\ restarts = MaxRestarts

-----------------------------------------------------------------------------
(* One iteration of one rank. *)

\* Whether gradients scaled by 2 ^ l may, and whether they must, overflow.
CanOverflow(l) == l > SafeLevel
MustOverflow(l) == l >= Ceiling

\* scale_loss(loss).backward() after zero_grad(): every rank has gradients of
\* its own, and may be the only one to overflow.
ScaledBackward(r) ==
    /\ pc[r] = "backward"
    /\ \E b \in [Opts -> BOOLEAN] :
        /\ MustOverflow(level[r]) => \A o \in Opts : b[o]
        /\ bad' = [bad EXCEPT ![r] = b]
        /\ \/ (CanOverflow(level[r]) \/ \A o \in Opts : ~b[o]) /\ UNCHANGED badBatches
           \/ badBatches > 0 /\ badBatches' = badBatches - 1
    /\ power' = [power EXCEPT ![r] = [o \in Opts |-> level[r]]]
    /\ outcome' = [outcome EXCEPT ![r] = [o \in Opts |-> "none"]]
    /\ pc' = [pc EXCEPT ![r] = "ready"]
    /\ UNCHANGED <<iter, scaler, call, job>>

Unstepped(r, o) == pc[r] = "ready" /\ outcome[r][o] = "none"

\* Mutant: no check of the flag, so gradients are unscaled again.
EnterTwice(r, o) ==
    /\ power' = [power EXCEPT ![r][o] = @ - level[r]]
    /\ pc' = [pc EXCEPT ![r] = "reduce"]

\* The body of unscale_: the early return, or unscaling the gradients and
\* calling the all-reduce on the local flag.
EnterUnscale(r, o) ==
    IF unscaled[r]
    THEN pc' = [pc EXCEPT ![r] = "unscaled"] /\ UNCHANGED power
    ELSE /\ power' = [power EXCEPT ![r][o] = @ - level[r]]
         /\ pc' = [pc EXCEPT ![r] = "reduce"]

\* The caller wants real gradients, or steps: step() calls unscale_ first.
CallUnscale(r, o) ==
    /\ Unstepped(r, o)
    /\ calling' = [calling EXCEPT ![r] = o]
    /\ stepping' \in {[stepping EXCEPT ![r] = s] : s \in BOOLEAN}
    /\ EnterUnscale(r, o)
    /\ UNCHANGED <<iter, scaler, bad, badBatches, outcome, job>>

\* found_inf of the rank, for the optimizer it called unscale_ with.
LocalFlag(r) == bad[r][calling[r]]

\* Mutant: each rank keeps its own flag.
ReducedLocally(r) == LocalFlag(r)

\* ReduceOp.MAX of the ranks' flags.
Reduced(r) == \E s \in Ranks : LocalFlag(s)

\* The all-reduce of found_inf returns on all ranks once all have called it.
AllReduce ==
    /\ \A r \in Ranks : pc[r] = "reduce"
    /\ foundInf' = [r \in Ranks |-> Reduced(r)]
    /\ unscaled' = [r \in Ranks |-> TRUE]
    /\ pc' = [r \in Ranks |-> "unscaled"]
    /\ UNCHANGED <<iter, level, good, gradients, call, outcome, job>>

\* Mutant: an overflow does not keep the optimizer from stepping.
DecideApply(r) == "applied"

\* step(): skip if the group found an overflow.
Decide(r) == IF foundInf[r] THEN "skipped" ELSE "applied"

\* unscale_ returns; in step() the optimizer steps or not.
LeaveUnscale(r) ==
    /\ pc[r] = "unscaled"
    /\ outcome' = IF stepping[r]
                  THEN [outcome EXCEPT ![r][calling[r]] = Decide(r)]
                  ELSE outcome
    /\ pc' = [pc EXCEPT ![r] = "ready"]
    /\ UNCHANGED <<iter, scaler, gradients, call, job>>

\* Mutant: the floor is left out.
BackedOffUnbounded(l) == l - 1

\* Mutant: the scale never backs off.
BackedOffNever(l) == l

\* max(min_scale, scale * backoff_factor)
BackedOff(l) == IF l - 1 < MinLevel THEN MinLevel ELSE l - 1

\* Mutant: the scale depends on what the rank itself saw.
OverflowedLocally(r) == \E o \in Opts : bad[r][o]

\* The flag update() goes by.
Overflowed(r) == foundInf[r]

\* update(): adapt the scale and start the next iteration.
Update(r) ==
    /\ pc[r] = "ready"
    /\ \A o \in Opts : outcome[r][o] # "none"
    /\ IF Overflowed(r)
       THEN /\ level' = [level EXCEPT ![r] = BackedOff(@)]
            /\ good' = [good EXCEPT ![r] = 0]
       ELSE IF good[r] + 1 >= GrowthInterval
       THEN /\ level' = [level EXCEPT ![r] = @ + 1]
            /\ good' = [good EXCEPT ![r] = 0]
       ELSE good' = [good EXCEPT ![r] = @ + 1] /\ UNCHANGED level
    /\ foundInf' = [foundInf EXCEPT ![r] = FALSE]
    /\ unscaled' = [unscaled EXCEPT ![r] = FALSE]
    /\ iter' = [iter EXCEPT ![r] = 1 - @]
    /\ pc' = [pc EXCEPT ![r] = "backward"]
    /\ UNCHANGED <<gradients, call, outcome, job>>

RankStep(r) ==
    \/ ScaledBackward(r)
    \/ \E o \in Opts : CallUnscale(r, o)
    \/ LeaveUnscale(r)
    \/ Update(r)

\* state_dict(): one rank's is saved, at any point of its iteration outside
\* of unscale_.
SaveCheckpoint(r) ==
    /\ restarts > 0 /\ pc[r] \in {"backward", "ready"}
    /\ checkpoint' = [scale |-> level[r], goodSteps |-> good[r]]
    /\ UNCHANGED <<pc, iter, scaler, gradients, call, outcome, restarts>>

\* The job dies, and every rank builds its scaler anew and loads the
\* checkpoint with load_state_dict().
Restart ==
    /\ restarts > 0 /\ restarts' = restarts - 1
    /\ UNCHANGED <<checkpoint, badBatches>>
    /\ pc' = Everywhere("backward")
    /\ iter' = Everywhere(0)
    /\ level' = Everywhere(checkpoint.scale)
    /\ good' = Everywhere(checkpoint.goodSteps)
    /\ foundInf' = Everywhere(FALSE) /\ unscaled' = Everywhere(FALSE)
    /\ power' = Everywhere([o \in Opts |-> 0])
    /\ bad' = Everywhere([o \in Opts |-> FALSE])
    /\ calling' = Everywhere(CHOOSE o \in Opts : TRUE)
    /\ stepping' = Everywhere(FALSE)
    /\ outcome' = Everywhere([o \in Opts |-> "none"])

Next == AllReduce \/ Restart \/ \E r \in Ranks : RankStep(r) \/ SaveCheckpoint(r)

\* Every rank keeps training, steps its optimizers in the end, and the
\* all-reduce returns once every rank has called it.
Fairness ==
    /\ WF_vars(AllReduce)
    /\ \A r \in Ranks :
        /\ WF_vars(RankStep(r))
        /\ \A o \in Opts : SF_vars(CallUnscale(r, o) /\ stepping'[r])

Spec == Init /\ [][Next]_vars /\ Fairness

-----------------------------------------------------------------------------
(* Properties *)

\* Every variable has its type; the scale stays between its bounds.
TypeOK ==
    /\ pc \in [Ranks -> {"backward", "ready", "reduce", "unscaled"}]
    /\ iter \in [Ranks -> {0, 1}]
    /\ level \in [Ranks -> MinLevel .. Ceiling]
    /\ good \in [Ranks -> 0 .. GrowthInterval - 1]
    /\ foundInf \in [Ranks -> BOOLEAN]
    /\ unscaled \in [Ranks -> BOOLEAN]
    /\ power \in [Ranks -> [Opts -> Int]]
    /\ bad \in [Ranks -> [Opts -> BOOLEAN]] /\ badBatches \in 0 .. MaxBadBatches
    /\ calling \in [Ranks -> Opts]
    /\ stepping \in [Ranks -> BOOLEAN]
    /\ outcome \in [Ranks -> [Opts -> {"none", "applied", "skipped"}]]
    /\ checkpoint.scale \in MinLevel .. Ceiling
    /\ checkpoint.goodSteps \in 0 .. GrowthInterval - 1
    /\ restarts \in 0 .. MaxRestarts

\* Two ranks that have stepped an optimizer in the same iteration have both
\* applied the step or both skipped it, also when only one overflowed: the
\* module docstring's promise that decisions are agreed across ranks.
StepsUnanimous ==
    \A r, s \in Ranks : \A o \in Opts :
        iter[r] = iter[s] /\ outcome[r][o] # "none" /\ outcome[s][o] # "none"
        => outcome[r][o] = outcome[s][o]

\* Ranks in the same iteration scale by the same factor and are as far from
\* the next growth (update's comment, amp.py:243-245), without communicating
\* either, before and after a restart.
ScaleAgrees ==
    \A r, s \in Ranks :
        iter[r] = iter[s] => level[r] = level[s] /\ good[r] = good[s]

\* An optimizer steps with real gradients: divided by the scale exactly once
\* however often the caller called unscale_.
AppliesRealGradients ==
    [][\A r \in Ranks : \A o \in Opts :
        outcome[r][o] # "applied" /\ outcome'[r][o] = "applied"
        => power[r][o] = 0]_vars

\* No optimizer steps when any rank's gradients of the iteration overflowed.
AppliesFiniteGradients ==
    [][\A r \in Ranks : \A o \in Opts :
        outcome[r][o] # "applied" /\ outcome'[r][o] = "applied"
        => \A s \in Ranks : iter[s] = iter[r] => ~bad[s][o]]_vars

\* However often gradients overflow, the scale comes down far enough for a
\* step to be applied, again and again, on every rank.
TrainingAdvances ==
    \A r \in Ranks : \A o \in Opts : []<>(outcome[r][o] = "applied")
=============================================================================
