---------------------------- MODULE DataParallel ----------------------------
(***************************************************************************)
(* What data parallelism promises its caller, without buckets, hooks, call *)
(* order or buffers: the replicas start from one rank's parameters; in a   *)
(* synchronising step every rank offers each parameter's gradient once,    *)
(* when nothing will be added to it any more; what all ranks have offered  *)
(* in the same step is averaged; and the step ends when the rank has taken *)
(* every average.                                                          *)
(*                                                                         *)
(* A gradient is the set of contributions <<rank, step>> it holds, those   *)
(* computed here since the last average in "own", those averaged over the  *)
(* ranks in "avg".                                                         *)
(***************************************************************************)
EXTENDS Integers

CONSTANTS
    Ranks, Params,
    Root,           \* the rank whose parameters all replicas start from
    Steps           \* positions of the training program

VARIABLES
    plan,       \* the training program
    started,    \* the replica has been constructed
    origin,     \* the rank whose initial parameters it holds
    step,       \* each rank's position in it
    busy,       \* the rank is inside a step
    left,       \* parameters its backward pass has still to reach
    grad,       \* the gradients
    slot        \* each gradient's way through the step's average

replica == <<started, origin>>
vars == <<plan, replica, step, busy, left, grad, slot>>

NoGrad == [own |-> {}, avg |-> {}]
Slot(state, g) == [state |-> state, grad |-> g]
Unoffered == Slot("none", NoGrad)
Taken == Slot("taken", NoGrad)

Init ==
    /\ started = [r \in Ranks |-> FALSE]
    /\ origin = [r \in Ranks |-> r]
    /\ step = [r \in Ranks |-> 1]
    /\ busy = [r \in Ranks |-> FALSE]
    /\ left = [r \in Ranks |-> {}]
    /\ grad = [r \in Ranks |-> [p \in Params |-> NoGrad]]
    /\ slot = [r \in Ranks |-> [p \in Params |-> Unoffered]]

Start(r) ==
    /\ ~started[r]
    /\ started' = [started EXCEPT ![r] = TRUE]
    /\ origin' = [origin EXCEPT ![r] = Root]
    /\ UNCHANGED <<plan, step, busy, left, grad, slot>>

At(r, kinds) == step[r] \in Steps /\ plan[step[r]] \in kinds

Begin(r) ==
    /\ started[r] /\ ~busy[r] /\ At(r, {"backward", "no_sync", "finish"})
    /\ busy' = [busy EXCEPT ![r] = TRUE]
    /\ \E u \in SUBSET Params :
        /\ u # {} => At(r, {"backward", "no_sync"})
        /\ left' = [left EXCEPT ![r] = u]
    /\ UNCHANGED <<plan, replica, step, grad, slot>>

Accumulate(r, p) ==
    /\ busy[r] /\ p \in left[r]
    /\ slot[r][p] = Unoffered
    /\ left' = [left EXCEPT ![r] = @ \ {p}]
    /\ grad' = [grad EXCEPT ![r][p].own = @ \cup {<<r, step[r]>>}]
    /\ UNCHANGED <<plan, replica, step, busy, slot>>

Offer(r, Q) ==
    /\ busy[r] /\ At(r, {"backward", "finish"})
    /\ Q \cap left[r] = {}
    /\ \A p \in Q : slot[r][p] = Unoffered
    /\ slot' = [slot EXCEPT ![r] = [p \in Params |->
                   IF p \in Q THEN Slot("offered", grad[r][p]) ELSE @[p]]]
    /\ UNCHANGED <<plan, replica, step, busy, left, grad>>

\* The ranks average what they have added, and are agreed on the rest.
Average(Q) ==
    /\ \A r, s \in Ranks :
        /\ step[r] = step[s]
        /\ \A p \in Q : /\ slot[r][p].state = "offered"
                        /\ slot[r][p].grad.avg = slot[s][p].grad.avg
    /\ slot' = [r \in Ranks |-> [p \in Params |->
                   IF p \notin Q THEN slot[r][p]
                   ELSE Slot("averaged",
                             [own |-> {},
                              avg |-> UNION {slot[s][p].grad.own \cup slot[s][p].grad.avg :
                                                 s \in Ranks}])]]
    /\ UNCHANGED <<plan, replica, step, busy, left, grad>>

Take(r, Q) ==
    /\ busy[r] /\ left[r] = {}
    /\ \A p \in Q : slot[r][p].state = "averaged"
    /\ grad' = [grad EXCEPT ![r] = [p \in Params |->
                   IF p \in Q THEN slot[r][p].grad ELSE @[p]]]
    /\ IF \A p \in Params \ Q : slot[r][p] = Taken
       THEN /\ slot' = [slot EXCEPT ![r] = [p \in Params |-> Unoffered]]
            /\ busy' = [busy EXCEPT ![r] = FALSE]
            /\ step' = [step EXCEPT ![r] = @ + 1]
       ELSE /\ slot' = [slot EXCEPT ![r] = [p \in Params |->
                            IF p \in Q THEN Taken ELSE @[p]]]
            /\ UNCHANGED <<busy, step>>
    /\ UNCHANGED <<plan, replica, left>>

EndLocal(r) ==
    /\ busy[r] /\ At(r, {"no_sync"}) /\ left[r] = {}
    /\ busy' = [busy EXCEPT ![r] = FALSE]
    /\ step' = [step EXCEPT ![r] = @ + 1]
    /\ UNCHANGED <<plan, replica, left, grad, slot>>

OptStep(r) ==
    /\ started[r] /\ ~busy[r] /\ At(r, {"opt"})
    /\ grad' = [grad EXCEPT ![r] = [p \in Params |-> NoGrad]]
    /\ step' = [step EXCEPT ![r] = @ + 1]
    /\ UNCHANGED <<plan, replica, busy, left, slot>>

Next ==
    \/ \E r \in Ranks :
        \/ Start(r) \/ Begin(r) \/ EndLocal(r) \/ OptStep(r)
        \/ \E p \in Params : Accumulate(r, p)
        \/ \E Q \in SUBSET Params : Offer(r, Q) \/ Take(r, Q)
    \/ \E Q \in SUBSET Params : Average(Q)

Spec == Init /\ [][Next]_vars
=============================================================================
