---------------------------- MODULE DdpAveraging ----------------------------
(***************************************************************************)
(* Ddp implements DataParallel: what the caller is promised.               *)
(***************************************************************************)
EXTENDS Ddp

\* The gradient of a parameter as the set of contributions it holds.  A
\* contribution with any other coefficient is in neither set.
Held(g) == [own |-> {c \in Contribs : g[c] = "own"}, avg |-> {c \in Contribs : g[c] = "mean"}]

TakenAlready(r, b) == pc[r] = "finish" /\ next[r] = NumBuckets /\ b < at[r]

\* How far a parameter's gradient has come in the average of this step.
StateOf(r, b) ==
    IF work[r][b] = 0 THEN IF TakenAlready(r, b) THEN "taken" ELSE "none"
    ELSE IF work[r][b] \in completed THEN "averaged" ELSE "offered"

SlotOf(r, p) ==
    [state |-> StateOf(r, BucketOf[p]),
     grad |-> Held(IF work[r][BucketOf[p]] = 0 THEN ZeroGrad ELSE buffer[r][p])]

DP == INSTANCE DataParallel WITH
        Root <- BroadcastRoot,
        started <- [r \in Ranks |-> pc[r] # "ctor"],
        busy <- [r \in Ranks |-> pc[r] \in {"backward", "finish"}],
        left <- todo,
        grad <- [r \in Ranks |-> [p \in Params |-> Held(grad[r][p])]],
        slot <- [r \in Ranks |-> [p \in Params |-> SlotOf(r, p)]]

\* Buckets, hooks, launch order and buffers implement the average the caller
\* is promised: each gradient is offered once a step and not before it is
\* final, averaged with those of the same step only, and taken once.
Averaging == DP!Spec
=============================================================================
