------------------------------ MODULE Pipeline ------------------------------
(***************************************************************************)
(* minidist/pipeline.py: the GPipe and 1F1B schedules over the             *)
(* point-to-point transport _P2P.                                          *)
(*                                                                         *)
(* Stage p holds a slice of the model.  It receives a microbatch's         *)
(* activation from p - 1, runs its slice, sends the result to p + 1, and   *)
(* for the backward pass receives the gradient from p + 1 and sends its    *)
(* own to p - 1.  Sends are asynchronous and arrive in order on each link; *)
(* receives block; the sends are waited for at the end of a step.  The     *)
(* first message a stage sends under a key ("act" or "grad") is preceded   *)
(* by a header with the tensor's shape, which the receiver caches.         *)
(*                                                                         *)
(* A tensor is its tag, the step and microbatch it belongs to, and its     *)
(* shape.                                                                  *)
(***************************************************************************)
EXTENDS Integers, Sequences

CONSTANTS
    P,          \* mesh.pp_size
    M,          \* num_microbatches
    NumSteps,   \* bound: how many times step() is called
    ShapeOf     \* the shape of a microbatch's tensors in each step

Stages == 0 .. P - 1
Steps == 1 .. NumSteps
Keys == {"act", "grad"}
Unknown == "unknown"
Shapes == {ShapeOf[k] : k \in Steps}

ASSUME PipelineAssumption ==
    /\ P \in Nat \ {0} /\ M \in Nat \ {0} /\ NumSteps \in Nat \ {0}
    /\ ShapeOf \in [Steps -> STRING \ {Unknown}]

Links == {l \in Stages \X Stages : l[1] - l[2] \in {-1, 1}}
Tags == Steps \X (0 .. M - 1)
Messages == [header : BOOLEAN, tag : Tags, shape : Shapes]

VARIABLES
    sched,      \* which schedule the stages run
    eager,      \* whether an isend completes before it is received
    step,       \* how many calls of step() the stage is in
    fwd, bwd,   \* forwards and backwards done in this step
    inflight,   \* self._in_flight
    inbox,      \* the tensor recv has returned, for the operation under way
    link,       \* messages sent and not yet received, per ordered pair
    sendKnown,  \* keys of self._send_known
    recvKnown,  \* self._recv_known
    fits,       \* the last payload had the shape it was received into
    passes      \* history: (activation, gradient) of this step's backwards

config == <<sched, eager>>
progress == <<step, fwd, bwd, inflight, passes>>
transport == <<inbox, link, sendKnown, recvKnown, fits>>
vars == <<config, progress, transport>>

-----------------------------------------------------------------------------
Init ==
    /\ sched \in {"gpipe", "1f1b"}
    /\ eager \in BOOLEAN
    /\ step = [p \in Stages |-> 1]
    /\ fwd = [p \in Stages |-> 0]
    /\ bwd = [p \in Stages |-> 0]
    /\ inflight = [p \in Stages |-> << >>]
    /\ inbox = [p \in Stages |-> << >>]
    /\ link = [l \in Links |-> << >>]
    /\ sendKnown = [p \in Stages |-> {}]
    /\ recvKnown = [p \in Stages |-> [k \in Keys |-> Unknown]]
    /\ fits = [p \in Stages |-> TRUE]
    /\ passes = [p \in Stages |-> << >>]

IsFirst(p) == p = 0
IsLast(p) == p = P - 1

\* Mutant: one forward too many before the first backward.
WarmupLong(p) == IF sched = "1f1b" /\ P - p < M THEN P - p ELSE M

\* Forwards before the first backward: num_warmup, and all of them in GPipe.
Warmup(p) == IF sched = "1f1b" /\ P - 1 - p < M THEN P - 1 - p ELSE M

\* Mutant: the steady state starts with the backward.
NextOpBackwardFirst(p) ==
    IF fwd[p] < M /\ fwd[p] - bwd[p] < Warmup(p) THEN "forward"
    ELSE IF bwd[p] < M THEN "backward" ELSE "drain"

\* Mutant: one forward more than there are microbatches.
NextOpTooMany(p) ==
    IF fwd[p] <= M /\ fwd[p] - bwd[p] <= Warmup(p) THEN "forward"
    ELSE IF bwd[p] < M THEN "backward" ELSE "drain"

\* The stage's next operation in its step(): warm up, then one forward and
\* one backward in turn, then the backwards left.
NextOp(p) ==
    IF fwd[p] < M /\ fwd[p] - bwd[p] <= Warmup(p) THEN "forward"
    ELSE IF bwd[p] < M THEN "backward" ELSE "drain"

Running(p, op) == step[p] \in Steps /\ NextOp(p) = op

\* The key and the neighbour the stage's next operation receives from.
Source(p) == IF NextOp(p) = "forward" THEN <<p - 1, "act">> ELSE <<p + 1, "grad">>

Receives(p) ==
    \/ Running(p, "forward") /\ ~IsFirst(p)
    \/ Running(p, "backward") /\ ~IsLast(p)

\* The first half of recv: the header of a key not seen before.
RecvHeader(p) ==
    LET q == Source(p)[1]
        key == Source(p)[2]
    IN  /\ Receives(p)
        /\ recvKnown[p][key] = Unknown
        /\ link[<<q, p>>] # << >>
        /\ recvKnown' = [recvKnown EXCEPT ![p][key] = Head(link[<<q, p>>]).shape]
        /\ fits' = [fits EXCEPT ![p] = Head(link[<<q, p>>]).header]
        /\ link' = [link EXCEPT ![<<q, p>>] = Tail(@)]
        /\ UNCHANGED <<config, progress, inbox, sendKnown>>

\* The second half: the payload, into a buffer of the cached shape.
RecvPayload(p) ==
    LET q == Source(p)[1]
        key == Source(p)[2]
        m == Head(link[<<q, p>>])
    IN  /\ Receives(p)
        /\ recvKnown[p][key] # Unknown
        /\ inbox[p] = << >>
        /\ link[<<q, p>>] # << >>
        /\ inbox' = [inbox EXCEPT ![p] = <<m.tag>>]
        /\ fits' = [fits EXCEPT ![p] = ~m.header /\ m.shape = recvKnown[p][key]]
        /\ link' = [link EXCEPT ![<<q, p>>] = Tail(@)]
        /\ UNCHANGED <<config, progress, sendKnown, recvKnown>>

\* Mutant: one cache for both directions.
DescribedShared(p, key) == key \in sendKnown[p] \/ recvKnown[p][key] # Unknown

\* The channel has had its header.
Described(p, key) == key \in sendKnown[p]

\* send: the header if the key is new, then the tensor.
Send(p, q, key, tag) ==
    LET header == [header |-> TRUE, tag |-> tag, shape |-> ShapeOf[tag[1]]]
        tensor == [header EXCEPT !.header = FALSE]
    IN  /\ link' = [link EXCEPT ![<<p, q>>] =
                @ \o (IF Described(p, key) THEN <<tensor>> ELSE <<header, tensor>>)]
        /\ sendKnown' = [sendKnown EXCEPT ![p] = @ \cup {key}]

\* _forward_one
Forward(p) ==
    /\ Running(p, "forward")
    /\ IsFirst(p) \/ inbox[p] # << >>
    /\ LET tag == IF IsFirst(p) THEN <<step[p], fwd[p]>> ELSE inbox[p][1]
       IN  /\ inflight' = [inflight EXCEPT ![p] = Append(@, tag)]
           /\ IF IsLast(p) THEN UNCHANGED <<link, sendKnown>>
              ELSE Send(p, p + 1, "act", tag)
    /\ inbox' = [inbox EXCEPT ![p] = << >>]
    /\ fwd' = [fwd EXCEPT ![p] = @ + 1]
    /\ UNCHANGED <<config, step, bwd, passes, recvKnown, fits>>

\* Mutant: the newest activation in flight is popped.
PoppedLast(q) == q[Len(q)]

\* Mutant: the newest one leaves the list.
LeftFirst(q) == SubSeq(q, 1, Len(q) - 1)

\* self._in_flight.pop(0)
Popped(q) == Head(q)
Left(q) == Tail(q)

\* _backward_one: the last stage starts from its own loss.
Backward(p) ==
    /\ Running(p, "backward")
    /\ inflight[p] # << >>
    /\ IsLast(p) \/ inbox[p] # << >>
    /\ LET act == Popped(inflight[p])
           grad == IF IsLast(p) THEN act ELSE inbox[p][1]
       IN  /\ passes' = [passes EXCEPT ![p] = Append(@, <<act, grad>>)]
           /\ IF IsFirst(p) THEN UNCHANGED <<link, sendKnown>>
              ELSE Send(p, p - 1, "grad", act)
    /\ inflight' = [inflight EXCEPT ![p] = Left(@)]
    /\ inbox' = [inbox EXCEPT ![p] = << >>]
    /\ bwd' = [bwd EXCEPT ![p] = @ + 1]
    /\ UNCHANGED <<config, step, fwd, recvKnown, fits>>

\* drain() waits for the sends of the step; step() returns, and the next
\* call of it starts over.
Drain(p) ==
    /\ Running(p, "drain")
    /\ eager \/ \A l \in Links : l[1] = p => link[l] = << >>
    /\ step' = [step EXCEPT ![p] = @ + 1]
    /\ fwd' = [fwd EXCEPT ![p] = 0]
    /\ bwd' = [bwd EXCEPT ![p] = 0]
    /\ inflight' = [inflight EXCEPT ![p] = << >>]
    /\ passes' = [passes EXCEPT ![p] = << >>]
    /\ UNCHANGED <<config, transport>>

StageStep(p) ==
    \/ RecvHeader(p)
    \/ RecvPayload(p)
    \/ Forward(p)
    \/ Backward(p)
    \/ Drain(p)

Finished == \A p \in Stages : step[p] = NumSteps + 1

Terminating == Finished /\ UNCHANGED vars

Next == (\E p \in Stages : StageStep(p)) \/ Terminating

\* Each stage is a process of its own that runs until a receive blocks it.
Spec == Init /\ [][Next]_vars /\ \A p \in Stages : WF_vars(StageStep(p))

-----------------------------------------------------------------------------
(* Properties *)

\* Every variable has its type.
TypeOK ==
    /\ sched \in {"gpipe", "1f1b"} /\ eager \in BOOLEAN
    /\ step \in [Stages -> 1 .. NumSteps + 1]
    /\ fwd \in [Stages -> 0 .. M] /\ bwd \in [Stages -> 0 .. M]
    /\ inflight \in [Stages -> Seq(Tags)]
    /\ inbox \in [Stages -> Seq(Tags)]
    /\ link \in [Links -> Seq(Messages)]
    /\ sendKnown \in [Stages -> SUBSET Keys]
    /\ recvKnown \in [Stages -> [Keys -> Shapes \cup {Unknown}]]
    /\ fits \in [Stages -> BOOLEAN]
    /\ passes \in [Stages -> Seq(Tags \X Tags)]

\* A stage's activations in flight are, oldest first, those of the
\* microbatches of the current step it has run forward and not yet backward:
\* _forward_one and the transport keep microbatches in order across stages
\* that are in different phases, and even in different steps.
InFlightInOrder ==
    \A p \in Stages :
        /\ Len(inflight[p]) = fwd[p] - bwd[p]
        /\ \A i \in 1 .. Len(inflight[p]) : inflight[p][i] = <<step[p], bwd[p] + i - 1>>

\* Every backward pass of a step combines the activation and the gradient
\* of one microbatch, and the step covers each microbatch once: the pop(0)
\* of _backward_one and the order in which gradients arrive.
BackwardPairs ==
    \A p \in Stages :
        /\ Len(passes[p]) = bwd[p]
        /\ \A i \in 1 .. Len(passes[p]) :
              passes[p][i] = <<<<step[p], i - 1>>, <<step[p], i - 1>>>>

\* The module docstring (pipeline.py:35-41): a 1F1B stage holds at most
\* P - stage_rank activations, and a GPipe stage at most M.
ActivationBound ==
    \A p \in Stages :
        /\ Len(inflight[p]) <= M
        /\ sched = "1f1b" => Len(inflight[p]) <= P - p

\* _P2P (pipeline.py:173-177): the receiver reads a header when a header
\* comes, and receives every tensor into a buffer of the shape it was sent with.
TransportLockstep == \A p \in Stages : fits[p]

\* No stage waits for ever: every stage completes every step, in whichever
\* order the stages run and whether or not a send completes early.
AllStepsEnd == <>Finished
=============================================================================
