----------------------------- MODULE DdpFailure -----------------------------
(***************************************************************************)
(* Ddp when a backward pass raises on every rank (an operator fails, memory*)
(* runs out) and the caller catches it, drops the gradients and goes on.   *)
(*                                                                         *)
(* The engine discards the callbacks queued in a pass that raises, and no  *)
(* code of ddp.py runs: its flags and counters stay as the hooks left them.*)
(***************************************************************************)
EXTENDS Ddp

CONSTANT FailingStep    \* a bound: the step of the program whose pass raises

VARIABLE lost   \* _callback_queued is set for a callback that was discarded

failureVars == <<vars, lost>>

FailureInit == Init /\ lost = [r \in Ranks |-> FALSE]

\* The pass raises between two hooks.
Raise(r) ==
    /\ pc[r] = "backward" /\ step[r] = FailingStep
    /\ todo[r] # {} /\ HookReturned(r)
    /\ todo' = [todo EXCEPT ![r] = {}]
    /\ lost' = [lost EXCEPT ![r] = queued[r]]
    /\ GoTo(r, "idle") /\ NextStep(r)
    /\ UNCHANGED <<program, origin, used, grad, buffer, reducer, calls>>

\* A pass ends while the flag is still set from the one that raised: no
\* hook has queued _finalize_backward, and nobody runs it.
EndUnfinalized(r) ==
    /\ pc[r] = "backward" /\ lost[r]
    /\ todo[r] = {} /\ HookReturned(r)
    /\ GoTo(r, "idle") /\ NextStep(r)
    /\ UNCHANGED <<program, origin, pass, grad, buffer, reducer, calls, lost>>

\* Everything else is as in Ddp.
Unfailing(r) ==
    /\ ~(pc[r] = "backward" /\ todo[r] = {} /\ (lost[r] \/ step[r] = FailingStep))
    /\ RankStep(r)
    /\ UNCHANGED lost

FailureNext ==
    \/ \E r \in Ranks : Raise(r) \/ EndUnfinalized(r) \/ Unfailing(r)
    \/ \E k \in 1 .. MaxCalls : Complete(k) /\ UNCHANGED lost

FailureSpec == FailureInit /\ [][FailureNext]_failureVars

\* A backward pass that returns leaves synchronised gradients, without the
\* caller asking for it: the design goal stated at ddp.py:206-209.
PlainBackwardSyncs ==
    \A r \in Ranks :
        /\ pc[r] = "idle"
        /\ step[r] > FailingStep + 1
        /\ plan[step[r] - 1] = "backward"
        => \A p \in Params : grad[r][p] = ExpectedMean(p, step[r])
=============================================================================
