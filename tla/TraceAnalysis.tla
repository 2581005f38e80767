---------------------------- MODULE TraceAnalysis ----------------------------
(***************************************************************************)
(* analyze_trace of minidist/profiling.py: the communication hidden behind *)
(* computation, from the events of a profiler trace.                       *)
(*                                                                         *)
(* Time is an integer; an event is busy from begin up to, not including,   *)
(* end.  The profiler writes any events; the analysis is one step.  What   *)
(* the report must say is defined on the set of busy instants.             *)
(***************************************************************************)
EXTENDS Integers, Sequences, SequencesExt, FiniteSets

CONSTANTS
    Collectives,    \* the kinds of collective _classify knows
    Profiles,       \* the sets of events a profiler may write
    MaxEvents       \* bound: the events of a trace

\* cat and kind of an event; any kind that is no collective is computation.
IsEvent(e) ==
    /\ e.cat \in {"kernel", "gpu_memcpy", "cpu_op", "user_annotation"}
    /\ e.begin \in Nat /\ e.end \in Nat /\ e.begin <= e.end

ASSUME TraceAnalysisAssumption ==
    MaxEvents \in Nat /\ \A profile \in Profiles : \A e \in profile : IsEvent(e)

VARIABLES
    profile,    \* the events this profiler writes
    prefer,     \* prefer_device
    trace,      \* the events written
    report      \* << >>, then the report of analyze_trace

vars == <<profile, prefer, trace, report>>

-----------------------------------------------------------------------------
(* Lists of intervals <<begin, end>>. *)

\* FoldLeft of the community modules, by a recursion over the length of s.
Fold(op(_, _), base, s) ==
    LET f[k \in 0 .. Len(s)] == IF k = 0 THEN base ELSE op(f[k - 1], s[k])
    IN  f[Len(s)]

\* The elements of s that are in S.
Select(s, S) == FlattenSeq([i \in DOMAIN s |-> IF s[i] \in S THEN <<s[i]>> ELSE << >>])

Before(x, y) == x[1] < y[1] \/ (x[1] = y[1] /\ x[2] < y[2])

\* An interval takes its place behind those that it is not before.
Inserted(sorted, x) ==
    LET later == {y \in Range(sorted) : Before(x, y)}
    IN  Select(sorted, Range(sorted) \ later) \o <<x>> \o Select(sorted, later)

Sorted(intervals) == Fold(Inserted, << >>, intervals)

Larger(x, y) == IF x < y THEN y ELSE x
Smaller(x, y) == IF x < y THEN x ELSE y

\* Mutant: an interval inside the one before it cuts that short.
JoinShort(merged, x) ==
    IF merged # << >> /\ x[1] <= Last(merged)[2]
    THEN [merged EXCEPT ![Len(merged)] = <<@[1], x[2]>>]
    ELSE Append(merged, x)

Join(merged, x) ==
    IF merged # << >> /\ x[1] <= Last(merged)[2]
    THEN [merged EXCEPT ![Len(merged)] = <<@[1], Larger(@[2], x[2])>>]
    ELSE Append(merged, x)

Merge(intervals) == Fold(Join, << >>, Sorted(intervals))

Total(intervals) == Fold(LAMBDA sum, x : sum + (x[2] - x[1]), 0, intervals)

\* Mutant: the interval that ends last is left behind.
FirstEndsLater(x, y) == x[2] > y[2]

\* Which of two intervals the walk of _intersect leaves behind.
FirstEnds(x, y) == x[2] < y[2]

\* A turn of the walk, which has got to a[w.i] and b[w.j]; none after the end
\* of either list.
Walked(a, b, w) ==
    IF w.i > Len(a) \/ w.j > Len(b) THEN w
    ELSE LET x == a[w.i]
             y == b[w.j]
             lo == Larger(x[1], y[1])
             hi == Smaller(x[2], y[2])
         IN  [out |-> IF lo < hi THEN Append(w.out, <<lo, hi>>) ELSE w.out,
              i |-> IF FirstEnds(x, y) THEN w.i + 1 ELSE w.i,
              j |-> IF FirstEnds(x, y) THEN w.j ELSE w.j + 1]

\* Of two merged lists: no more turns than intervals.
Intersect(a, b) ==
    Fold(LAMBDA w, x : Walked(a, b, w), [out |-> << >>, i |-> 1, j |-> 1], a \o b).out

\* The cursor moves past y, an interval of b; one that does not meet x is
\* skipped.
Past(x, s, y) ==
    IF y[2] <= x[1] \/ y[1] >= x[2] THEN s
    ELSE [out |-> IF y[1] > s.cursor THEN Append(s.out, <<s.cursor, y[1]>>) ELSE s.out,
          cursor |-> Larger(s.cursor, y[2])]

\* What is left of x: the cursor moves past one interval of b after another.
Cut(x, b) ==
    LET s == Fold(LAMBDA t, y : Past(x, t, y), [out |-> << >>, cursor |-> x[1]], b)
    IN  IF s.cursor < x[2] THEN Append(s.out, <<s.cursor, x[2]>>) ELSE s.out

\* Of two merged lists.
Subtract(a, b) == FlattenSeq([i \in DOMAIN a |-> Cut(a[i], b)])

-----------------------------------------------------------------------------
(* The analysis. *)

UseDevice == prefer /\ \E e \in Range(trace) : e.cat = "kernel"

PoolCats == IF UseDevice THEN {"kernel"} ELSE {"cpu_op", "user_annotation"}

\* Kernels, or the operators of the host.
Pool == Select(trace, {e \in Range(trace) : e.cat \in PoolCats})

\* When the chosen events of the pool are busy.
Intervals(S) ==
    LET chosen == Select(Pool, S)
    IN  [i \in DOMAIN chosen |-> <<chosen[i].begin, chosen[i].end>>]

IsCollective(e) == e.kind \in Collectives
CommEvents == {e \in Range(Pool) : IsCollective(e)}
OfKind(kind) == {e \in Range(Pool) : e.kind = kind}

\* Mutant: a collective is counted as computation, too.
compute_ivAll == Intervals(Range(Pool))

comm_iv == Intervals(CommEvents)
compute_iv == Intervals(Range(Pool) \ CommEvents)
per_kind(kind) == Intervals(OfKind(kind))

\* Mutant: the host's operators are not freed of the collectives in them.
ComputeBusyNested == Merge(compute_iv)

\* On the host a collective's parents contain it: they are not overlap.
ComputeBusy ==
    IF UseDevice THEN Merge(compute_iv) ELSE Subtract(Merge(compute_iv), Merge(comm_iv))

\* Mutant: up to the end of the event that began last.
WallUnmerged ==
    LET all == Sorted(comm_iv \o compute_iv)
    IN  IF all = << >> THEN 0 ELSE Last(all)[2] - Head(all)[1]

Wall ==
    LET all == Merge(comm_iv \o compute_iv)
    IN  IF all = << >> THEN 0 ELSE Last(all)[2] - Head(all)[1]

Report ==
    [wall_s |-> Wall,
     compute_s |-> Total(ComputeBusy),
     comm_s |-> Total(Merge(comm_iv)),
     overlapped_s |-> Total(Intersect(Merge(comm_iv), ComputeBusy)),
     num_comm_events |-> Len(comm_iv),
     num_compute_events |-> Len(compute_iv),
     per_kind_s |-> [kind \in {e.kind : e \in CommEvents} |->
                        Total(Merge(per_kind(kind)))]]

ExposedComm(r) == Larger(0, r.comm_s - r.overlapped_s)

-----------------------------------------------------------------------------
Init ==
    /\ profile \in Profiles /\ prefer \in BOOLEAN
    /\ trace = << >> /\ report = << >>

\* The profiler writes an event when it has ended.
Record(e) ==
    /\ report = << >> /\ Len(trace) < MaxEvents
    /\ \A f \in Range(trace) : f.end <= e.end
    /\ trace' = Append(trace, e)
    /\ UNCHANGED <<profile, prefer, report>>

Analyze ==
    /\ report = << >>
    /\ report' = <<Report>>
    /\ UNCHANGED <<profile, prefer, trace>>

Terminating == report # << >> /\ UNCHANGED vars

Next == (\E e \in profile : Record(e)) \/ Analyze \/ Terminating

Spec == Init /\ [][Next]_vars

-----------------------------------------------------------------------------
(* Properties *)

\* The instants at which an event of a set is busy.
Busy(S) == UNION {e.begin .. e.end - 1 : e \in S}

BusyComm == Busy(CommEvents)
BusyCompute ==
    LET compute == Busy(Range(Pool) \ CommEvents)
    IN  IF UseDevice THEN compute ELSE compute \ BusyComm

Reported == report # << >>
Said == report[1]

\* The variables have their types; every event of the pool is counted once.
TypeOK ==
    /\ profile \in Profiles /\ prefer \in BOOLEAN
    /\ Len(trace) <= MaxEvents /\ Range(trace) \subseteq profile
    /\ Reported => Said.num_comm_events + Said.num_compute_events = Len(Pool)

\* Busy times count every instant once, however the events of concurrent
\* streams or of nested operators overlap, touch, or are empty: _merge and
\* _subtract against their meaning.
BusyTimesExact ==
    Reported =>
        /\ Said.comm_s = Cardinality(BusyComm)
        /\ Said.compute_s = Cardinality(BusyCompute)
        /\ \A kind \in DOMAIN Said.per_kind_s :
              Said.per_kind_s[kind] = Cardinality(Busy(OfKind(kind)))

\* Overlapped is the time both are busy, and exposed the time communication
\* is with no computation: _intersect, which skips no pair of intervals.
OverlapExact ==
    Reported =>
        /\ Said.overlapped_s = Cardinality(BusyComm \cap BusyCompute)
        /\ ExposedComm(Said) = Cardinality(BusyComm \ BusyCompute)

\* Communication and computation, with the overlap counted once, fit in the
\* wall time: no fraction of the report exceeds one.
FitsInWall ==
    Reported => Said.comm_s + Said.compute_s - Said.overlapped_s <= Said.wall_s
=============================================================================
