--------------------------- MODULE MCTraceAnalysis ---------------------------
(* Small instances of TraceAnalysis for TLC. *)
EXTENDS TraceAnalysis

CONSTANTS
    End     \* the traces end here at the latest

Event(cat, kind, x) == [cat |-> cat, kind |-> kind, begin |-> x[1], end |-> x[2]]

\* Every interval, also the empty ones.
Spans == {x \in (0 .. End) \X (0 .. End) : x[1] <= x[2]}

EventsOf(cat) == {Event(cat, kind, x) : kind \in {"all_reduce", "matmul"}, x \in Spans}

\* A device or a host profile, each with events it leaves aside.
MCProfiles ==
    { EventsOf("kernel") \cup {Event("cpu_op", "matmul", <<0, End>>),
                               Event("gpu_memcpy", "copy", <<0, 1>>)},
      EventsOf("cpu_op") \cup {Event("kernel", "broadcast", <<1, 2>>)} }
=============================================================================
