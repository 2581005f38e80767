------------------------ MODULE TraceAnalysisProofs ------------------------
(***************************************************************************)
(* Proofs about TraceAnalysis, for any profiles, whatever the number of    *)
(* their events and their order, however they overlap: what _merge,        *)
(* _total, _intersect and _subtract compute, and that the report of        *)
(* analyze_trace counts busy instants.  The loops are iterations over a    *)
(* list; each has an invariant, shown for every number of turns.           *)
(***************************************************************************)
EXTENDS TraceAnalysis, SequenceLaws, FiniteSetTheorems

-----------------------------------------------------------------------------
(* Intervals, and iterating. *)

\* The intervals of time.
Spans == {x \in Nat \X Nat : x[1] <= x[2]}

\* The two ends of an interval.
LEMMA SpanFacts ==
    /\ \A x \in Spans : x[1] \in Nat /\ x[2] \in Nat /\ x[1] <= x[2]
    /\ \A p \in Nat : \A q \in Nat : p <= q => /\ <<p, q>> \in Spans
                                                /\ <<p, q>>[1] = p /\ <<p, q>>[2] = q
    BY DEF Spans

\* A function that begins and goes on like an iteration is one.
LEMMA OnlyIteration ==
    ASSUME NEW T, NEW start \in T, NEW next \in [Nat -> [T -> T]], NEW n \in Nat,
           NEW g, g = [k \in 0 .. n |-> g[k]], g[0] = start,
           \A i \in 1 .. n : g[i - 1] \in T => g[i] = next[i][g[i - 1]]
    PROVE  g \in Iterations(T, start, next, n)
    <1>. DEFINE Good == {k \in 0 .. n : g[k] \in T}
    <1>1. 0 \in Good
        OBVIOUS
    <1>2. ASSUME NEW k \in 0 .. n - 1, k \in Good
          PROVE  k + 1 \in Good
        <2>1. k + 1 \in 1 .. n /\ (k + 1) - 1 = k /\ k + 1 \in Nat
            OBVIOUS
        <2>2. g[k] \in T
            BY <1>2
        <2>3. g[k + 1] = next[k + 1][g[k]]
            BY <2>1, <2>2
        <2>. QED
            BY <2>1, <2>2, <2>3
    <1>3. \A k \in 0 .. n : k \in Good
        <2>. HIDE DEF Good
        <2>. QED
            BY <1>1, <1>2, InductionTo
    <1>4. \A k \in 0 .. n : g[k] \in T
        BY <1>3
    <1>5. g \in [0 .. n -> T]
        BY <1>4
    <1>6. \A i \in 1 .. n : g[i] = next[i][g[i - 1]]
        <2>. TAKE i \in 1 .. n
        <2>1. i - 1 \in 0 .. n
            OBVIOUS
        <2>. QED
            BY <1>4, <2>1
    <1>. QED
        BY <1>5, <1>6 DEF Iterations

-----------------------------------------------------------------------------
(* What is selected of a sequence. *)

\* Select keeps what Only keeps.
LEMMA SelectIsOnly ==
    ASSUME NEW S, NEW s \in Seq(S), NEW R
    PROVE  Select(s, R) = Only(s, R)
    <1>1. DOMAIN s = 1 .. Len(s)
        OBVIOUS
    <1>. QED
        BY <1>1 DEF Select, Only, Kept

\* The range of a sequence with one element more.
LEMMA RangeAppend ==
    ASSUME NEW S, NEW s \in Seq(S), NEW x \in S
    PROVE  Range(Append(s, x)) = Range(s) \cup {x}
    <1>1. /\ DOMAIN s = 1 .. Len(s) /\ Len(s) \in Nat
          /\ DOMAIN Append(s, x) = 1 .. Len(s) + 1
          /\ \A i \in 1 .. Len(s) : Append(s, x)[i] = s[i]
          /\ Append(s, x)[Len(s) + 1] = x
        OBVIOUS
    <1>2. \A y : y \in Range(Append(s, x)) <=> \E i \in 1 .. Len(s) + 1 : y = Append(s, x)[i]
        BY <1>1 DEF Range
    <1>3. \A y : y \in Range(s) <=> \E i \in 1 .. Len(s) : y = s[i]
        BY <1>1 DEF Range
    <1>4. \A i \in 1 .. Len(s) + 1 : i \in 1 .. Len(s) \/ i = Len(s) + 1
        BY <1>1
    <1>5. Len(s) + 1 \in 1 .. Len(s) + 1 /\ \A i \in 1 .. Len(s) : i \in 1 .. Len(s) + 1
        BY <1>1
    <1>. QED
        BY <1>1, <1>2, <1>3, <1>4, <1>5

\* The range of a concatenation.
LEMMA RangeConcat ==
    ASSUME NEW S, NEW s \in Seq(S), NEW t \in Seq(S)
    PROVE  Range(s \o t) = Range(s) \cup Range(t)
    <1>1. /\ DOMAIN s = 1 .. Len(s) /\ Len(s) \in Nat /\ DOMAIN t = 1 .. Len(t) /\ Len(t) \in Nat
          /\ DOMAIN (s \o t) = 1 .. Len(s) + Len(t)
          /\ \A i \in 1 .. Len(s) + Len(t) : (s \o t)[i] = IF i <= Len(s) THEN s[i] ELSE t[i - Len(s)]
        OBVIOUS
    <1>. DEFINE m == Len(s)
                n == Len(t)
                u == s \o t
    <1>2. ASSUME NEW y \in Range(u) PROVE y \in Range(s) \cup Range(t)
        <2>1. PICK i \in 1 .. m + n : y = u[i]
            BY <1>1 DEF Range
        <2>2. CASE i <= m
            BY <1>1, <2>1, <2>2 DEF Range
        <2>3. CASE ~(i <= m)
            <3>1. i - m \in 1 .. n
                BY <1>1, <2>3
            <3>2. y = t[i - m]
                BY <1>1, <2>1, <2>3
            <3>. QED
                BY <1>1, <3>1, <3>2 DEF Range
        <2>. QED
            BY <2>2, <2>3
    <1>3. ASSUME NEW y \in Range(s) PROVE y \in Range(u)
        <2>1. PICK i \in 1 .. m : y = s[i]
            BY <1>1 DEF Range
        <2>2. i \in 1 .. m + n /\ u[i] = s[i]
            BY <1>1
        <2>. QED
            BY <1>1, <2>1, <2>2 DEF Range
    <1>4. ASSUME NEW y \in Range(t) PROVE y \in Range(u)
        <2>1. PICK i \in 1 .. n : y = t[i]
            BY <1>1 DEF Range
        <2>2. m + i \in 1 .. m + n /\ ~(m + i <= m) /\ (m + i) - m = i
            BY <1>1
        <2>3. u[m + i] = t[i]
            BY <1>1, <2>2
        <2>. QED
            BY <1>1, <2>1, <2>2, <2>3 DEF Range
    <1>. QED
        BY <1>2, <1>3, <1>4

\* The range of what is kept.
LEMMA OnlyRange ==
    ASSUME NEW S, NEW s \in Seq(S), NEW R
    PROVE  Range(Only(s, R)) = Range(s) \cap R
    <1>. DEFINE Good == {t \in Seq(S) : Range(Only(t, R)) = Range(t) \cap R}
    <1>1. << >> \in Good
        <2>1. Only(<< >>, R) = << >> /\ << >> \in Seq(S)
            BY OnlyEmpty
        <2>2. Range(<< >>) = {}
            BY DEF Range
        <2>. QED
            BY <2>1, <2>2
    <1>2. ASSUME NEW t \in Seq(S), NEW x \in S, t \in Good
          PROVE  Append(t, x) \in Good
        <2>1. Range(Append(t, x)) = Range(t) \cup {x} /\ Append(t, x) \in Seq(S)
            BY RangeAppend
        <2>2. Only(t, R) \in Seq(S \cap R)
            BY OnlyType
        <2>3. Range(Only(t, R)) = Range(t) \cap R
            BY <1>2
        <2>4. CASE x \in R
            <3>1. Only(Append(t, x), R) = Append(Only(t, R), x)
                BY <2>4, OnlyAppend
            <3>2. Range(Append(Only(t, R), x)) = Range(Only(t, R)) \cup {x}
                BY <2>2, <2>4, RangeAppend
            <3>. QED
                BY <2>1, <2>3, <2>4, <3>1, <3>2
        <2>5. CASE x \notin R
            <3>1. Only(Append(t, x), R) = Only(t, R)
                BY <2>5, OnlyAppend
            <3>. QED
                BY <2>1, <2>3, <2>5, <3>1
        <2>. QED
            BY <2>4, <2>5
    <1>3. Good \in SUBSET Seq(S)
        OBVIOUS
    <1>4. s \in Good
        <2>. HIDE DEF Good
        <2>. QED
            BY <1>1, <1>2, <1>3, SequenceInduction
    <1>. QED
        BY <1>4

\* Two sets that share nothing and leave nothing out count every element once.
LEMMA TallyBoth ==
    ASSUME NEW S, NEW s \in Seq(S), NEW R, NEW Q, S \subseteq R \cup Q, S \cap R \cap Q = {}
    PROVE  Tally(s, R) + Tally(s, Q) = Len(s)
    <1>. DEFINE Good == {t \in Seq(S) : Tally(t, R) + Tally(t, Q) = Len(t)}
    <1>1. << >> \in Good
        BY TallyEmpty
    <1>2. ASSUME NEW t \in Seq(S), NEW x \in S, t \in Good
          PROVE  Append(t, x) \in Good
        <2>1. /\ Append(t, x) = t \o <<x>> /\ Append(t, x) \in Seq(S)
              /\ Len(Append(t, x)) = Len(t) + 1 /\ <<x>> \in Seq(S) /\ Len(t) \in Nat
            OBVIOUS
        <2>2. \A W : Tally(t \o <<x>>, W) = Tally(t, W) + Tally(<<x>>, W)
            <3>1. <<x>> \in Seq(S)
                OBVIOUS
            <3>. QED
                BY <3>1, TallyConcat
        <2>3. /\ Tally(<<x>>, R) = (IF x \in R THEN 1 ELSE 0)
              /\ Tally(<<x>>, Q) = (IF x \in Q THEN 1 ELSE 0)
            BY TallyOne
        <2>4. Tally(t, R) \in Nat /\ Tally(t, Q) \in Nat
            BY TallyType
        <2>5. Tally(t, R) + Tally(t, Q) = Len(t)
            BY <1>2
        <2>6. Tally(<<x>>, R) + Tally(<<x>>, Q) = 1
            BY <2>3
        <2>7. Tally(<<x>>, R) \in Nat /\ Tally(<<x>>, Q) \in Nat
            BY <2>3
        <2>. DEFINE p == Tally(t, R)
                    q == Tally(t, Q)
                    u == Tally(<<x>>, R)
                    v == Tally(<<x>>, Q)
                    y == Append(t, x)
        <2>8. Tally(y, R) = p + u /\ Tally(y, Q) = q + v
            BY <2>1, <2>2
        <2>9. p \in Nat /\ q \in Nat /\ u \in Nat /\ v \in Nat /\ p + q = Len(t) /\ u + v = 1
            BY <2>4, <2>5, <2>6, <2>7
        <2>10. y \in Seq(S) /\ Len(y) = Len(t) + 1 /\ Len(t) \in Nat
            BY <2>1
        <2>. HIDE DEF p, q, u, v, y
        <2>11. Tally(y, R) + Tally(y, Q) = Len(y)
            BY <2>8, <2>9, <2>10
        <2>12. y \in Good
            BY <2>10, <2>11
        <2>. QED
            BY <2>12 DEF y
    <1>3. Good \in SUBSET Seq(S)
        OBVIOUS
    <1>4. s \in Good
        <2>. HIDE DEF Good
        <2>. QED
            BY <1>1, <1>2, <1>3, SequenceInduction
    <1>. QED
        BY <1>4

-----------------------------------------------------------------------------
(* Sorting. *)

\* In the order of their beginnings.
Ordered(s) == \A i, j \in DOMAIN s : i < j => s[i][1] <= s[j][1]

\* Intervals of S that are in order.
OrderedSeq(S) == {s \in Seq(S) : Ordered(s)}

\* Two ordered lists, one before the other.
LEMMA OrderedConcat ==
    ASSUME NEW s \in OrderedSeq(Spans), NEW t \in OrderedSeq(Spans),
           \A x \in Range(s) : \A y \in Range(t) : x[1] <= y[1]
    PROVE  s \o t \in OrderedSeq(Spans)
    <1>1. /\ s \in Seq(Spans) /\ t \in Seq(Spans) /\ Ordered(s) /\ Ordered(t)
        BY DEF OrderedSeq
    <1>2. /\ DOMAIN s = 1 .. Len(s) /\ Len(s) \in Nat /\ DOMAIN t = 1 .. Len(t) /\ Len(t) \in Nat
          /\ DOMAIN (s \o t) = 1 .. Len(s) + Len(t) /\ s \o t \in Seq(Spans)
          /\ \A i \in 1 .. Len(s) + Len(t) : (s \o t)[i] = IF i <= Len(s) THEN s[i] ELSE t[i - Len(s)]
        BY <1>1
    <1>. DEFINE m == Len(s)
                n == Len(t)
                u == s \o t
    <1>3. ASSUME NEW i \in 1 .. m + n, NEW j \in 1 .. m + n, i < j
          PROVE  u[i][1] <= u[j][1]
        <2>1. CASE j <= m
            <3>1. i \in DOMAIN s /\ j \in DOMAIN s /\ u[i] = s[i] /\ u[j] = s[j]
                BY <1>2, <1>3, <2>1
            <3>. QED
                BY <1>1, <1>3, <3>1 DEF Ordered
        <2>2. CASE i <= m /\ ~(j <= m)
            <3>1. i \in DOMAIN s /\ j - m \in DOMAIN t /\ u[i] = s[i] /\ u[j] = t[j - m]
                BY <1>2, <1>3, <2>2
            <3>2. s[i] \in Range(s) /\ t[j - m] \in Range(t)
                BY <3>1 DEF Range
            <3>. QED
                BY <3>1, <3>2
        <2>3. CASE ~(i <= m)
            <3>1. /\ i - m \in DOMAIN t /\ j - m \in DOMAIN t /\ i - m < j - m
                  /\ u[i] = t[i - m] /\ u[j] = t[j - m]
                BY <1>2, <1>3, <2>3
            <3>. QED
                BY <1>1, <3>1 DEF Ordered
        <2>. QED
            BY <1>2, <1>3, <2>1, <2>2, <2>3
    <1>4. Ordered(u)
        BY <1>2, <1>3 DEF Ordered
    <1>. QED
        BY <1>2, <1>4 DEF OrderedSeq

\* A list of one interval is ordered.
LEMMA OneOrdered ==
    ASSUME NEW x \in Spans
    PROVE  <<x>> \in OrderedSeq(Spans) /\ Range(<<x>>) = {x}
    BY DEF OrderedSeq, Ordered, Range

\* Part of an ordered list is ordered.
LEMMA OnlyOrdered ==
    ASSUME NEW s \in OrderedSeq(Spans), NEW R
    PROVE  Only(s, R) \in OrderedSeq(Spans)
    <1>. DEFINE Good == {t \in Seq(Spans) : Ordered(t) => Only(t, R) \in OrderedSeq(Spans)}
    <1>1. << >> \in Good
        <2>1. Only(<< >>, R) = << >> /\ << >> \in Seq(Spans)
            BY OnlyEmpty
        <2>2. << >> \in OrderedSeq(Spans)
            BY <2>1 DEF OrderedSeq, Ordered
        <2>. QED
            BY <2>1, <2>2
    <1>2. ASSUME NEW t \in Seq(Spans), NEW x \in Spans, t \in Good
          PROVE  Append(t, x) \in Good
        <2>1. /\ DOMAIN t = 1 .. Len(t) /\ Len(t) \in Nat /\ Append(t, x) \in Seq(Spans)
              /\ DOMAIN Append(t, x) = 1 .. Len(t) + 1
              /\ \A i \in 1 .. Len(t) : Append(t, x)[i] = t[i]
              /\ Append(t, x)[Len(t) + 1] = x
            OBVIOUS
        <2>. SUFFICES ASSUME Ordered(Append(t, x))
                      PROVE  Only(Append(t, x), R) \in OrderedSeq(Spans)
            BY <2>1
        <2>2. \A i, j \in 1 .. Len(t) + 1 : i < j => Append(t, x)[i][1] <= Append(t, x)[j][1]
            BY <2>1 DEF Ordered
        <2>3. Ordered(t)
            <3>1. ASSUME NEW i \in 1 .. Len(t), NEW j \in 1 .. Len(t), i < j
                  PROVE  t[i][1] <= t[j][1]
                <4>1. i \in 1 .. Len(t) + 1 /\ j \in 1 .. Len(t) + 1
                    BY <2>1
                <4>. QED
                    BY <2>1, <2>2, <3>1, <4>1
            <3>. QED
                BY <2>1, <3>1 DEF Ordered
        <2>4. \A y \in Range(t) : y[1] <= x[1]
            <3>. TAKE y \in Range(t)
            <3>1. PICK i \in 1 .. Len(t) : y = t[i]
                BY <2>1 DEF Range
            <3>2. i \in 1 .. Len(t) + 1 /\ Len(t) + 1 \in 1 .. Len(t) + 1 /\ i < Len(t) + 1
                BY <2>1
            <3>3. Append(t, x)[i][1] <= Append(t, x)[Len(t) + 1][1]
                BY <2>2, <3>2
            <3>. QED
                BY <2>1, <3>1, <3>3
        <2>5. Only(t, R) \in OrderedSeq(Spans)
            BY <1>2, <2>3
        <2>6. CASE x \notin R
            <3>1. Only(Append(t, x), R) = Only(t, R)
                BY <2>6, OnlyAppend
            <3>. QED
                BY <2>5, <3>1
        <2>7. CASE x \in R
            <3>1. Only(Append(t, x), R) = Append(Only(t, R), x)
                BY <2>7, OnlyAppend
            <3>2. Range(Only(t, R)) = Range(t) \cap R
                BY OnlyRange
            <3>3. Only(t, R) \o <<x>> \in OrderedSeq(Spans)
                <4>1. \A y \in Range(Only(t, R)) : \A z \in Range(<<x>>) : y[1] <= z[1]
                    BY <2>4, <3>2, OneOrdered
                <4>. QED
                    BY <2>5, <4>1, OneOrdered, OrderedConcat
            <3>4. Only(t, R) \in Seq(Spans)
                BY <2>5 DEF OrderedSeq
            <3>5. Append(Only(t, R), x) = Only(t, R) \o <<x>>
                BY <3>4
            <3>. QED
                BY <3>1, <3>3, <3>5
        <2>. QED
            BY <2>6, <2>7
    <1>3. Good \in SUBSET Seq(Spans)
        OBVIOUS
    <1>4. s \in Seq(Spans) /\ Ordered(s)
        BY DEF OrderedSeq
    <1>5. s \in Good
        <2>. HIDE DEF Good
        <2>. QED
            BY <1>1, <1>2, <1>3, <1>4, SequenceInduction
    <1>. QED
        BY <1>4, <1>5

\* An interval takes its place.
LEMMA InsertedFacts ==
    ASSUME NEW s \in OrderedSeq(Spans), NEW x \in Spans
    PROVE  /\ Inserted(s, x) \in OrderedSeq(Spans)
           /\ Range(Inserted(s, x)) = Range(s) \cup {x}
    <1>. DEFINE later == {y \in Range(s) : Before(x, y)}
                a == Only(s, Range(s) \ later)
                b == Only(s, later)
    <1>1. s \in Seq(Spans)
        BY DEF OrderedSeq
    <1>2. Inserted(s, x) = (a \o <<x>>) \o b
        <2>1. Select(s, Range(s) \ later) = a /\ Select(s, later) = b
            BY <1>1, SelectIsOnly
        <2>. QED
            BY <2>1 DEF Inserted
    <1>3. a \in OrderedSeq(Spans) /\ b \in OrderedSeq(Spans)
        BY OnlyOrdered
    <1>4. Range(a) = Range(s) \cap (Range(s) \ later) /\ Range(b) = Range(s) \cap later
        BY <1>1, OnlyRange
    <1>5. Range(s) \subseteq Spans
        BY <1>1 DEF Range
    <1>6. \A y \in Range(s) \ later : y[1] <= x[1]
        BY <1>5, SpanFacts DEF Before
    <1>7. \A y \in later : x[1] <= y[1]
        BY <1>5, SpanFacts DEF Before
    <1>8. /\ Range(a) \subseteq Spans /\ \A y \in Range(a) : y[1] <= x[1]
          /\ \A y \in Range(b) : x[1] <= y[1]
          /\ Range(a) \cup Range(b) = Range(s)
        BY <1>4, <1>5, <1>6, <1>7
    <1>9. Range(b) \subseteq Spans
        BY <1>4, <1>5
    <1>. HIDE DEF a, b, later
    <1>10. a \in Seq(Spans) /\ b \in Seq(Spans) /\ <<x>> \in Seq(Spans)
        BY <1>3 DEF OrderedSeq
    <1>. DEFINE c == a \o <<x>>
    <1>11. c \in OrderedSeq(Spans)
        <2>1. <<x>> \in OrderedSeq(Spans) /\ \A y \in Range(a) : \A z \in Range(<<x>>) : y[1] <= z[1]
            BY <1>8, OneOrdered
        <2>. QED
            BY <1>3, <2>1, OrderedConcat
    <1>12. Range(c) = Range(a) \cup {x}
        <2>1. Range(a \o <<x>>) = Range(a) \cup Range(<<x>>)
            BY <1>10, RangeConcat
        <2>. QED
            BY <2>1, OneOrdered
    <1>13. c \in Seq(Spans)
        BY <1>11 DEF OrderedSeq
    <1>14. ASSUME NEW y \in Range(c), NEW z \in Range(b)
           PROVE  y[1] <= z[1]
        <2>1. y[1] <= x[1] /\ x[1] <= z[1] /\ y \in Spans /\ z \in Spans
            BY <1>8, <1>9, <1>12, SpanFacts
        <2>2. y[1] \in Nat /\ z[1] \in Nat /\ x[1] \in Nat
            BY <2>1, SpanFacts
        <2>. QED
            BY <2>1, <2>2
    <1>. HIDE DEF c
    <1>15. c \o b \in OrderedSeq(Spans)
        BY <1>3, <1>11, <1>14, OrderedConcat
    <1>16. Range(c \o b) = Range(c) \cup Range(b)
        BY <1>10, <1>13, RangeConcat
    <1>17. Range(c \o b) = Range(s) \cup {x}
        BY <1>8, <1>12, <1>16
    <1>. QED
        BY <1>2, <1>15, <1>17 DEF c

\* The steps of sorting s.
SortSteps(s) ==
    [i \in Nat |-> [t \in OrderedSeq(Spans) |-> IF i \in 1 .. Len(s) THEN Inserted(t, s[i]) ELSE t]]

\* Each of them takes an ordered list to an ordered list.
LEMMA SortStepsType ==
    ASSUME NEW s \in Seq(Spans)
    PROVE  /\ SortSteps(s) \in [Nat -> [OrderedSeq(Spans) -> OrderedSeq(Spans)]]
           /\ << >> \in OrderedSeq(Spans)
           /\ \A i \in 1 .. Len(s) : \A t \in OrderedSeq(Spans) : SortSteps(s)[i][t] = Inserted(t, s[i])
    <1>1. ASSUME NEW i \in 1 .. Len(s), NEW t \in OrderedSeq(Spans)
          PROVE  Inserted(t, s[i]) \in OrderedSeq(Spans)
        <2>1. s[i] \in Spans
            OBVIOUS
        <2>. QED
            BY <2>1, InsertedFacts
    <1>2. << >> \in OrderedSeq(Spans)
        BY DEF OrderedSeq, Ordered
    <1>. QED
        BY <1>1, <1>2 DEF SortSteps

\* Sorting is their iteration.
LEMMA SortIterates ==
    ASSUME NEW s \in Seq(Spans)
    PROVE  \E g : g \in Iterations(OrderedSeq(Spans), << >>, SortSteps(s), Len(s)) /\ Sorted(s) = g[Len(s)]
    <1>. DEFINE n == Len(s)
                T == OrderedSeq(Spans)
                next == SortSteps(s)
                Step(h) == [k \in 0 .. n |-> IF k = 0 THEN << >> ELSE Inserted(h[k - 1], s[k])]
                g == CHOOSE h : h = Step(h)
    <1>1. /\ next \in [Nat -> [T -> T]] /\ << >> \in T /\ n \in Nat
          /\ \A i \in 1 .. n : \A t \in T : next[i][t] = Inserted(t, s[i])
        BY SortStepsType
    <1>2. Sorted(s) = g[n]
        BY DEF Sorted, Fold
    <1>. HIDE DEF n, T, next
    <1>3. PICK k : k \in Iterations(T, << >>, next, n)
        BY <1>1, Iterate
    <1>4. k \in [0 .. n -> T] /\ k[0] = << >> /\ \A i \in 1 .. n : k[i] = next[i][k[i - 1]]
        BY <1>3 DEF Iterations
    <1>5. k = Step(k)
        <2>1. \A i \in 0 .. n : k[i] = IF i = 0 THEN << >> ELSE Inserted(k[i - 1], s[i])
            <3>. TAKE i \in 0 .. n
            <3>1. i # 0 => i \in 1 .. n /\ k[i - 1] \in T
                BY <1>1, <1>4
            <3>. QED
                BY <1>1, <1>4, <3>1
        <2>2. k = [i \in 0 .. n |-> k[i]]
            BY <1>4
        <2>. QED
            BY <2>1, <2>2
    <1>6. g = Step(g)
        <2>. HIDE DEF Step
        <2>. QED
            BY <1>5
    <1>. HIDE DEF g
    <1>7. /\ g = [i \in 0 .. n |-> g[i]] /\ g[0] = << >>
          /\ \A i \in 1 .. n : g[i] = Inserted(g[i - 1], s[i])
        <2>1. \A i \in 0 .. n : Step(g)[i] = IF i = 0 THEN << >> ELSE Inserted(g[i - 1], s[i])
            OBVIOUS
        <2>2. Step(g) = [i \in 0 .. n |-> Step(g)[i]]
            OBVIOUS
        <2>3. 0 \in 0 .. n /\ \A i \in 1 .. n : i \in 0 .. n /\ i # 0
            BY <1>1
        <2>. HIDE DEF Step
        <2>. QED
            BY <1>6, <2>1, <2>2, <2>3
    <1>8. g \in Iterations(T, << >>, next, n)
        <2>1. \A i \in 1 .. n : g[i - 1] \in T => g[i] = next[i][g[i - 1]]
            BY <1>1, <1>7
        <2>. QED
            BY <1>1, <1>7, <2>1, OnlyIteration
    <1>. QED
        BY <1>2, <1>8 DEF n, T, next

\* The first k intervals of a list.
FirstOnes(s, k) == {s[i] : i \in 1 .. k}

\* All of them.
LEMMA AllOnes ==
    ASSUME NEW S, NEW s \in Seq(S)
    PROVE  /\ FirstOnes(s, 0) = {} /\ FirstOnes(s, Len(s)) = Range(s)
           /\ \A k \in 0 .. Len(s) - 1 : FirstOnes(s, k + 1) = FirstOnes(s, k) \cup {s[k + 1]}
    <1>1. DOMAIN s = 1 .. Len(s) /\ Len(s) \in Nat
        OBVIOUS
    <1>2. FirstOnes(s, Len(s)) = Range(s)
        BY <1>1 DEF FirstOnes, Range
    <1>3. FirstOnes(s, 0) = {}
        BY DEF FirstOnes
    <1>4. ASSUME NEW k \in 0 .. Len(s) - 1
          PROVE  FirstOnes(s, k + 1) = FirstOnes(s, k) \cup {s[k + 1]}
        <2>1. \A i : i \in 1 .. k + 1 <=> i \in 1 .. k \/ i = k + 1
            BY <1>1
        <2>. QED
            BY <2>1 DEF FirstOnes
    <1>. QED
        BY <1>2, <1>3, <1>4

\* A sorted list is in order and holds the same intervals.
LEMMA SortedFacts ==
    ASSUME NEW s \in Seq(Spans)
    PROVE  Sorted(s) \in OrderedSeq(Spans) /\ Range(Sorted(s)) = Range(s)
    <1>. DEFINE n == Len(s)
    <1>1. PICK g : g \in Iterations(OrderedSeq(Spans), << >>, SortSteps(s), n) /\ Sorted(s) = g[n]
        BY SortIterates
    <1>2. /\ g \in [0 .. n -> OrderedSeq(Spans)] /\ g[0] = << >>
          /\ \A i \in 1 .. n : g[i] = SortSteps(s)[i][g[i - 1]]
        BY <1>1 DEF Iterations
    <1>3. n \in Nat
        OBVIOUS
    <1>. DEFINE Good == {k \in 0 .. n : Range(g[k]) = FirstOnes(s, k)}
    <1>4. 0 \in Good
        BY <1>2, <1>3, AllOnes DEF Range
    <1>5. ASSUME NEW k \in 0 .. n - 1, k \in Good
          PROVE  k + 1 \in Good
        <2>1. k + 1 \in 1 .. n /\ (k + 1) - 1 = k /\ s[k + 1] \in Spans /\ g[k] \in OrderedSeq(Spans)
            BY <1>2, <1>3
        <2>2. g[k + 1] = Inserted(g[k], s[k + 1])
            <3>1. g[k + 1] = SortSteps(s)[k + 1][g[k]]
                BY <1>2, <2>1
            <3>2. SortSteps(s)[k + 1][g[k]] = Inserted(g[k], s[k + 1])
                BY <2>1, SortStepsType
            <3>. QED
                BY <3>1, <3>2
        <2>3. Range(Inserted(g[k], s[k + 1])) = Range(g[k]) \cup {s[k + 1]}
            BY <2>1, InsertedFacts
        <2>4. FirstOnes(s, k + 1) = FirstOnes(s, k) \cup {s[k + 1]}
            BY AllOnes
        <2>5. Range(g[k]) = FirstOnes(s, k)
            BY <1>5
        <2>6. k + 1 \in 0 .. n
            BY <1>3, <2>1
        <2>7. Range(g[k + 1]) = FirstOnes(s, k + 1)
            BY <2>2, <2>3, <2>4, <2>5
        <2>. QED
            BY <2>6, <2>7
    <1>6. n \in Good
        <2>. HIDE DEF Good
        <2>1. \A k \in 0 .. n : k \in Good
            BY <1>3, <1>4, <1>5, InductionTo
        <2>. QED
            BY <1>3, <2>1
    <1>7. Range(Sorted(s)) = Range(s)
        BY <1>1, <1>6, AllOnes
    <1>. QED
        BY <1>1, <1>2, <1>3, <1>7

-----------------------------------------------------------------------------
(* Merging. *)

\* The instants of an interval, and of a set of intervals.
During(x) == x[1] .. x[2] - 1
Instants(S) == UNION {During(x) : x \in S}

\* The instants of no interval, of one, and of two sets.
LEMMA InstantsOfAll ==
    /\ Instants({}) = {}
    /\ \A x : Instants({x}) = During(x)
    /\ \A S, T : Instants(S \cup T) = Instants(S) \cup Instants(T)
    BY DEF Instants

\* Intervals in a row that share no instant.
Separated(s) == \A i, j \in DOMAIN s : i < j => s[i][2] <= s[j][1]
Rows == {s \in Seq(Spans) : Separated(s)}

\* A row of intervals that goes on.
LEMMA RowAppend ==
    ASSUME NEW s \in Rows, NEW x \in Spans, \A y \in Range(s) : y[2] <= x[1]
    PROVE  Append(s, x) \in Rows
    <1>1. s \in Seq(Spans) /\ Separated(s)
        BY DEF Rows
    <1>2. /\ DOMAIN s = 1 .. Len(s) /\ Len(s) \in Nat /\ Append(s, x) \in Seq(Spans)
          /\ DOMAIN Append(s, x) = 1 .. Len(s) + 1
          /\ \A i \in 1 .. Len(s) : Append(s, x)[i] = s[i]
          /\ Append(s, x)[Len(s) + 1] = x
        BY <1>1
    <1>. DEFINE t == Append(s, x)
    <1>3. ASSUME NEW i \in 1 .. Len(s) + 1, NEW j \in 1 .. Len(s) + 1, i < j
          PROVE  t[i][2] <= t[j][1]
        <2>1. i \in 1 .. Len(s)
            BY <1>2, <1>3
        <2>2. CASE j \in 1 .. Len(s)
            <3>1. t[i] = s[i] /\ t[j] = s[j] /\ i \in DOMAIN s /\ j \in DOMAIN s
                BY <1>2, <2>1, <2>2
            <3>. QED
                BY <1>1, <1>3, <3>1 DEF Separated
        <2>3. CASE j = Len(s) + 1
            <3>1. t[i] = s[i] /\ t[j] = x /\ i \in DOMAIN s
                BY <1>2, <2>1, <2>3
            <3>2. s[i] \in Range(s)
                BY <3>1 DEF Range
            <3>. QED
                BY <3>1, <3>2
        <2>. QED
            BY <1>2, <2>2, <2>3
    <1>4. Separated(t)
        BY <1>2, <1>3 DEF Separated
    <1>. QED
        BY <1>2, <1>4 DEF Rows

\* The last interval of a row ends last.
LEMMA LastOfRow ==
    ASSUME NEW s \in Rows, s # << >>
    PROVE  /\ Len(s) \in DOMAIN s /\ Last(s) = s[Len(s)] /\ Last(s) \in Spans /\ Last(s) \in Range(s)
           /\ \A i \in DOMAIN s : s[i][2] <= Last(s)[2]
           /\ \A i \in DOMAIN s : i # Len(s) => s[i][2] <= Last(s)[1]
    <1>1. s \in Seq(Spans) /\ Separated(s)
        BY DEF Rows
    <1>2. DOMAIN s = 1 .. Len(s) /\ Len(s) \in Nat /\ Len(s) # 0
        BY <1>1
    <1>3. Len(s) \in DOMAIN s /\ Last(s) = s[Len(s)]
        BY <1>2 DEF Last
    <1>4. Last(s) \in Spans /\ Last(s) \in Range(s)
        BY <1>1, <1>3 DEF Range
    <1>5. \A i \in DOMAIN s : i # Len(s) => s[i][2] <= Last(s)[1]
        <2>. SUFFICES ASSUME NEW i \in DOMAIN s, i # Len(s)
                      PROVE  s[i][2] <= Last(s)[1]
            OBVIOUS
        <2>1. i < Len(s)
            BY <1>2
        <2>. QED
            BY <1>1, <1>3, <2>1 DEF Separated
    <1>6. \A i \in DOMAIN s : s[i][2] <= Last(s)[2]
        <2>. SUFFICES ASSUME NEW i \in DOMAIN s
                      PROVE  s[i][2] <= Last(s)[2]
            OBVIOUS
        <2>1. s[i] \in Spans
            BY <1>1
        <2>2. s[i][2] \in Nat /\ Last(s)[1] \in Nat /\ Last(s)[2] \in Nat /\ Last(s)[1] <= Last(s)[2]
            BY <1>4, <2>1, SpanFacts
        <2>3. i # Len(s) => s[i][2] <= Last(s)[1]
            BY <1>5
        <2>4. i = Len(s) => s[i][2] = Last(s)[2]
            BY <1>3
        <2>. QED
            BY <2>2, <2>3, <2>4
    <1>. QED
        BY <1>3, <1>4, <1>5, <1>6

\* Joining an interval that begins no earlier than the last one.
LEMMA JoinFacts ==
    ASSUME NEW m \in Rows, NEW x \in Spans, m # << >> => Last(m)[1] <= x[1]
    PROVE  /\ Join(m, x) \in Rows /\ Join(m, x) # << >> /\ Last(Join(m, x))[1] <= x[1]
           /\ Instants(Range(Join(m, x))) = Instants(Range(m)) \cup During(x)
    <1>. DEFINE n == Len(m)
                y == Last(m)
    <1>1. /\ m \in Seq(Spans) /\ Separated(m) /\ n \in Nat /\ DOMAIN m = 1 .. n
        BY DEF Rows
    <1>2. x[1] \in Nat /\ x[2] \in Nat /\ x[1] <= x[2]
        BY SpanFacts
    <1>3. CASE m # << >> /\ x[1] <= y[2]
        <2>. DEFINE z == <<y[1], Larger(y[2], x[2])>>
                    t == [m EXCEPT ![n] = z]
        <2>1. /\ n \in DOMAIN m /\ y = m[n] /\ y \in Spans /\ y \in Range(m)
              /\ \A i \in DOMAIN m : i # n => m[i][2] <= y[1]
            BY <1>3, LastOfRow
        <2>2. y[1] \in Nat /\ y[2] \in Nat /\ y[1] <= y[2] /\ y[1] <= x[1]
            BY <1>3, <2>1, SpanFacts
        <2>3. z \in Spans /\ z[1] = y[1] /\ z[2] = Larger(y[2], x[2]) /\ y[2] <= z[2] /\ z[2] \in Nat
            <3>1. Larger(y[2], x[2]) \in Nat /\ y[2] <= Larger(y[2], x[2]) /\ y[1] <= Larger(y[2], x[2])
                BY <1>2, <2>2 DEF Larger
            <3>. QED
                BY <2>2, <3>1, SpanFacts
        <2>4. Join(m, x) = t
            <3>1. [m EXCEPT ![n] = <<@[1], Larger(@[2], x[2])>>] = t
                BY <2>1
            <3>. QED
                BY <1>3, <3>1 DEF Join
        <2>. HIDE DEF y, z
        <2>5. /\ t \in Seq(Spans) /\ Len(t) = n /\ DOMAIN t = 1 .. n /\ t[n] = z
              /\ \A i \in 1 .. n : i # n => t[i] = m[i]
            BY <1>1, <2>1, <2>3
        <2>. HIDE DEF t
        <2>6. Separated(t)
            <3>1. ASSUME NEW i \in 1 .. n, NEW j \in 1 .. n, i < j
                  PROVE  t[i][2] <= t[j][1]
                <4>1. i # n /\ t[i] = m[i] /\ i \in DOMAIN m /\ j \in DOMAIN m
                    <5>1. n \in Nat /\ DOMAIN m = 1 .. n
                        BY <1>1
                    <5>. HIDE DEF n
                    <5>2. i # n
                        BY <3>1, <5>1
                    <5>. QED
                        BY <2>5, <5>1, <5>2
                <4>2. CASE j = n
                    BY <2>1, <2>3, <2>5, <4>1, <4>2
                <4>3. CASE j # n
                    BY <1>1, <2>5, <3>1, <4>1, <4>3 DEF Separated
                <4>. QED
                    BY <4>2, <4>3
            <3>. QED
                BY <2>5, <3>1 DEF Separated
        <2>7. t \in Rows /\ t # << >> /\ Last(t) = z
            <3>1. n # 0
                BY <1>1, <2>1
            <3>. QED
                BY <2>5, <2>6, <3>1 DEF Rows, Last
        <2>8. During(z) = During(y) \cup During(x)
            <3>1. \A k \in Int : k \in z[1] .. z[2] - 1 <=> k \in y[1] .. y[2] - 1 \/ k \in x[1] .. x[2] - 1
                <4>1. z[2] = IF y[2] < x[2] THEN x[2] ELSE y[2]
                    BY <2>3 DEF Larger
                <4>2. x[1] <= y[2]
                    BY <1>3 DEF y
                <4>. QED
                    BY <1>2, <2>2, <2>3, <4>1, <4>2
            <3>2. \A p, q \in Int : p .. q \subseteq Int
                OBVIOUS
            <3>3. z[1] .. z[2] - 1 \subseteq Int /\ y[1] .. y[2] - 1 \subseteq Int /\ x[1] .. x[2] - 1 \subseteq Int
                BY <1>2, <2>2, <2>3
            <3>. QED
                BY <3>1, <3>3 DEF During
        <2>9. Instants(Range(t)) = Instants(Range(m)) \cup During(x)
            <3>1. \A k : k \in Instants(Range(t)) <=> \E i \in 1 .. n : k \in During(t[i])
                BY <2>5 DEF Instants, Range
            <3>2. \A k : k \in Instants(Range(m)) <=> \E i \in 1 .. n : k \in During(m[i])
                BY <1>1 DEF Instants, Range
            <3>3. n \in 1 .. n /\ m[n] = y
                BY <1>1, <2>1
            <3>. QED
                BY <2>5, <2>8, <3>1, <3>2, <3>3
        <2>10. Last(t)[1] <= x[1]
            BY <2>2, <2>3, <2>7
        <2>. QED
            BY <2>4, <2>7, <2>9, <2>10 DEF t
    <1>4. CASE ~(m # << >> /\ x[1] <= y[2])
        <2>1. Join(m, x) = Append(m, x)
            BY <1>4 DEF Join
        <2>2. \A z \in Range(m) : z[2] <= x[1]
            <3>. SUFFICES ASSUME NEW z \in Range(m)
                          PROVE  z[2] <= x[1]
                OBVIOUS
            <3>1. PICK i \in DOMAIN m : z = m[i]
                BY DEF Range
            <3>2. m # << >>
                BY <1>1, <3>1
            <3>3. z[2] <= y[2] /\ y \in Spans
                BY <3>1, <3>2, LastOfRow
            <3>4. z \in Spans
                BY <1>1, <3>1
            <3>5. y[2] \in Nat /\ z[2] \in Nat
                BY <3>3, <3>4, SpanFacts
            <3>6. ~(x[1] <= y[2])
                BY <1>4, <3>2
            <3>. QED
                BY <1>2, <3>3, <3>5, <3>6
        <2>3. Append(m, x) \in Rows
            BY <2>2, RowAppend
        <2>4. Range(Append(m, x)) = Range(m) \cup {x}
            BY <1>1, RangeAppend
        <2>5. Instants(Range(m) \cup {x}) = Instants(Range(m)) \cup During(x)
            <3>1. Instants({x}) = During(x)
                BY InstantsOfAll
            <3>2. \A S, T : Instants(S \cup T) = Instants(S) \cup Instants(T)
                BY InstantsOfAll
            <3>. QED
                BY <3>1, <3>2
        <2>6. Append(m, x) # << >> /\ Last(Append(m, x)) = x
            <3>1. Append(m, x) \in Seq(Spans) /\ Len(Append(m, x)) = n + 1 /\ Append(m, x)[n + 1] = x
                BY <1>1
            <3>2. Append(m, x) # << >>
                BY <1>1, <3>1
            <3>3. Last(Append(m, x)) = Append(m, x)[Len(Append(m, x))]
                BY DEF Last
            <3>. QED
                BY <3>1, <3>2, <3>3
        <2>. DEFINE t == Append(m, x)
        <2>7. /\ Join(m, x) = t /\ t \in Rows /\ t # << >> /\ Last(t) = x
              /\ Instants(Range(t)) = Instants(Range(m)) \cup During(x)
            BY <2>1, <2>3, <2>4, <2>5, <2>6
        <2>. HIDE DEF t
        <2>. QED
            BY <1>2, <2>7
    <1>. QED
        BY <1>3, <1>4

\* The steps of merging s.
JoinSteps(s) ==
    [i \in Nat |-> [m \in Seq(Spans) |-> IF i \in 1 .. Len(s) THEN Join(m, s[i]) ELSE m]]

\* Joining gives a list of intervals.
LEMMA JoinType ==
    ASSUME NEW m \in Seq(Spans), NEW x \in Spans
    PROVE  Join(m, x) \in Seq(Spans)
    <1>1. CASE m # << >> /\ x[1] <= Last(m)[2]
        <2>. DEFINE n == Len(m)
                    z == <<m[n][1], Larger(m[n][2], x[2])>>
        <2>1. n \in Nat /\ n \in DOMAIN m /\ DOMAIN m = 1 .. n /\ m[n] \in Spans /\ Last(m) = m[n]
            BY <1>1 DEF Last
        <2>2. /\ m[n][1] \in Nat /\ m[n][2] \in Nat /\ x[2] \in Nat /\ m[n][1] <= m[n][2]
            BY <2>1, SpanFacts
        <2>3. Larger(m[n][2], x[2]) \in Nat /\ m[n][1] <= Larger(m[n][2], x[2])
            BY <2>2 DEF Larger
        <2>4. z \in Spans
            BY <2>2, <2>3, SpanFacts
        <2>5. Join(m, x) = [m EXCEPT ![n] = z]
            BY <1>1, <2>1 DEF Join
        <2>. HIDE DEF z
        <2>. QED
            BY <2>1, <2>4, <2>5
    <1>2. CASE ~(m # << >> /\ x[1] <= Last(m)[2])
        BY <1>2 DEF Join
    <1>. QED
        BY <1>1, <1>2

\* Each of them takes a list of intervals to one.
LEMMA JoinStepsType ==
    ASSUME NEW s \in Seq(Spans)
    PROVE  /\ JoinSteps(s) \in [Nat -> [Seq(Spans) -> Seq(Spans)]]
           /\ \A i \in 1 .. Len(s) : \A m \in Seq(Spans) : JoinSteps(s)[i][m] = Join(m, s[i])
    <1>1. ASSUME NEW i \in 1 .. Len(s), NEW m \in Seq(Spans)
          PROVE  Join(m, s[i]) \in Seq(Spans)
        <2>1. s[i] \in Spans
            OBVIOUS
        <2>. QED
            BY <2>1, JoinType
    <1>. QED
        BY <1>1 DEF JoinSteps

\* Merging is their iteration.
LEMMA MergeIterates ==
    ASSUME NEW s \in Seq(Spans)
    PROVE  \E g : g \in Iterations(Seq(Spans), << >>, JoinSteps(s), Len(s)) /\ Fold(Join, << >>, s) = g[Len(s)]
    <1>. DEFINE n == Len(s)
                T == Seq(Spans)
                next == JoinSteps(s)
                Step(h) == [k \in 0 .. n |-> IF k = 0 THEN << >> ELSE Join(h[k - 1], s[k])]
                g == CHOOSE h : h = Step(h)
    <1>1. /\ next \in [Nat -> [T -> T]] /\ << >> \in T /\ n \in Nat
          /\ \A i \in 1 .. n : \A t \in T : next[i][t] = Join(t, s[i])
        BY JoinStepsType
    <1>2. Fold(Join, << >>, s) = g[n]
        BY DEF Fold
    <1>. HIDE DEF n, T, next
    <1>3. PICK k : k \in Iterations(T, << >>, next, n)
        BY <1>1, Iterate
    <1>4. k \in [0 .. n -> T] /\ k[0] = << >> /\ \A i \in 1 .. n : k[i] = next[i][k[i - 1]]
        BY <1>3 DEF Iterations
    <1>5. k = Step(k)
        <2>1. \A i \in 0 .. n : k[i] = IF i = 0 THEN << >> ELSE Join(k[i - 1], s[i])
            <3>. TAKE i \in 0 .. n
            <3>1. i # 0 => i \in 1 .. n /\ k[i - 1] \in T
                BY <1>1, <1>4
            <3>. QED
                BY <1>1, <1>4, <3>1
        <2>2. k = [i \in 0 .. n |-> k[i]]
            BY <1>4
        <2>. QED
            BY <2>1, <2>2
    <1>6. g = Step(g)
        <2>. HIDE DEF Step
        <2>. QED
            BY <1>5
    <1>. HIDE DEF g
    <1>7. /\ g = [i \in 0 .. n |-> g[i]] /\ g[0] = << >>
          /\ \A i \in 1 .. n : g[i] = Join(g[i - 1], s[i])
        <2>1. \A i \in 0 .. n : Step(g)[i] = IF i = 0 THEN << >> ELSE Join(g[i - 1], s[i])
            OBVIOUS
        <2>2. Step(g) = [i \in 0 .. n |-> Step(g)[i]]
            OBVIOUS
        <2>3. 0 \in 0 .. n /\ \A i \in 1 .. n : i \in 0 .. n /\ i # 0
            BY <1>1
        <2>. HIDE DEF Step
        <2>. QED
            BY <1>6, <2>1, <2>2, <2>3
    <1>8. g \in Iterations(T, << >>, next, n)
        <2>1. \A i \in 1 .. n : g[i - 1] \in T => g[i] = next[i][g[i - 1]]
            BY <1>1, <1>7
        <2>. QED
            BY <1>1, <1>7, <2>1, OnlyIteration
    <1>. QED
        BY <1>2, <1>8 DEF n, T, next

\* Merged: a row with the instants of the intervals, whatever their order was,
\* however they overlap, touch or are empty.
LEMMA MergeFacts ==
    ASSUME NEW list \in Seq(Spans)
    PROVE  /\ Merge(list) \in Rows /\ Instants(Range(Merge(list))) = Instants(Range(list))
           /\ list = << >> <=> Merge(list) = << >>
    <1>. DEFINE s == Sorted(list)
                n == Len(s)
    <1>1. s \in OrderedSeq(Spans) /\ Range(s) = Range(list)
        BY SortedFacts
    <1>2. s \in Seq(Spans) /\ Ordered(s)
        BY <1>1 DEF OrderedSeq
    <1>. HIDE DEF s
    <1>3. PICK g : g \in Iterations(Seq(Spans), << >>, JoinSteps(s), n) /\ Fold(Join, << >>, s) = g[n]
        BY <1>2, MergeIterates
    <1>4. /\ g \in [0 .. n -> Seq(Spans)] /\ g[0] = << >>
          /\ \A i \in 1 .. n : g[i] = JoinSteps(s)[i][g[i - 1]]
        BY <1>3 DEF Iterations
    <1>5. n \in Nat /\ DOMAIN s = 1 .. n
        BY <1>2
    <1>. DEFINE Good ==
                    {k \in 0 .. n : /\ g[k] \in Rows /\ Instants(Range(g[k])) = Instants(FirstOnes(s, k))
                                    /\ k = 0 <=> g[k] = << >>
                                    /\ k # 0 => Last(g[k])[1] <= s[k][1]}
    <1>6. 0 \in Good
        <2>1. << >> \in Rows
            BY DEF Rows, Separated
        <2>2. Range(<< >>) = {} /\ FirstOnes(s, 0) = {}
            BY <1>2, AllOnes DEF Range
        <2>3. g[0] \in Rows /\ Instants(Range(g[0])) = Instants(FirstOnes(s, 0)) /\ g[0] = << >>
            BY <1>4, <2>1, <2>2
        <2>4. 0 \in 0 .. n
            BY <1>5
        <2>. QED
            BY <2>3, <2>4
    <1>7. ASSUME NEW k \in 0 .. n - 1, k \in Good
          PROVE  k + 1 \in Good
        <2>1. /\ k + 1 \in 1 .. n /\ (k + 1) - 1 = k /\ s[k + 1] \in Spans /\ g[k] \in Seq(Spans)
              /\ k + 1 \in 0 .. n /\ k + 1 # 0
            <3>1. k + 1 \in 1 .. n /\ (k + 1) - 1 = k /\ k + 1 \in 0 .. n /\ k + 1 # 0 /\ k \in 0 .. n
                BY <1>5
            <3>2. g[k] \in Seq(Spans)
                BY <1>4, <3>1
            <3>3. s[k + 1] \in Spans
                BY <1>2, <1>5, <3>1
            <3>. QED
                BY <3>1, <3>2, <3>3
        <2>2. g[k + 1] = Join(g[k], s[k + 1])
            <3>1. g[k + 1] = JoinSteps(s)[k + 1][g[k]]
                BY <1>4, <2>1
            <3>2. JoinSteps(s)[k + 1][g[k]] = Join(g[k], s[k + 1])
                BY <1>2, <2>1, JoinStepsType
            <3>. QED
                BY <3>1, <3>2
        <2>3. /\ g[k] \in Rows /\ Instants(Range(g[k])) = Instants(FirstOnes(s, k))
              /\ k = 0 <=> g[k] = << >>
              /\ k # 0 => Last(g[k])[1] <= s[k][1]
            BY <1>7
        <2>4. g[k] # << >> => Last(g[k])[1] <= s[k + 1][1]
            <3>. SUFFICES ASSUME g[k] # << >>
                          PROVE  Last(g[k])[1] <= s[k + 1][1]
                OBVIOUS
            <3>1. k \in 1 .. n /\ k \in DOMAIN s /\ k + 1 \in DOMAIN s /\ k < k + 1
                BY <1>5, <2>1, <2>3
            <3>2. s[k][1] <= s[k + 1][1]
                BY <1>2, <3>1 DEF Ordered
            <3>3. Last(g[k])[1] <= s[k][1]
                BY <2>3, <3>1
            <3>4. Last(g[k]) \in Spans /\ s[k] \in Spans
                BY <1>2, <2>3, <3>1, LastOfRow
            <3>5. Last(g[k])[1] \in Nat /\ s[k][1] \in Nat /\ s[k + 1][1] \in Nat
                BY <2>1, <3>4, SpanFacts
            <3>. QED
                BY <3>2, <3>3, <3>5
        <2>. DEFINE t == Join(g[k], s[k + 1])
        <2>5. /\ t \in Rows /\ t # << >> /\ Last(t)[1] <= s[k + 1][1]
              /\ Instants(Range(t)) = Instants(Range(g[k])) \cup During(s[k + 1])
            BY <2>1, <2>3, <2>4, JoinFacts
        <2>6. Instants(FirstOnes(s, k + 1)) = Instants(FirstOnes(s, k)) \cup During(s[k + 1])
            <3>1. FirstOnes(s, k + 1) = FirstOnes(s, k) \cup {s[k + 1]}
                BY <1>2, AllOnes
            <3>2. Instants({s[k + 1]}) = During(s[k + 1])
                BY InstantsOfAll
            <3>3. Instants(FirstOnes(s, k) \cup {s[k + 1]}) = Instants(FirstOnes(s, k)) \cup Instants({s[k + 1]})
                BY InstantsOfAll
            <3>. QED
                BY <3>1, <3>2, <3>3
        <2>7. g[k + 1] = t
            BY <2>2
        <2>. HIDE DEF t
        <2>. QED
            BY <2>1, <2>3, <2>5, <2>6, <2>7
    <1>8. n \in Good
        <2>. HIDE DEF Good
        <2>1. \A k \in 0 .. n : k \in Good
            BY <1>5, <1>6, <1>7, InductionTo
        <2>. QED
            BY <1>5, <2>1
    <1>9. Merge(list) = g[n]
        BY <1>3 DEF Merge, s
    <1>10. FirstOnes(s, n) = Range(list)
        BY <1>1, <1>2, AllOnes
    <1>11. n = 0 <=> list = << >>
        <2>1. n = 0 <=> Range(s) = {}
            <3>1. n # 0 => 1 \in DOMAIN s
                BY <1>5
            <3>2. n = 0 => DOMAIN s = {}
                BY <1>5
            <3>. QED
                BY <3>1, <3>2 DEF Range
        <2>2. list = << >> <=> Range(list) = {}
            <3>1. DOMAIN list = 1 .. Len(list) /\ Len(list) \in Nat
                OBVIOUS
            <3>2. Range(list) = {} <=> Len(list) = 0
                <4>1. Len(list) # 0 => 1 \in DOMAIN list
                    BY <3>1
                <4>2. Len(list) = 0 => DOMAIN list = {}
                    BY <3>1
                <4>. QED
                    BY <4>1, <4>2 DEF Range
            <3>3. Len(list) = 0 <=> list = << >>
                OBVIOUS
            <3>. QED
                BY <3>2, <3>3
        <2>. QED
            BY <1>1, <2>1, <2>2
    <1>. QED
        BY <1>8, <1>9, <1>10, <1>11

-----------------------------------------------------------------------------
(* Adding up. *)

\* The steps of the sum over s.
SumSteps(s) ==
    [i \in Nat |-> [k \in Int |-> IF i \in 1 .. Len(s) THEN k + (s[i][2] - s[i][1]) ELSE k]]

\* Each of them takes a number to a number.
LEMMA SumStepsType ==
    ASSUME NEW s \in Seq(Spans)
    PROVE  /\ SumSteps(s) \in [Nat -> [Int -> Int]]
           /\ \A i \in 1 .. Len(s) : \A k \in Int : SumSteps(s)[i][k] = k + (s[i][2] - s[i][1])
    <1>1. \A i \in 1 .. Len(s) : s[i][2] - s[i][1] \in Int
        <2>. SUFFICES ASSUME NEW i \in 1 .. Len(s)
                      PROVE  s[i][2] - s[i][1] \in Int
            OBVIOUS
        <2>1. s[i] \in Spans
            OBVIOUS
        <2>2. s[i][1] \in Nat /\ s[i][2] \in Nat
            BY <2>1, SpanFacts
        <2>. QED
            BY <2>2
    <1>2. \A i \in 1 .. Len(s) : \A k \in Int : k + (s[i][2] - s[i][1]) \in Int
        BY <1>1
    <1>. QED
        BY <1>2 DEF SumSteps

\* Total is their iteration.
LEMMA TotalIterates ==
    ASSUME NEW s \in Seq(Spans)
    PROVE  \E g : g \in Iterations(Int, 0, SumSteps(s), Len(s)) /\ Total(s) = g[Len(s)]
    <1>0. /\ SumSteps(s) \in [Nat -> [Int -> Int]] /\ Len(s) \in Nat
          /\ \A i \in 1 .. Len(s) : \A t \in Int : SumSteps(s)[i][t] = t + (s[i][2] - s[i][1])
        <2>1. SumSteps(s) \in [Nat -> [Int -> Int]]
            BY SumStepsType
        <2>2. \A i \in 1 .. Len(s) : \A t \in Int : SumSteps(s)[i][t] = t + (s[i][2] - s[i][1])
            BY SumStepsType
        <2>3. Len(s) \in Nat
            OBVIOUS
        <2>. QED
            BY <2>1, <2>2, <2>3
    <1>. DEFINE n == Len(s)
                T == Int
                next == SumSteps(s)
                Step(h) == [k \in 0 .. n |-> IF k = 0 THEN 0 ELSE h[k - 1] + (s[k][2] - s[k][1])]
                g == CHOOSE h : h = Step(h)
    <1>1. /\ next \in [Nat -> [T -> T]] /\ 0 \in T /\ n \in Nat
          /\ \A i \in 1 .. n : \A t \in T : next[i][t] = t + (s[i][2] - s[i][1])
        <2>1. 0 \in T
            OBVIOUS
        <2>2. next \in [Nat -> [T -> T]] /\ n \in Nat
            BY <1>0
        <2>3. \A i \in 1 .. n : \A t \in T : next[i][t] = t + (s[i][2] - s[i][1])
            BY <1>0
        <2>. QED
            BY <2>1, <2>2, <2>3
    <1>2. Total(s) = g[n]
        BY DEF Total, Fold
    <1>. HIDE DEF n, T, next
    <1>3. PICK k : k \in Iterations(T, 0, next, n)
        BY <1>1, Iterate
    <1>4. k \in [0 .. n -> T] /\ k[0] = 0 /\ \A i \in 1 .. n : k[i] = next[i][k[i - 1]]
        BY <1>3 DEF Iterations
    <1>5. k = Step(k)
        <2>1. \A i \in 0 .. n : k[i] = IF i = 0 THEN 0 ELSE k[i - 1] + (s[i][2] - s[i][1])
            <3>. TAKE i \in 0 .. n
            <3>1. i # 0 => i \in 1 .. n /\ k[i - 1] \in T
                BY <1>1, <1>4
            <3>. QED
                BY <1>1, <1>4, <3>1
        <2>2. k = [i \in 0 .. n |-> k[i]]
            BY <1>4
        <2>. QED
            BY <2>1, <2>2
    <1>6. g = Step(g)
        <2>. HIDE DEF Step
        <2>. QED
            BY <1>5
    <1>. HIDE DEF g
    <1>7. /\ g = [i \in 0 .. n |-> g[i]] /\ g[0] = 0
          /\ \A i \in 1 .. n : g[i] = g[i - 1] + (s[i][2] - s[i][1])
        <2>1. \A i \in 0 .. n : Step(g)[i] = IF i = 0 THEN 0 ELSE g[i - 1] + (s[i][2] - s[i][1])
            OBVIOUS
        <2>2. Step(g) = [i \in 0 .. n |-> Step(g)[i]]
            OBVIOUS
        <2>3. 0 \in 0 .. n /\ \A i \in 1 .. n : i \in 0 .. n /\ i # 0
            BY <1>1
        <2>. HIDE DEF Step
        <2>. QED
            BY <1>6, <2>1, <2>2, <2>3
    <1>8. g \in Iterations(T, 0, next, n)
        <2>1. \A i \in 1 .. n : g[i - 1] \in T => g[i] = next[i][g[i - 1]]
            BY <1>1, <1>7
        <2>. QED
            BY <1>1, <1>7, <2>1, OnlyIteration
    <1>. QED
        BY <1>2, <1>8 DEF n, T, next

\* Sets of instants with a number of members.
Counted(k) == {S \in SUBSET Int : IsFiniteSet(S) /\ Cardinality(S) = k}

\* An interval has as many instants as it is long.
LEMMA CountOne ==
    ASSUME NEW x \in Spans
    PROVE  During(x) \in Counted(x[2] - x[1]) /\ x[2] - x[1] \in Nat
    <1>1. x[1] \in Nat /\ x[2] \in Nat /\ x[1] <= x[2]
        BY SpanFacts
    <1>2. x[2] - x[1] \in Nat /\ x[2] - 1 \in Int /\ x[1] \in Int
        BY <1>1
    <1>3. IsFiniteSet(x[1] .. x[2] - 1)
        BY <1>2, FS_Interval
    <1>4. Cardinality(x[1] .. x[2] - 1) = IF x[1] > x[2] - 1 THEN 0 ELSE (x[2] - 1) - x[1] + 1
        BY <1>2, FS_Interval
    <1>5. Cardinality(x[1] .. x[2] - 1) = x[2] - x[1]
        BY <1>1, <1>4
    <1>6. x[1] .. x[2] - 1 \subseteq Int
        BY <1>2
    <1>. QED
        BY <1>2, <1>3, <1>5, <1>6 DEF During, Counted

\* Sets without a common instant are counted one after the other.
LEMMA CountBoth ==
    ASSUME NEW k \in Nat, NEW l \in Nat, NEW S \in Counted(k), NEW T \in Counted(l), S \cap T = {}
    PROVE  S \cup T \in Counted(k + l)
    <1>1. IsFiniteSet(S) /\ IsFiniteSet(T) /\ Cardinality(S) = k /\ Cardinality(T) = l
        BY DEF Counted
    <1>2. /\ IsFiniteSet(S \cup T)
          /\ Cardinality(S \cup T) = Cardinality(S) + Cardinality(T) - Cardinality(S \cap T)
        BY <1>1, FS_Union
    <1>3. Cardinality(S \cap T) = 0
        BY FS_EmptySet
    <1>4. Cardinality(S \cup T) = k + l
        BY <1>1, <1>2, <1>3
    <1>5. S \cup T \subseteq Int
        BY DEF Counted
    <1>. QED
        BY <1>2, <1>4, <1>5 DEF Counted

\* The total of a row is the number of its instants.
LEMMA TotalFacts ==
    ASSUME NEW s \in Rows
    PROVE  Total(s) \in Nat /\ Instants(Range(s)) \in Counted(Total(s))
    <1>. DEFINE n == Len(s)
    <1>1. s \in Seq(Spans) /\ Separated(s) /\ n \in Nat /\ DOMAIN s = 1 .. n
        BY DEF Rows
    <1>2. PICK g : g \in Iterations(Int, 0, SumSteps(s), n) /\ Total(s) = g[n]
        BY <1>1, TotalIterates
    <1>3. /\ g \in [0 .. n -> Int] /\ g[0] = 0
          /\ \A i \in 1 .. n : g[i] = SumSteps(s)[i][g[i - 1]]
        BY <1>2 DEF Iterations
    <1>. DEFINE Good == {k \in 0 .. n : g[k] \in Nat /\ Instants(FirstOnes(s, k)) \in Counted(g[k])}
    <1>4. 0 \in Good
        <2>1. Instants(FirstOnes(s, 0)) = {}
            BY <1>1, AllOnes, InstantsOfAll
        <2>2. {} \in Counted(0)
            BY FS_EmptySet DEF Counted
        <2>3. 0 \in 0 .. n
            BY <1>1
        <2>. QED
            BY <1>3, <2>1, <2>2, <2>3
    <1>5. ASSUME NEW k \in 0 .. n - 1, k \in Good
          PROVE  k + 1 \in Good
        <2>. DEFINE x == s[k + 1]
        <2>1. k + 1 \in 1 .. n /\ (k + 1) - 1 = k /\ k + 1 \in 0 .. n /\ k \in 0 .. n /\ k \in Int
            BY <1>1
        <2>2. x \in Spans /\ g[k] \in Int /\ g[k] \in Nat /\ Instants(FirstOnes(s, k)) \in Counted(g[k])
            BY <1>1, <1>5, <2>1
        <2>3. g[k + 1] = g[k] + (x[2] - x[1])
            <3>1. g[k + 1] = SumSteps(s)[k + 1][g[k]]
                BY <1>3, <2>1
            <3>2. SumSteps(s)[k + 1][g[k]] = g[k] + (x[2] - x[1])
                BY <1>1, <2>1, <2>2, SumStepsType
            <3>. QED
                BY <3>1, <3>2
        <2>4. During(x) \in Counted(x[2] - x[1]) /\ x[2] - x[1] \in Nat
            BY <2>2, CountOne
        <2>5. Instants(FirstOnes(s, k)) \cap During(x) = {}
            <3>. SUFFICES ASSUME NEW i \in 1 .. k, NEW t \in During(s[i]), t \in During(x)
                          PROVE  FALSE
                BY DEF Instants, FirstOnes
            <3>1. i \in DOMAIN s /\ k + 1 \in DOMAIN s /\ i < k + 1 /\ s[i] \in Spans
                BY <1>1, <2>1
            <3>2. s[i][2] <= x[1]
                BY <1>1, <3>1 DEF Separated
            <3>3. s[i][1] \in Nat /\ s[i][2] \in Nat /\ x[1] \in Nat /\ x[2] \in Nat
                BY <2>2, <3>1, SpanFacts
            <3>4. t \in s[i][1] .. s[i][2] - 1 /\ t \in x[1] .. x[2] - 1
                BY DEF During
            <3>. QED
                BY <3>2, <3>3, <3>4
        <2>6. Instants(FirstOnes(s, k + 1)) = Instants(FirstOnes(s, k)) \cup During(x)
            <3>1. FirstOnes(s, k + 1) = FirstOnes(s, k) \cup {x}
                BY <1>1, AllOnes
            <3>2. Instants({x}) = During(x)
                BY InstantsOfAll
            <3>3. Instants(FirstOnes(s, k) \cup {x}) = Instants(FirstOnes(s, k)) \cup Instants({x})
                BY InstantsOfAll
            <3>. QED
                BY <3>1, <3>2, <3>3
        <2>. DEFINE l == x[2] - x[1]
        <2>. HIDE DEF l
        <2>7. Instants(FirstOnes(s, k)) \cup During(x) \in Counted(g[k] + l)
            BY <2>2, <2>4, <2>5, CountBoth DEF l
        <2>8. g[k + 1] = g[k] + l /\ l \in Nat
            BY <2>3, <2>4 DEF l
        <2>. HIDE DEF x
        <2>9. g[k + 1] \in Nat
            BY <2>2, <2>8
        <2>. QED
            BY <2>1, <2>6, <2>7, <2>8, <2>9
    <1>6. n \in Good
        <2>. HIDE DEF Good
        <2>1. \A k \in 0 .. n : k \in Good
            BY <1>1, <1>4, <1>5, InductionTo
        <2>. QED
            BY <1>1, <2>1
    <1>7. FirstOnes(s, n) = Range(s)
        BY <1>1, AllOnes
    <1>. QED
        BY <1>2, <1>6, <1>7

-----------------------------------------------------------------------------
(* Intersecting. *)

\* Where the walk may be.
Walks(a, b) == [out : Seq(Spans), i : 1 .. Len(a) + 1, j : 1 .. Len(b) + 1]

\* The intervals of a list from the i-th on.
From(s, i) == {s[k] : k \in {l \in DOMAIN s : i <= l}}

\* A turn of the walk that is not at an end.
LEMMA WalkedParts ==
    ASSUME NEW a \in Seq(Spans), NEW b \in Seq(Spans), NEW w \in Walks(a, b),
           w.i <= Len(a), w.j <= Len(b)
    PROVE  LET x == a[w.i]
               y == b[w.j]
               lo == Larger(x[1], y[1])
               hi == Smaller(x[2], y[2])
               v == Walked(a, b, w)
           IN  /\ w.i \in DOMAIN a /\ w.j \in DOMAIN b /\ x \in Spans /\ y \in Spans
               /\ lo \in Nat /\ hi \in Nat
               /\ v.out = IF lo < hi THEN Append(w.out, <<lo, hi>>) ELSE w.out
               /\ v.i = IF x[2] < y[2] THEN w.i + 1 ELSE w.i
               /\ v.j = IF x[2] < y[2] THEN w.j ELSE w.j + 1
               /\ v \in Walks(a, b)
    <1>. DEFINE x == a[w.i]
                y == b[w.j]
                lo == Larger(x[1], y[1])
                hi == Smaller(x[2], y[2])
                v == Walked(a, b, w)
    <1>1. w.i \in 1 .. Len(a) + 1 /\ w.j \in 1 .. Len(b) + 1 /\ w.out \in Seq(Spans)
        BY DEF Walks
    <1>2. Len(a) \in Nat /\ Len(b) \in Nat /\ DOMAIN a = 1 .. Len(a) /\ DOMAIN b = 1 .. Len(b)
        OBVIOUS
    <1>3. w.i \in DOMAIN a /\ w.j \in DOMAIN b /\ w.i \in 1 .. Len(a) /\ w.j \in 1 .. Len(b)
        BY <1>1, <1>2
    <1>4. x \in Spans /\ y \in Spans
        BY <1>3
    <1>5. x[1] \in Nat /\ x[2] \in Nat /\ y[1] \in Nat /\ y[2] \in Nat
        BY <1>4, SpanFacts
    <1>6. lo \in Nat /\ hi \in Nat
        BY <1>5 DEF Larger, Smaller
    <1>7. v = [out |-> IF lo < hi THEN Append(w.out, <<lo, hi>>) ELSE w.out,
               i |-> IF FirstEnds(x, y) THEN w.i + 1 ELSE w.i,
               j |-> IF FirstEnds(x, y) THEN w.j ELSE w.j + 1]
        <2>1. ~(w.i > Len(a) \/ w.j > Len(b))
            BY <1>2, <1>3
        <2>. QED
            BY <2>1 DEF Walked
    <1>. HIDE DEF lo, hi, v, x, y
    <1>8. /\ v.out = IF lo < hi THEN Append(w.out, <<lo, hi>>) ELSE w.out
          /\ v.i = IF x[2] < y[2] THEN w.i + 1 ELSE w.i
          /\ v.j = IF x[2] < y[2] THEN w.j ELSE w.j + 1
        BY <1>7 DEF FirstEnds
    <1>9. v \in Walks(a, b)
        <2>1. (IF lo < hi THEN Append(w.out, <<lo, hi>>) ELSE w.out) \in Seq(Spans)
            <3>1. lo < hi => <<lo, hi>> \in Spans
                BY <1>6, SpanFacts
            <3>. QED
                BY <1>1, <3>1
        <2>2. (IF FirstEnds(x, y) THEN w.i + 1 ELSE w.i) \in 1 .. Len(a) + 1
            BY <1>2, <1>3
        <2>3. (IF FirstEnds(x, y) THEN w.j ELSE w.j + 1) \in 1 .. Len(b) + 1
            BY <1>2, <1>3
        <2>. QED
            BY <1>7, <2>1, <2>2, <2>3 DEF Walks
    <1>. QED
        BY <1>3, <1>4, <1>6, <1>8, <1>9 DEF lo, hi, v, x, y

\* A turn leads to where the walk may be.
LEMMA WalkedType ==
    ASSUME NEW a \in Seq(Spans), NEW b \in Seq(Spans), NEW w \in Walks(a, b)
    PROVE  Walked(a, b, w) \in Walks(a, b)
    <1>1. Len(a) \in Nat /\ Len(b) \in Nat /\ w.i \in Nat /\ w.j \in Nat
        BY DEF Walks
    <1>2. CASE w.i <= Len(a) /\ w.j <= Len(b)
        BY <1>2, WalkedParts
    <1>3. CASE ~(w.i <= Len(a) /\ w.j <= Len(b))
        <2>1. w.i > Len(a) \/ w.j > Len(b)
            BY <1>1, <1>3
        <2>. QED
            BY <2>1 DEF Walked
    <1>. QED
        BY <1>2, <1>3

\* The walk so far, and what is left of it.
WalkSound(a, b, w) ==
    /\ w.out \in Rows
    /\ Instants(Range(a)) \cap Instants(Range(b))
          = Instants(Range(w.out)) \cup (Instants(From(a, w.i)) \cap Instants(From(b, w.j)))
    /\ \A x \in Range(w.out) : \/ \A y \in From(a, w.i) : x[2] <= y[1]
                               \/ \A y \in From(b, w.j) : x[2] <= y[1]

\* The intervals from one on are that one and those behind it.
LEMMA FromNext ==
    ASSUME NEW s \in Rows, NEW i \in DOMAIN s
    PROVE  /\ From(s, i) = {s[i]} \cup From(s, i + 1)
           /\ Instants(From(s, i)) = During(s[i]) \cup Instants(From(s, i + 1))
           /\ \A y \in From(s, i + 1) : s[i][2] <= y[1] /\ y \in Spans
           /\ From(s, i + 1) \subseteq From(s, i)
    <1>1. s \in Seq(Spans) /\ Separated(s) /\ DOMAIN s = 1 .. Len(s) /\ Len(s) \in Nat
        BY DEF Rows
    <1>2. \A l \in DOMAIN s : i <= l <=> l = i \/ i + 1 <= l
        BY <1>1
    <1>3. From(s, i) = {s[i]} \cup From(s, i + 1)
        BY <1>2 DEF From
    <1>4. Instants({s[i]} \cup From(s, i + 1)) = Instants({s[i]}) \cup Instants(From(s, i + 1))
        BY InstantsOfAll
    <1>5. Instants({s[i]}) = During(s[i])
        BY InstantsOfAll
    <1>6. ASSUME NEW y \in From(s, i + 1) PROVE s[i][2] <= y[1] /\ y \in Spans
        <2>1. PICK l \in DOMAIN s : i + 1 <= l /\ y = s[l]
            BY DEF From
        <2>2. i < l
            BY <1>1, <2>1
        <2>. QED
            BY <1>1, <2>1, <2>2 DEF Separated
    <1>. QED
        BY <1>3, <1>4, <1>5, <1>6

\* The instants of two intervals at once.
LEMMA DuringBoth ==
    ASSUME NEW x \in Spans, NEW y \in Spans
    PROVE  LET lo == Larger(x[1], y[1])
               hi == Smaller(x[2], y[2])
           IN  /\ During(x) \cap During(y) = lo .. hi - 1
               /\ lo \in Nat /\ hi \in Nat /\ x[1] <= lo /\ y[1] <= lo
               /\ hi = IF x[2] < y[2] THEN x[2] ELSE y[2]
    <1>. DEFINE lo == Larger(x[1], y[1])
                hi == Smaller(x[2], y[2])
    <1>1. x[1] \in Nat /\ x[2] \in Nat /\ y[1] \in Nat /\ y[2] \in Nat
        BY SpanFacts
    <1>2. hi = IF x[2] < y[2] THEN x[2] ELSE y[2]
        BY DEF Smaller
    <1>3. lo = IF x[1] < y[1] THEN y[1] ELSE x[1]
        BY DEF Larger
    <1>. HIDE DEF lo, hi
    <1>4. lo \in Nat /\ hi \in Nat /\ x[1] <= lo /\ y[1] <= lo
        BY <1>1, <1>2, <1>3
    <1>5. (x[1] .. x[2] - 1) \cap (y[1] .. y[2] - 1) = lo .. hi - 1
        BY <1>1, <1>2, <1>3, <1>4
    <1>6. During(x) \cap During(y) = lo .. hi - 1
        BY <1>5 DEF During
    <1>. QED
        BY <1>2, <1>4, <1>6 DEF lo, hi

\* Of two rows that begin with x and with y, x ending first: x meets only y.
LEMMA OneMeets ==
    ASSUME NEW x \in Spans, NEW y \in Spans, NEW S, NEW T, x[2] <= y[2],
           \A z \in T : y[2] <= z[1] /\ z \in Spans
    PROVE  (During(x) \cup S) \cap (During(y) \cup Instants(T))
              = (During(x) \cap During(y)) \cup (S \cap (During(y) \cup Instants(T)))
    <1>1. During(x) \cap Instants(T) = {}
        <2>. SUFFICES ASSUME NEW z \in T, NEW t \in During(z), t \in During(x)
                      PROVE  FALSE
            BY DEF Instants
        <2>1. y[2] <= z[1] /\ z \in Spans
            OBVIOUS
        <2>2. x[1] \in Nat /\ x[2] \in Nat /\ y[2] \in Nat /\ z[1] \in Nat /\ z[2] \in Nat
            BY <2>1, SpanFacts
        <2>3. t \in x[1] .. x[2] - 1 /\ t \in z[1] .. z[2] - 1
            BY DEF During
        <2>. QED
            BY <2>1, <2>2, <2>3
    <1>. QED
        BY <1>1

\* Of two rows, the interval that ends first is left behind: with the other
\* row it shares what it shares with the other interval.
LEMMA OneLeft ==
    ASSUME NEW a \in Rows, NEW b \in Rows, NEW i \in DOMAIN a, NEW j \in DOMAIN b, a[i][2] <= b[j][2]
    PROVE  Instants(From(a, i)) \cap Instants(From(b, j))
              = (During(a[i]) \cap During(b[j])) \cup (Instants(From(a, i + 1)) \cap Instants(From(b, j)))
    <1>. DEFINE x == a[i]
                y == b[j]
                S == Instants(From(a, i + 1))
                T == From(b, j + 1)
    <1>1. x \in Spans /\ y \in Spans /\ x[2] <= y[2]
        BY DEF Rows
    <1>2. Instants(From(a, i)) = During(x) \cup S
        BY FromNext
    <1>3. Instants(From(b, j)) = During(y) \cup Instants(T) /\ \A z \in T : y[2] <= z[1] /\ z \in Spans
        BY FromNext
    <1>. HIDE DEF x, y, S, T
    <1>4. (During(x) \cup S) \cap (During(y) \cup Instants(T))
              = (During(x) \cap During(y)) \cup (S \cap (During(y) \cup Instants(T)))
        BY <1>1, <1>3, OneMeets
    <1>5. Instants(From(a, i)) \cap Instants(From(b, j))
              = (During(x) \cap During(y)) \cup (S \cap Instants(From(b, j)))
        BY <1>2, <1>3, <1>4
    <1>. QED
        BY <1>5 DEF x, y, S

\* What two intervals share goes behind what the walk has put out.
LEMMA OutGrows ==
    ASSUME NEW s \in Rows, NEW x \in Spans, NEW y \in Spans,
           \A z \in Range(s) : z[2] <= x[1] \/ z[2] <= y[1]
    PROVE  LET lo == Larger(x[1], y[1])
               hi == Smaller(x[2], y[2])
               t == IF lo < hi THEN Append(s, <<lo, hi>>) ELSE s
           IN  /\ t \in Rows
               /\ Instants(Range(t)) = Instants(Range(s)) \cup (During(x) \cap During(y))
               /\ \A z \in Range(t) : z \in Range(s) \/ z[2] = hi
    <1>. DEFINE lo == Larger(x[1], y[1])
                hi == Smaller(x[2], y[2])
    <1>1. /\ During(x) \cap During(y) = lo .. hi - 1
          /\ lo \in Nat /\ hi \in Nat /\ x[1] <= lo /\ y[1] <= lo
        BY DuringBoth
    <1>2. x[1] \in Nat /\ y[1] \in Nat
        BY SpanFacts
    <1>3. s \in Seq(Spans)
        BY DEF Rows
    <1>. HIDE DEF lo, hi
    <1>4. CASE lo < hi
        <2>. DEFINE z == <<lo, hi>>
        <2>1. z \in Spans /\ z[1] = lo /\ z[2] = hi
            BY <1>1, <1>4, SpanFacts
        <2>2. During(z) = During(x) \cap During(y)
            BY <1>1, <2>1 DEF During
        <2>3. \A u \in Range(s) : u[2] <= z[1]
            <3>. SUFFICES ASSUME NEW u \in Range(s)
                          PROVE  u[2] <= z[1]
                OBVIOUS
            <3>1. u \in Spans
                BY <1>3 DEF Range
            <3>2. u[2] \in Nat
                BY <3>1, SpanFacts
            <3>3. u[2] <= x[1] \/ u[2] <= y[1]
                OBVIOUS
            <3>. QED
                BY <1>1, <1>2, <2>1, <3>2, <3>3
        <2>. HIDE DEF z
        <2>4. Append(s, z) \in Rows
            BY <2>1, <2>3, RowAppend
        <2>5. Range(Append(s, z)) = Range(s) \cup {z}
            BY <1>3, <2>1, RangeAppend
        <2>6. Instants(Range(s) \cup {z}) = Instants(Range(s)) \cup Instants({z}) /\ Instants({z}) = During(z)
            BY InstantsOfAll
        <2>7. Instants(Range(Append(s, z))) = Instants(Range(s)) \cup (During(x) \cap During(y))
            BY <2>2, <2>5, <2>6
        <2>8. \A u \in Range(Append(s, z)) : u \in Range(s) \/ u[2] = hi
            BY <2>1, <2>5
        <2>. QED
            BY <1>4, <2>4, <2>7, <2>8 DEF z, lo, hi
    <1>5. CASE ~(lo < hi)
        <2>1. lo .. hi - 1 = {}
            BY <1>1, <1>5
        <2>2. During(x) \cap During(y) = {}
            BY <1>1, <2>1
        <2>. QED
            BY <1>5, <2>2 DEF lo, hi
    <1>. QED
        BY <1>4, <1>5

\* A turn of the walk loses nothing and puts nothing out twice.
LEMMA WalkedSound ==
    ASSUME NEW a \in Rows, NEW b \in Rows, NEW w \in Walks(a, b), WalkSound(a, b, w),
           w.i <= Len(a), w.j <= Len(b)
    PROVE  WalkSound(a, b, Walked(a, b, w))
    <1>. DEFINE x == a[w.i]
                y == b[w.j]
                lo == Larger(x[1], y[1])
                hi == Smaller(x[2], y[2])
                v == Walked(a, b, w)
                A == Instants(From(a, w.i))
                B == Instants(From(b, w.j))
                O == Instants(Range(w.out))
                both == During(x) \cap During(y)
    <1>1. a \in Seq(Spans) /\ b \in Seq(Spans)
        BY DEF Rows
    <1>2. /\ w.i \in DOMAIN a /\ w.j \in DOMAIN b /\ x \in Spans /\ y \in Spans
          /\ v.out = IF lo < hi THEN Append(w.out, <<lo, hi>>) ELSE w.out
          /\ v.i = IF x[2] < y[2] THEN w.i + 1 ELSE w.i
          /\ v.j = IF x[2] < y[2] THEN w.j ELSE w.j + 1
        BY <1>1, WalkedParts
    <1>3. /\ w.out \in Rows
          /\ Instants(Range(a)) \cap Instants(Range(b)) = O \cup (A \cap B)
          /\ \A z \in Range(w.out) : \/ \A u \in From(a, w.i) : z[2] <= u[1]
                                     \/ \A u \in From(b, w.j) : z[2] <= u[1]
        BY DEF WalkSound
    <1>4. x \in From(a, w.i) /\ y \in From(b, w.j)
        <2>1. w.i <= w.i /\ w.j <= w.j
            <3>1. w.i \in Nat /\ w.j \in Nat
                BY <1>1 DEF Walks
            <3>. QED
                BY <3>1
        <2>. QED
            BY <1>2, <2>1 DEF From
    <1>5. \A z \in Range(w.out) : z[2] <= x[1] \/ z[2] <= y[1]
        BY <1>3, <1>4
    <1>6. /\ v.out \in Rows /\ Instants(Range(v.out)) = O \cup both
          /\ \A z \in Range(v.out) : z \in Range(w.out) \/ z[2] = hi
        <2>. DEFINE p == w.out
        <2>1. p \in Rows /\ \A z \in Range(p) : z[2] <= x[1] \/ z[2] <= y[1]
            BY <1>3, <1>5
        <2>2. v.out = IF lo < hi THEN Append(p, <<lo, hi>>) ELSE p
            BY <1>2
        <2>3. x \in Spans /\ y \in Spans
            BY <1>2
        <2>. HIDE DEF x, y, p, v
        <2>4. LET t == IF lo < hi THEN Append(p, <<lo, hi>>) ELSE p
              IN  /\ t \in Rows
                  /\ Instants(Range(t)) = Instants(Range(p)) \cup (During(x) \cap During(y))
                  /\ \A z \in Range(t) : z \in Range(p) \/ z[2] = hi
            BY <2>1, <2>3, OutGrows
        <2>. HIDE DEF lo, hi
        <2>. QED
            BY <2>2, <2>4 DEF p
    <1>7. x[2] \in Nat /\ y[2] \in Nat /\ hi = IF x[2] < y[2] THEN x[2] ELSE y[2]
        BY <1>2, SpanFacts DEF Smaller
    <1>8. CASE x[2] < y[2]
        <2>. DEFINE A1 == Instants(From(a, w.i + 1))
        <2>1. x[2] <= y[2] /\ hi = x[2] /\ v.i = w.i + 1 /\ v.j = w.j
            BY <1>2, <1>7, <1>8
        <2>2. A \cap B = both \cup (A1 \cap B)
            BY <1>2, <2>1, OneLeft
        <2>3. \A u \in From(a, w.i + 1) : x[2] <= u[1] /\ u \in From(a, w.i)
            BY <1>2, FromNext
        <2>. HIDE DEF v, x, y, lo, hi, A, B, O, both
        <2>4. Instants(Range(a)) \cap Instants(Range(b)) = Instants(Range(v.out)) \cup (A1 \cap B)
            BY <1>3, <1>6, <2>2
        <2>5. \A z \in Range(v.out) : \/ \A u \in From(a, v.i) : z[2] <= u[1]
                                      \/ \A u \in From(b, v.j) : z[2] <= u[1]
            BY <1>3, <1>6, <2>1, <2>3
        <2>. QED
            BY <1>6, <2>1, <2>4, <2>5 DEF WalkSound, v, B
    <1>9. CASE ~(x[2] < y[2])
        <2>. DEFINE B1 == Instants(From(b, w.j + 1))
        <2>1. y[2] <= x[2] /\ hi = y[2] /\ v.i = w.i /\ v.j = w.j + 1
            BY <1>2, <1>7, <1>9
        <2>2. B \cap A = (During(y) \cap During(x)) \cup (B1 \cap A)
            BY <1>2, <2>1, OneLeft
        <2>3. A \cap B = both \cup (A \cap B1)
            BY <2>2
        <2>4. \A u \in From(b, w.j + 1) : y[2] <= u[1] /\ u \in From(b, w.j)
            BY <1>2, FromNext
        <2>. HIDE DEF v, x, y, lo, hi, A, B, O, both
        <2>5. Instants(Range(a)) \cap Instants(Range(b)) = Instants(Range(v.out)) \cup (A \cap B1)
            BY <1>3, <1>6, <2>3
        <2>6. \A z \in Range(v.out) : \/ \A u \in From(a, v.i) : z[2] <= u[1]
                                      \/ \A u \in From(b, v.j) : z[2] <= u[1]
            BY <1>3, <1>6, <2>1, <2>4
        <2>. QED
            BY <1>6, <2>1, <2>5, <2>6 DEF WalkSound, v, A
    <1>. QED
        BY <1>8, <1>9

\* The turns of the walk.
WalkSteps(a, b) == [i \in Nat |-> [w \in Walks(a, b) |-> Walked(a, b, w)]]
\* Where it begins.
WalkStart == [out |-> << >>, i |-> 1, j |-> 1]

\* Each of them leads to where the walk may be.
LEMMA WalkStepsType ==
    ASSUME NEW a \in Seq(Spans), NEW b \in Seq(Spans)
    PROVE  /\ WalkSteps(a, b) \in [Nat -> [Walks(a, b) -> Walks(a, b)]]
           /\ WalkStart \in Walks(a, b)
           /\ \A i \in Nat : \A w \in Walks(a, b) : WalkSteps(a, b)[i][w] = Walked(a, b, w)
    <1>1. \A w \in Walks(a, b) : Walked(a, b, w) \in Walks(a, b)
        BY WalkedType
    <1>2. WalkSteps(a, b) \in [Nat -> [Walks(a, b) -> Walks(a, b)]]
        BY <1>1 DEF WalkSteps
    <1>3. \A i \in Nat : \A w \in Walks(a, b) : WalkSteps(a, b)[i][w] = Walked(a, b, w)
        BY DEF WalkSteps
    <1>4. WalkStart \in Walks(a, b)
        <2>1. Len(a) \in Nat /\ Len(b) \in Nat
            OBVIOUS
        <2>2. 1 \in 1 .. Len(a) + 1 /\ 1 \in 1 .. Len(b) + 1 /\ << >> \in Seq(Spans)
            BY <2>1
        <2>. QED
            BY <2>2 DEF Walks, WalkStart
    <1>. QED
        BY <1>2, <1>3, <1>4

\* The walk is their iteration.
LEMMA IntersectIterates ==
    ASSUME NEW a \in Seq(Spans), NEW b \in Seq(Spans)
    PROVE  \E g : /\ g \in Iterations(Walks(a, b), WalkStart, WalkSteps(a, b), Len(a \o b))
                  /\ Intersect(a, b) = g[Len(a \o b)].out
    <1>. DEFINE n == Len(a \o b)
                T == Walks(a, b)
                next == WalkSteps(a, b)
                Step(h) == [k \in 0 .. n |-> IF k = 0 THEN WalkStart ELSE Walked(a, b, h[k - 1])]
                g == CHOOSE h : h = Step(h)
    <1>1. /\ next \in [Nat -> [T -> T]] /\ WalkStart \in T /\ n \in Nat
          /\ \A i \in Nat : \A w \in T : next[i][w] = Walked(a, b, w)
        <2>1. next \in [Nat -> [T -> T]] /\ WalkStart \in T
            BY WalkStepsType
        <2>2. \A i \in Nat : \A w \in T : next[i][w] = Walked(a, b, w)
            BY WalkStepsType
        <2>3. n \in Nat
            OBVIOUS
        <2>. QED
            BY <2>1, <2>2, <2>3
    <1>2. Intersect(a, b) = g[n].out
        BY DEF Intersect, Fold, WalkStart
    <1>. HIDE DEF n, T, next
    <1>3. PICK k : k \in Iterations(T, WalkStart, next, n)
        BY <1>1, Iterate
    <1>4. k \in [0 .. n -> T] /\ k[0] = WalkStart /\ \A i \in 1 .. n : k[i] = next[i][k[i - 1]]
        BY <1>3 DEF Iterations
    <1>5. k = Step(k)
        <2>1. \A i \in 0 .. n : k[i] = IF i = 0 THEN WalkStart ELSE Walked(a, b, k[i - 1])
            <3>. TAKE i \in 0 .. n
            <3>1. i # 0 => i \in 1 .. n /\ k[i - 1] \in T
                BY <1>1, <1>4
            <3>. QED
                BY <1>1, <1>4, <3>1
        <2>2. k = [i \in 0 .. n |-> k[i]]
            BY <1>4
        <2>. QED
            BY <2>1, <2>2
    <1>6. g = Step(g)
        <2>. HIDE DEF Step
        <2>. QED
            BY <1>5
    <1>. HIDE DEF g
    <1>7. /\ g = [i \in 0 .. n |-> g[i]] /\ g[0] = WalkStart
          /\ \A i \in 1 .. n : g[i] = Walked(a, b, g[i - 1])
        <2>1. \A i \in 0 .. n : Step(g)[i] = IF i = 0 THEN WalkStart ELSE Walked(a, b, g[i - 1])
            OBVIOUS
        <2>2. Step(g) = [i \in 0 .. n |-> Step(g)[i]]
            OBVIOUS
        <2>3. 0 \in 0 .. n /\ \A i \in 1 .. n : i \in 0 .. n /\ i # 0
            BY <1>1
        <2>. HIDE DEF Step
        <2>. QED
            BY <1>6, <2>1, <2>2, <2>3
    <1>8. g \in Iterations(T, WalkStart, next, n)
        <2>1. ASSUME NEW i \in 1 .. n, g[i - 1] \in T
              PROVE  g[i] = next[i][g[i - 1]]
            <3>1. i \in Nat
                BY <1>1
            <3>2. next[i][g[i - 1]] = Walked(a, b, g[i - 1])
                BY <1>1, <2>1, <3>1
            <3>. QED
                BY <1>7, <3>2
        <2>. QED
            BY <1>1, <1>7, <2>1, OnlyIteration
    <1>. QED
        BY <1>2, <1>8 DEF n, T, next

\* The walk is at the end of a list, or has made a turn for each interval it
\* has left behind.
Far(a, b, w, k) == w.i > Len(a) \/ w.j > Len(b) \/ w.i + w.j = k + 2

\* A turn gets further, or the walk is at an end.
LEMMA WalkedFar ==
    ASSUME NEW a \in Seq(Spans), NEW b \in Seq(Spans), NEW w \in Walks(a, b), NEW k \in Nat,
           Far(a, b, w, k)
    PROVE  Far(a, b, Walked(a, b, w), k + 1)
    <1>. DEFINE v == Walked(a, b, w)
    <1>1. /\ Len(a) \in Nat /\ Len(b) \in Nat /\ w.i \in Nat /\ w.j \in Nat
        BY DEF Walks
    <1>2. CASE w.i <= Len(a) /\ w.j <= Len(b)
        <2>1. /\ v.i = IF a[w.i][2] < b[w.j][2] THEN w.i + 1 ELSE w.i
              /\ v.j = IF a[w.i][2] < b[w.j][2] THEN w.j ELSE w.j + 1
            BY <1>2, WalkedParts
        <2>2. v.i + v.j = (w.i + w.j) + 1
            BY <1>1, <2>1
        <2>3. w.i + w.j = k + 2
            BY <1>1, <1>2 DEF Far
        <2>. HIDE DEF v
        <2>4. v.i + v.j = (k + 1) + 2
            BY <2>2, <2>3
        <2>. QED
            BY <2>4 DEF Far, v
    <1>3. CASE ~(w.i <= Len(a) /\ w.j <= Len(b))
        <2>1. w.i > Len(a) \/ w.j > Len(b)
            BY <1>1, <1>3
        <2>2. v = w
            BY <2>1 DEF Walked
        <2>. QED
            BY <2>1, <2>2 DEF Far
    <1>. QED
        BY <1>2, <1>3

\* At the end of a list nothing is left to put out.
LEMMA WalkDone ==
    ASSUME NEW a \in Rows, NEW b \in Rows, NEW w \in Walks(a, b), WalkSound(a, b, w),
           w.i > Len(a) \/ w.j > Len(b)
    PROVE  Instants(Range(w.out)) = Instants(Range(a)) \cap Instants(Range(b))
    <1>1. /\ DOMAIN a = 1 .. Len(a) /\ Len(a) \in Nat /\ DOMAIN b = 1 .. Len(b) /\ Len(b) \in Nat
          /\ w.i \in Nat /\ w.j \in Nat
        BY DEF Rows, Walks
    <1>2. w.i > Len(a) => From(a, w.i) = {}
        <2>1. w.i > Len(a) => \A l \in DOMAIN a : ~(w.i <= l)
            BY <1>1
        <2>. QED
            BY <2>1 DEF From
    <1>3. w.j > Len(b) => From(b, w.j) = {}
        <2>1. w.j > Len(b) => \A l \in DOMAIN b : ~(w.j <= l)
            BY <1>1
        <2>. QED
            BY <2>1 DEF From
    <1>4. Instants({}) = {}
        BY InstantsOfAll
    <1>5. Instants(From(a, w.i)) \cap Instants(From(b, w.j)) = {}
        BY <1>2, <1>3, <1>4
    <1>6. Instants(Range(a)) \cap Instants(Range(b))
             = Instants(Range(w.out)) \cup (Instants(From(a, w.i)) \cap Instants(From(b, w.j)))
        BY DEF WalkSound
    <1>. QED
        BY <1>5, <1>6

\* The walk begins with nothing put out and all left.
LEMMA WalkStarts ==
    ASSUME NEW a \in Rows, NEW b \in Rows
    PROVE  WalkSound(a, b, WalkStart) /\ Far(a, b, WalkStart, 0)
    <1>1. WalkStart.out = << >> /\ WalkStart.i = 1 /\ WalkStart.j = 1
        BY DEF WalkStart
    <1>2. << >> \in Rows /\ Range(<< >>) = {} /\ Instants({}) = {}
        BY InstantsOfAll DEF Rows, Separated, Range
    <1>3. From(a, 1) = Range(a) /\ From(b, 1) = Range(b)
        <2>1. DOMAIN a = 1 .. Len(a) /\ DOMAIN b = 1 .. Len(b)
            BY DEF Rows
        <2>2. {l \in DOMAIN a : 1 <= l} = DOMAIN a /\ {l \in DOMAIN b : 1 <= l} = DOMAIN b
            BY <2>1
        <2>. QED
            BY <2>2 DEF From, Range
    <1>4. Far(a, b, WalkStart, 0)
        BY <1>1 DEF Far
    <1>5. WalkSound(a, b, WalkStart)
        BY <1>1, <1>2, <1>3 DEF WalkSound
    <1>. QED
        BY <1>4, <1>5

\* The walk puts out, in a row, the instants that both lists share.
LEMMA IntersectFacts ==
    ASSUME NEW a \in Rows, NEW b \in Rows
    PROVE  /\ Intersect(a, b) \in Rows
           /\ Instants(Range(Intersect(a, b))) = Instants(Range(a)) \cap Instants(Range(b))
    <1>. DEFINE n == Len(a \o b)
                W == Walks(a, b)
    <1>1. a \in Seq(Spans) /\ b \in Seq(Spans)
        BY DEF Rows
    <1>2. n = Len(a) + Len(b) /\ Len(a) \in Nat /\ Len(b) \in Nat /\ n \in Nat
        BY <1>1
    <1>. HIDE DEF n
    <1>3. PICK g : g \in Iterations(W, WalkStart, WalkSteps(a, b), n) /\ Intersect(a, b) = g[n].out
        BY <1>1, IntersectIterates DEF n
    <1>4. /\ g \in [0 .. n -> W] /\ g[0] = WalkStart
          /\ \A i \in 1 .. n : g[i] = WalkSteps(a, b)[i][g[i - 1]]
        BY <1>3 DEF Iterations
    <1>. DEFINE Good == {k \in 0 .. n : WalkSound(a, b, g[k]) /\ Far(a, b, g[k], k)}
    <1>5. 0 \in Good
        <2>1. 0 \in 0 .. n
            BY <1>2
        <2>2. WalkSound(a, b, g[0]) /\ Far(a, b, g[0], 0)
            BY <1>4, WalkStarts
        <2>. QED
            BY <2>1, <2>2
    <1>6. ASSUME NEW k \in 0 .. n - 1, k \in Good
          PROVE  k + 1 \in Good
        <2>1. k + 1 \in 1 .. n /\ (k + 1) - 1 = k /\ k + 1 \in 0 .. n /\ k \in 0 .. n /\ k \in Nat /\ k + 1 \in Nat
            BY <1>2
        <2>2. g[k] \in W /\ WalkSound(a, b, g[k]) /\ Far(a, b, g[k], k)
            BY <1>4, <1>6, <2>1
        <2>3. g[k + 1] = Walked(a, b, g[k])
            <3>1. g[k + 1] = WalkSteps(a, b)[k + 1][g[k]]
                BY <1>4, <2>1
            <3>2. WalkSteps(a, b)[k + 1][g[k]] = Walked(a, b, g[k])
                BY <1>1, <2>1, <2>2, WalkStepsType
            <3>. QED
                BY <3>1, <3>2
        <2>. DEFINE w == g[k]
        <2>. HIDE DEF w
        <2>4. w \in Walks(a, b) /\ WalkSound(a, b, w) /\ Far(a, b, w, k)
            BY <2>2 DEF w
        <2>5. Far(a, b, Walked(a, b, w), k + 1)
            BY <1>1, <2>1, <2>4, WalkedFar
        <2>6. WalkSound(a, b, Walked(a, b, w))
            <3>1. CASE w.i <= Len(a) /\ w.j <= Len(b)
                BY <2>4, <3>1, WalkedSound
            <3>2. CASE ~(w.i <= Len(a) /\ w.j <= Len(b))
                <4>1. w.i \in Nat /\ w.j \in Nat
                    BY <1>2, <2>4 DEF Walks
                <4>2. w.i > Len(a) \/ w.j > Len(b)
                    BY <1>2, <3>2, <4>1
                <4>3. Walked(a, b, w) = w
                    BY <4>2 DEF Walked
                <4>. QED
                    BY <2>4, <4>3
            <3>. QED
                BY <3>1, <3>2
        <2>7. g[k + 1] = Walked(a, b, w)
            BY <2>3 DEF w
        <2>. QED
            BY <2>1, <2>5, <2>6, <2>7
    <1>7. n \in Good
        <2>. HIDE DEF Good
        <2>1. \A k \in 0 .. n : k \in Good
            BY <1>2, <1>5, <1>6, InductionTo
        <2>. QED
            BY <1>2, <2>1
    <1>. DEFINE w == g[n]
    <1>8. w \in Walks(a, b) /\ WalkSound(a, b, w) /\ Far(a, b, w, n)
        BY <1>2, <1>4, <1>7
    <1>9. Intersect(a, b) = w.out
        BY <1>3
    <1>. HIDE DEF w
    <1>10. w.i > Len(a) \/ w.j > Len(b)
        <2>1. w.i \in 1 .. Len(a) + 1 /\ w.j \in 1 .. Len(b) + 1
            BY <1>8 DEF Walks
        <2>2. w.i > Len(a) \/ w.j > Len(b) \/ w.i + w.j = n + 2
            BY <1>8 DEF Far
        <2>. QED
            BY <1>2, <2>1, <2>2
    <1>11. w.out \in Rows
        BY <1>8 DEF WalkSound
    <1>12. Instants(Range(w.out)) = Instants(Range(a)) \cap Instants(Range(b))
        BY <1>8, <1>10, WalkDone
    <1>. QED
        BY <1>9, <1>11, <1>12

-----------------------------------------------------------------------------
(* Subtracting. *)

\* Where the cursor may be.
Cuts == [out : Seq(Spans), cursor : Nat]

\* An interval that does not meet the one that is cut is skipped.
Skipped(x, y) == y[2] <= x[1] \/ y[1] >= x[2]

\* A move of the cursor: past an interval, or skipping it.
LEMMA PastParts ==
    ASSUME NEW x \in Spans, NEW s \in Cuts, NEW y \in Spans
    PROVE  LET t == Past(x, s, y)
           IN  /\ Skipped(x, y) => t = s
               /\ ~Skipped(x, y) =>
                     /\ t.out = IF s.cursor < y[1] THEN Append(s.out, <<s.cursor, y[1]>>) ELSE s.out
                     /\ t.cursor = Larger(s.cursor, y[2])
               /\ t \in Cuts
    <1>. DEFINE t == Past(x, s, y)
    <1>1. s.out \in Seq(Spans) /\ s.cursor \in Nat /\ y[1] \in Nat /\ y[2] \in Nat
        BY SpanFacts DEF Cuts
    <1>2. CASE Skipped(x, y)
        BY <1>2 DEF Past, Skipped
    <1>3. CASE ~Skipped(x, y)
        <2>1. t = [out |-> IF y[1] > s.cursor THEN Append(s.out, <<s.cursor, y[1]>>) ELSE s.out,
                   cursor |-> Larger(s.cursor, y[2])]
            BY <1>3 DEF Past, Skipped
        <2>2. y[1] > s.cursor <=> s.cursor < y[1]
            BY <1>1
        <2>. DEFINE o == IF s.cursor < y[1] THEN Append(s.out, <<s.cursor, y[1]>>) ELSE s.out
                    c == Larger(s.cursor, y[2])
        <2>3. o \in Seq(Spans)
            <3>1. s.cursor < y[1] => <<s.cursor, y[1]>> \in Spans
                BY <1>1, SpanFacts
            <3>. QED
                BY <1>1, <3>1
        <2>4. c \in Nat
            BY <1>1 DEF Larger
        <2>5. t = [out |-> o, cursor |-> c]
            BY <2>1, <2>2
        <2>. HIDE DEF o, c, t
        <2>6. t \in Cuts /\ t.out = o /\ t.cursor = c
            BY <2>3, <2>4, <2>5 DEF Cuts
        <2>. QED
            BY <1>3, <2>6 DEF o, c, t
    <1>. QED
        BY <1>2, <1>3

\* The moves of the cursor.
PastSteps(x, b) ==
    [i \in Nat |-> [s \in Cuts |-> IF i \in 1 .. Len(b) THEN Past(x, s, b[i]) ELSE s]]
\* Where it begins.
CutStart(x) == [out |-> << >>, cursor |-> x[1]]

\* Each of them leads to where the cursor may be.
LEMMA PastStepsType ==
    ASSUME NEW x \in Spans, NEW b \in Seq(Spans)
    PROVE  /\ PastSteps(x, b) \in [Nat -> [Cuts -> Cuts]]
           /\ CutStart(x) \in Cuts
           /\ \A i \in 1 .. Len(b) : \A s \in Cuts : PastSteps(x, b)[i][s] = Past(x, s, b[i])
    <1>1. ASSUME NEW i \in 1 .. Len(b), NEW s \in Cuts
          PROVE  Past(x, s, b[i]) \in Cuts
        <2>1. b[i] \in Spans
            OBVIOUS
        <2>. QED
            BY <2>1, PastParts
    <1>2. PastSteps(x, b) \in [Nat -> [Cuts -> Cuts]]
        BY <1>1 DEF PastSteps
    <1>3. \A i \in 1 .. Len(b) : \A s \in Cuts : PastSteps(x, b)[i][s] = Past(x, s, b[i])
        BY DEF PastSteps
    <1>4. CutStart(x) \in Cuts
        <2>1. x[1] \in Nat /\ << >> \in Seq(Spans)
            BY SpanFacts
        <2>. QED
            BY <2>1 DEF Cuts, CutStart
    <1>. QED
        BY <1>2, <1>3, <1>4

\* Where the cursor has got to behind b.
Moved(x, b) == Fold(LAMBDA t, y : Past(x, t, y), CutStart(x), b)

\* It is their iteration.
LEMMA PastIterates ==
    ASSUME NEW x \in Spans, NEW b \in Seq(Spans)
    PROVE  \E g : /\ g \in Iterations(Cuts, CutStart(x), PastSteps(x, b), Len(b))
                  /\ Moved(x, b) = g[Len(b)]
    <1>. DEFINE n == Len(b)
                start == CutStart(x)
                next == PastSteps(x, b)
                Step(h) == [k \in 0 .. n |-> IF k = 0 THEN start ELSE Past(x, h[k - 1], b[k])]
                g == CHOOSE h : h = Step(h)
    <1>1. /\ next \in [Nat -> [Cuts -> Cuts]] /\ start \in Cuts /\ n \in Nat
          /\ \A i \in 1 .. n : \A t \in Cuts : next[i][t] = Past(x, t, b[i])
        <2>1. next \in [Nat -> [Cuts -> Cuts]] /\ start \in Cuts
            BY PastStepsType
        <2>2. \A i \in 1 .. n : \A t \in Cuts : next[i][t] = Past(x, t, b[i])
            BY PastStepsType
        <2>3. n \in Nat
            OBVIOUS
        <2>. QED
            BY <2>1, <2>2, <2>3
    <1>2. Moved(x, b) = g[n]
        BY DEF Moved, Fold
    <1>. HIDE DEF n, next, start
    <1>3. PICK k : k \in Iterations(Cuts, start, next, n)
        BY <1>1, Iterate
    <1>4. k \in [0 .. n -> Cuts] /\ k[0] = start /\ \A i \in 1 .. n : k[i] = next[i][k[i - 1]]
        BY <1>3 DEF Iterations
    <1>5. k = Step(k)
        <2>1. \A i \in 0 .. n : k[i] = IF i = 0 THEN start ELSE Past(x, k[i - 1], b[i])
            <3>. TAKE i \in 0 .. n
            <3>1. i # 0 => i \in 1 .. n /\ k[i - 1] \in Cuts
                BY <1>1, <1>4
            <3>. QED
                BY <1>1, <1>4, <3>1
        <2>2. k = [i \in 0 .. n |-> k[i]]
            BY <1>4
        <2>. QED
            BY <2>1, <2>2
    <1>6. g = Step(g)
        <2>. HIDE DEF Step
        <2>. QED
            BY <1>5
    <1>. HIDE DEF g
    <1>7. /\ g = [i \in 0 .. n |-> g[i]] /\ g[0] = start
          /\ \A i \in 1 .. n : g[i] = Past(x, g[i - 1], b[i])
        <2>1. \A i \in 0 .. n : Step(g)[i] = IF i = 0 THEN start ELSE Past(x, g[i - 1], b[i])
            OBVIOUS
        <2>2. Step(g) = [i \in 0 .. n |-> Step(g)[i]]
            OBVIOUS
        <2>3. 0 \in 0 .. n /\ \A i \in 1 .. n : i \in 0 .. n /\ i # 0
            BY <1>1
        <2>. HIDE DEF Step
        <2>. QED
            BY <1>6, <2>1, <2>2, <2>3
    <1>8. g \in Iterations(Cuts, start, next, n)
        <2>1. \A i \in 1 .. n : g[i - 1] \in Cuts => g[i] = next[i][g[i - 1]]
            BY <1>1, <1>7
        <2>. QED
            BY <1>1, <1>7, <2>1, OnlyIteration
    <1>. QED
        BY <1>2, <1>8 DEF n, next, start

\* What the cursor leaves behind of x, having moved past the first k of b, and
\* what is left in front of it.
CutSound(x, b, k, s) ==
    /\ s.out \in Rows /\ x[1] <= s.cursor
    /\ During(x) \ Instants(FirstOnes(b, k)) = Instants(Range(s.out)) \cup (s.cursor .. x[2] - 1)
    /\ \A z \in Range(s.out) : /\ x[1] <= z[1] /\ z[2] <= x[2] /\ z[2] <= s.cursor
                               /\ \A l \in DOMAIN b : k < l => z[2] <= b[l][1]

\* An interval that is skipped shares no instant.
LEMMA SkippedApart ==
    ASSUME NEW x \in Spans, NEW y \in Spans, Skipped(x, y)
    PROVE  During(x) \ During(y) = During(x)
    <1>1. x[1] \in Nat /\ x[2] \in Nat /\ y[1] \in Nat /\ y[2] \in Nat
        BY SpanFacts
    <1>2. (x[1] .. x[2] - 1) \cap (y[1] .. y[2] - 1) = {}
        BY <1>1 DEF Skipped
    <1>. QED
        BY <1>2 DEF During

\* Taking an interval out of what is in front of the cursor.
LEMMA InFront ==
    ASSUME NEW c \in Nat, NEW x \in Spans, NEW y \in Spans, ~Skipped(x, y)
    PROVE  LET d == Larger(c, y[2])
           IN  /\ d \in Nat /\ c <= d /\ y[2] <= d
               /\ (c .. x[2] - 1) \ During(y) = (c .. y[1] - 1) \cup (d .. x[2] - 1)
    <1>. DEFINE d == Larger(c, y[2])
    <1>1. x[1] \in Nat /\ x[2] \in Nat /\ y[1] \in Nat /\ y[2] \in Nat /\ y[1] <= y[2]
        BY SpanFacts
    <1>2. d = IF c < y[2] THEN y[2] ELSE c
        BY DEF Larger
    <1>3. y[1] < x[2]
        BY <1>1 DEF Skipped
    <1>. HIDE DEF d
    <1>4. d \in Nat /\ c <= d /\ y[2] <= d
        BY <1>1, <1>2
    <1>. DEFINE p == y[1]
                q == y[2]
                r == x[2]
    <1>5. p \in Nat /\ q \in Nat /\ r \in Nat /\ p <= q /\ p < r /\ d = IF c < q THEN q ELSE c
        BY <1>1, <1>2, <1>3
    <1>. HIDE DEF p, q, r
    <1>6. (c .. r - 1) \ (p .. q - 1) = (c .. p - 1) \cup (d .. r - 1)
        <2>1. ASSUME NEW t
              PROVE  t \in (c .. r - 1) \ (p .. q - 1) <=> t \in (c .. p - 1) \cup (d .. r - 1)
            BY <1>4, <1>5
        <2>. QED
            BY <2>1
    <1>. QED
        BY <1>4, <1>6 DEF During, d, p, q, r

\* Moving past an interval that is not skipped.
LEMMA OutMoves ==
    ASSUME NEW s \in Rows, NEW c \in Nat, NEW y \in Spans, \A z \in Range(s) : z[2] <= c
    PROVE  LET t == IF c < y[1] THEN Append(s, <<c, y[1]>>) ELSE s
           IN  /\ t \in Rows
               /\ Instants(Range(t)) = Instants(Range(s)) \cup (c .. y[1] - 1)
               /\ \A z \in Range(t) : z \in Range(s) \/ (c < y[1] /\ z[1] = c /\ z[2] = y[1])
    <1>1. y[1] \in Nat /\ s \in Seq(Spans)
        BY SpanFacts DEF Rows
    <1>. DEFINE p == y[1]
    <1>2. CASE c < p
        <2>. DEFINE z == <<c, p>>
        <2>1. z \in Spans /\ z[1] = c /\ z[2] = p
            BY <1>1, <1>2, SpanFacts
        <2>. HIDE DEF z
        <2>2. Append(s, z) \in Rows
            BY <2>1, RowAppend
        <2>3. Range(Append(s, z)) = Range(s) \cup {z}
            BY <1>1, <2>1, RangeAppend
        <2>4. Instants(Range(s) \cup {z}) = Instants(Range(s)) \cup Instants({z}) /\ Instants({z}) = During(z)
            BY InstantsOfAll
        <2>5. During(z) = c .. p - 1
            BY <2>1 DEF During
        <2>. HIDE DEF p
        <2>6. Instants(Range(Append(s, z))) = Instants(Range(s)) \cup (c .. p - 1)
            BY <2>3, <2>4, <2>5
        <2>7. \A u \in Range(Append(s, z)) : u \in Range(s) \/ (c < p /\ u[1] = c /\ u[2] = p)
            BY <1>2, <2>1, <2>3
        <2>. QED
            BY <1>2, <2>2, <2>6, <2>7 DEF z, p
    <1>3. CASE ~(c < p)
        <2>1. c .. p - 1 = {}
            BY <1>1, <1>3
        <2>. QED
            BY <1>3, <2>1
    <1>. QED
        BY <1>2, <1>3

\* Moving on keeps what is left of x.
LEMMA PastSound ==
    ASSUME NEW x \in Spans, NEW b \in Rows, NEW k \in Nat, k + 1 \in DOMAIN b, NEW s \in Cuts,
           CutSound(x, b, k, s)
    PROVE  CutSound(x, b, k + 1, Past(x, s, b[k + 1]))
    <1>. DEFINE y == b[k + 1]
                t == Past(x, s, y)
                c == s.cursor
                O == Instants(Range(s.out))
                F == Instants(FirstOnes(b, k))
                G == Instants(FirstOnes(b, k + 1))
    <1>1. b \in Seq(Spans) /\ Separated(b) /\ DOMAIN b = 1 .. Len(b) /\ Len(b) \in Nat
        BY DEF Rows
    <1>2. y \in Spans
        BY <1>1
    <1>3. y[1] \in Nat /\ y[2] \in Nat /\ y[1] <= y[2] /\ x[1] \in Nat /\ x[2] \in Nat /\ c \in Nat
        BY <1>2, SpanFacts DEF Cuts
    <1>4. G = F \cup During(y)
        <2>1. k \in 0 .. Len(b) - 1
            BY <1>1
        <2>2. FirstOnes(b, k + 1) = FirstOnes(b, k) \cup {b[k + 1]}
            BY <1>1, <2>1, AllOnes
        <2>3. Instants({b[k + 1]}) = During(b[k + 1])
            BY InstantsOfAll
        <2>4. Instants(FirstOnes(b, k) \cup {b[k + 1]}) = Instants(FirstOnes(b, k)) \cup Instants({b[k + 1]})
            BY InstantsOfAll
        <2>. QED
            BY <2>2, <2>3, <2>4
    <1>5. /\ s.out \in Rows /\ x[1] <= c
          /\ During(x) \ F = O \cup (c .. x[2] - 1)
          /\ \A z \in Range(s.out) : /\ x[1] <= z[1] /\ z[2] <= x[2] /\ z[2] <= c
                                     /\ \A l \in DOMAIN b : k < l => z[2] <= b[l][1]
        BY DEF CutSound
    <1>6. \A l \in DOMAIN b : k + 1 < l => k < l
        BY <1>1
    <1>7. \A z \in Range(s.out) : z[2] <= y[1]
        <2>1. k < k + 1
            OBVIOUS
        <2>. QED
            BY <1>5, <2>1
    <1>8. \A z \in Range(s.out) : z \in Spans
        BY <1>5 DEF Rows, Range
    <1>9. CASE Skipped(x, y)
        <2>1. t = s
            BY <1>2, <1>9, PastParts
        <2>2. During(x) \ During(y) = During(x)
            BY <1>2, <1>9, SkippedApart
        <2>. HIDE DEF y, t, c, F, G, O
        <2>3. During(x) \ G = O \cup (c .. x[2] - 1)
            BY <1>4, <1>5, <2>2
        <2>. QED
            BY <1>5, <1>6, <2>1, <2>3 DEF CutSound, y, t, c, G, O
    <1>10. CASE ~Skipped(x, y)
        <2>. DEFINE d == Larger(c, y[2])
                    o == IF c < y[1] THEN Append(s.out, <<c, y[1]>>) ELSE s.out
        <2>1. t.out = o /\ t.cursor = d
            BY <1>2, <1>10, PastParts
        <2>2. d \in Nat /\ c <= d /\ y[2] <= d /\ (c .. x[2] - 1) \ During(y) = (c .. y[1] - 1) \cup (d .. x[2] - 1)
            <3>. HIDE DEF c, y
            <3>. QED
                BY <1>2, <1>3, <1>10, InFront
        <2>3. /\ o \in Rows /\ Instants(Range(o)) = O \cup (c .. y[1] - 1)
              /\ \A z \in Range(o) : z \in Range(s.out) \/ (c < y[1] /\ z[1] = c /\ z[2] = y[1])
            <3>. DEFINE r == s.out
            <3>1. r \in Rows /\ \A z \in Range(r) : z[2] <= c
                BY <1>5
            <3>. HIDE DEF c, y, r
            <3>2. LET u == IF c < y[1] THEN Append(r, <<c, y[1]>>) ELSE r
                  IN  /\ u \in Rows
                      /\ Instants(Range(u)) = Instants(Range(r)) \cup (c .. y[1] - 1)
                      /\ \A z \in Range(u) : z \in Range(r) \/ (c < y[1] /\ z[1] = c /\ z[2] = y[1])
                BY <1>2, <1>3, <3>1, OutMoves
            <3>. QED
                BY <3>2 DEF r
        <2>4. O \ During(y) = O
            <3>. SUFFICES ASSUME NEW z \in Range(s.out), NEW i \in During(z), i \in During(y)
                          PROVE  FALSE
                BY DEF Instants
            <3>1. z[2] <= y[1] /\ z \in Spans
                BY <1>7, <1>8
            <3>2. z[1] \in Nat /\ z[2] \in Nat
                BY <3>1, SpanFacts
            <3>3. i \in z[1] .. z[2] - 1 /\ i \in y[1] .. y[2] - 1
                BY DEF During
            <3>. QED
                BY <1>3, <3>1, <3>2, <3>3
        <2>5. y[1] < x[2]
            BY <1>3, <1>10 DEF Skipped
        <2>6. \A l \in DOMAIN b : k + 1 < l => y[2] <= b[l][1]
            BY <1>1 DEF Separated
        <2>7. \A l \in DOMAIN b : b[l][1] \in Nat
            BY <1>1, SpanFacts
        <2>. HIDE DEF y, t, c, F, G, O, d, o
        <2>8. During(x) \ G = Instants(Range(o)) \cup (d .. x[2] - 1)
            BY <1>4, <1>5, <2>2, <2>3, <2>4
        <2>9. ASSUME NEW z \in Range(o)
              PROVE  /\ x[1] <= z[1] /\ z[2] <= x[2] /\ z[2] <= d
                     /\ \A l \in DOMAIN b : k + 1 < l => z[2] <= b[l][1]
            <3>1. CASE z \in Range(s.out)
                <4>1. z[2] \in Nat /\ z[2] <= c
                    BY <1>5, <1>8, <3>1, SpanFacts
                <4>2. z[2] <= d
                    BY <1>3, <2>2, <4>1
                <4>. QED
                    BY <1>5, <1>6, <3>1, <4>2
            <3>2. CASE c < y[1] /\ z[1] = c /\ z[2] = y[1]
                <4>1. x[1] <= z[1] /\ z[2] <= x[2] /\ z[2] <= d
                    BY <1>3, <1>5, <2>2, <2>5, <3>2
                <4>2. ASSUME NEW l \in DOMAIN b, k + 1 < l
                      PROVE  z[2] <= b[l][1]
                    BY <1>3, <2>6, <2>7, <3>2, <4>2
                <4>. QED
                    BY <4>1, <4>2
            <3>. QED
                BY <2>3, <3>1, <3>2
        <2>10. x[1] <= d
            BY <1>3, <1>5, <2>2
        <2>11. /\ t.out \in Rows /\ x[1] <= t.cursor
               /\ During(x) \ G = Instants(Range(t.out)) \cup (t.cursor .. x[2] - 1)
               /\ \A z \in Range(t.out) : /\ x[1] <= z[1] /\ z[2] <= x[2] /\ z[2] <= t.cursor
                                          /\ \A l \in DOMAIN b : k + 1 < l => z[2] <= b[l][1]
            BY <2>1, <2>3, <2>8, <2>9, <2>10
        <2>. QED
            BY <2>11 DEF CutSound, t, y, G
    <1>. QED
        BY <1>9, <1>10

\* The cursor begins with all of x in front of it.
LEMMA CutStarts ==
    ASSUME NEW x \in Spans, NEW b \in Rows
    PROVE  CutSound(x, b, 0, CutStart(x))
    <1>1. CutStart(x).out = << >> /\ CutStart(x).cursor = x[1]
        BY DEF CutStart
    <1>2. << >> \in Rows /\ Range(<< >>) = {} /\ Instants({}) = {}
        BY InstantsOfAll DEF Rows, Separated, Range
    <1>3. FirstOnes(b, 0) = {}
        BY AllOnes DEF Rows
    <1>4. During(x) = x[1] .. x[2] - 1 /\ x[1] <= x[1]
        BY SpanFacts DEF During
    <1>. QED
        BY <1>1, <1>2, <1>3, <1>4 DEF CutSound

\* Behind b the cursor has left the instants of x that are not in b.
LEMMA MovedSound ==
    ASSUME NEW x \in Spans, NEW b \in Rows
    PROVE  Moved(x, b) \in Cuts /\ CutSound(x, b, Len(b), Moved(x, b))
    <1>. DEFINE n == Len(b)
    <1>1. b \in Seq(Spans) /\ DOMAIN b = 1 .. n /\ n \in Nat
        BY DEF Rows
    <1>2. PICK g : g \in Iterations(Cuts, CutStart(x), PastSteps(x, b), n) /\ Moved(x, b) = g[n]
        BY <1>1, PastIterates
    <1>3. /\ g \in [0 .. n -> Cuts] /\ g[0] = CutStart(x)
          /\ \A i \in 1 .. n : g[i] = PastSteps(x, b)[i][g[i - 1]]
        BY <1>2 DEF Iterations
    <1>. DEFINE Good == {k \in 0 .. n : CutSound(x, b, k, g[k])}
    <1>4. 0 \in Good
        <2>1. 0 \in 0 .. n
            BY <1>1
        <2>2. CutSound(x, b, 0, g[0])
            BY <1>3, CutStarts
        <2>. QED
            BY <2>1, <2>2
    <1>5. ASSUME NEW k \in 0 .. n - 1, k \in Good
          PROVE  k + 1 \in Good
        <2>1. k + 1 \in 1 .. n /\ (k + 1) - 1 = k /\ k + 1 \in 0 .. n /\ k \in 0 .. n /\ k \in Nat
            BY <1>1
        <2>2. g[k] \in Cuts /\ CutSound(x, b, k, g[k])
            BY <1>3, <1>5, <2>1
        <2>3. g[k + 1] = Past(x, g[k], b[k + 1])
            <3>1. g[k + 1] = PastSteps(x, b)[k + 1][g[k]]
                BY <1>3, <2>1
            <3>2. PastSteps(x, b)[k + 1][g[k]] = Past(x, g[k], b[k + 1])
                BY <1>1, <2>1, <2>2, PastStepsType
            <3>. QED
                BY <3>1, <3>2
        <2>. DEFINE s == g[k]
        <2>4. s \in Cuts /\ CutSound(x, b, k, s) /\ g[k + 1] = Past(x, s, b[k + 1]) /\ k + 1 \in DOMAIN b
            BY <1>1, <2>1, <2>2, <2>3
        <2>. HIDE DEF s
        <2>5. CutSound(x, b, k + 1, Past(x, s, b[k + 1]))
            BY <2>1, <2>4, PastSound
        <2>. QED
            BY <2>1, <2>4, <2>5
    <1>6. n \in Good
        <2>. HIDE DEF Good
        <2>1. \A k \in 0 .. n : k \in Good
            BY <1>1, <1>4, <1>5, InductionTo
        <2>. QED
            BY <1>1, <2>1
    <1>7. n \in 0 .. n
        BY <1>1
    <1>. QED
        BY <1>2, <1>3, <1>6, <1>7

\* What is cut is, in a row inside x, the instants of x that b does not have.
LEMMA CutFacts ==
    ASSUME NEW x \in Spans, NEW b \in Rows
    PROVE  /\ Cut(x, b) \in Rows
           /\ Instants(Range(Cut(x, b))) = During(x) \ Instants(Range(b))
           /\ \A z \in Range(Cut(x, b)) : x[1] <= z[1] /\ z[2] <= x[2]
    <1>. DEFINE s == Moved(x, b)
                o == s.out
                c == s.cursor
                t == Cut(x, b)
    <1>1. s \in Cuts /\ CutSound(x, b, Len(b), s)
        BY MovedSound
    <1>2. t = IF c < x[2] THEN Append(o, <<c, x[2]>>) ELSE o
        BY DEF Cut, Moved, CutStart
    <1>3. FirstOnes(b, Len(b)) = Range(b)
        BY AllOnes DEF Rows
    <1>. HIDE DEF s, t
    <1>4. /\ o \in Rows /\ x[1] <= c /\ c \in Nat
          /\ During(x) \ Instants(Range(b)) = Instants(Range(o)) \cup (c .. x[2] - 1)
          /\ \A z \in Range(o) : x[1] <= z[1] /\ z[2] <= x[2] /\ z[2] <= c
        BY <1>1, <1>3 DEF CutSound, Cuts
    <1>. HIDE DEF o, c
    <1>. DEFINE y == <<x[2], x[2]>>
    <1>5. x[1] \in Nat /\ x[2] \in Nat /\ y \in Spans /\ y[1] = x[2] /\ x[2] <= x[2]
        BY SpanFacts
    <1>. HIDE DEF y
    <1>6. LET u == IF c < y[1] THEN Append(o, <<c, y[1]>>) ELSE o
          IN  /\ u \in Rows
              /\ Instants(Range(u)) = Instants(Range(o)) \cup (c .. y[1] - 1)
              /\ \A z \in Range(u) : z \in Range(o) \/ (c < y[1] /\ z[1] = c /\ z[2] = y[1])
        BY <1>4, <1>5, OutMoves
    <1>7. /\ t \in Rows
          /\ Instants(Range(t)) = Instants(Range(o)) \cup (c .. x[2] - 1)
          /\ \A z \in Range(t) : z \in Range(o) \/ (c < x[2] /\ z[1] = c /\ z[2] = x[2])
        BY <1>2, <1>5, <1>6
    <1>8. \A z \in Range(t) : x[1] <= z[1] /\ z[2] <= x[2]
        BY <1>4, <1>5, <1>7
    <1>. QED
        BY <1>4, <1>7, <1>8 DEF t

\* One row behind another.
LEMMA RowConcat ==
    ASSUME NEW s \in Rows, NEW t \in Rows, \A x \in Range(s) : \A y \in Range(t) : x[2] <= y[1]
    PROVE  s \o t \in Rows
    <1>1. /\ s \in Seq(Spans) /\ t \in Seq(Spans) /\ Separated(s) /\ Separated(t)
        BY DEF Rows
    <1>2. /\ DOMAIN s = 1 .. Len(s) /\ Len(s) \in Nat /\ DOMAIN t = 1 .. Len(t) /\ Len(t) \in Nat
          /\ DOMAIN (s \o t) = 1 .. Len(s) + Len(t) /\ s \o t \in Seq(Spans)
          /\ \A i \in 1 .. Len(s) + Len(t) : (s \o t)[i] = IF i <= Len(s) THEN s[i] ELSE t[i - Len(s)]
        BY <1>1
    <1>. DEFINE m == Len(s)
                n == Len(t)
                u == s \o t
    <1>3. ASSUME NEW i \in 1 .. m + n, NEW j \in 1 .. m + n, i < j
          PROVE  u[i][2] <= u[j][1]
        <2>1. CASE j <= m
            <3>1. i \in DOMAIN s /\ j \in DOMAIN s /\ u[i] = s[i] /\ u[j] = s[j]
                BY <1>2, <1>3, <2>1
            <3>. QED
                BY <1>1, <1>3, <3>1 DEF Separated
        <2>2. CASE i <= m /\ ~(j <= m)
            <3>1. i \in DOMAIN s /\ j - m \in DOMAIN t /\ u[i] = s[i] /\ u[j] = t[j - m]
                BY <1>2, <1>3, <2>2
            <3>2. s[i] \in Range(s) /\ t[j - m] \in Range(t)
                BY <3>1 DEF Range
            <3>. QED
                BY <3>1, <3>2
        <2>3. CASE ~(i <= m)
            <3>1. /\ i - m \in DOMAIN t /\ j - m \in DOMAIN t /\ i - m < j - m
                  /\ u[i] = t[i - m] /\ u[j] = t[j - m]
                BY <1>2, <1>3, <2>3
            <3>. QED
                BY <1>1, <3>1 DEF Separated
        <2>. QED
            BY <1>2, <1>3, <2>1, <2>2, <2>3
    <1>4. Separated(u)
        BY <1>2, <1>3 DEF Separated
    <1>. QED
        BY <1>2, <1>4 DEF Rows

\* Subtracting leaves, in a row, the instants of a that b does not have.
LEMMA SubtractFacts ==
    ASSUME NEW a \in Rows, NEW b \in Rows
    PROVE  /\ Subtract(a, b) \in Rows
           /\ Instants(Range(Subtract(a, b))) = Instants(Range(a)) \ Instants(Range(b))
    <1>. DEFINE n == Len(a)
                f == [i \in 1 .. n |-> Cut(a[i], b)]
                B == Instants(Range(b))
    <1>1. a \in Seq(Spans) /\ Separated(a) /\ DOMAIN a = 1 .. n /\ n \in Nat
        BY DEF Rows
    <1>2. \A i \in 1 .. n : a[i] \in Spans /\ f[i] = Cut(a[i], b)
        BY <1>1
    <1>3. ASSUME NEW i \in 1 .. n
          PROVE  /\ f[i] \in Rows /\ Instants(Range(f[i])) = During(a[i]) \ B
                 /\ \A z \in Range(f[i]) : a[i][1] <= z[1] /\ z[2] <= a[i][2] /\ z \in Spans
        <2>1. a[i] \in Spans /\ f[i] = Cut(a[i], b)
            BY <1>2
        <2>2. /\ Cut(a[i], b) \in Rows
              /\ Instants(Range(Cut(a[i], b))) = During(a[i]) \ Instants(Range(b))
              /\ \A z \in Range(Cut(a[i], b)) : a[i][1] <= z[1] /\ z[2] <= a[i][2]
            BY <2>1, CutFacts
        <2>3. \A z \in Range(Cut(a[i], b)) : z \in Spans
            BY <2>2 DEF Rows, Range
        <2>. QED
            BY <2>1, <2>2, <2>3
    <1>4. f \in [1 .. n -> Seq(Spans)]
        <2>1. \A i \in 1 .. n : f[i] \in Seq(Spans)
            BY <1>3 DEF Rows
        <2>2. f = [i \in 1 .. n |-> f[i]]
            OBVIOUS
        <2>. HIDE DEF f
        <2>. QED
            BY <2>1, <2>2
    <1>5. Subtract(a, b) = FlattenSeq(f)
        BY <1>1 DEF Subtract
    <1>. HIDE DEF f, B, n
    <1>. DEFINE g(k) == FlattenSeq(FirstOf(f, k))
                Good == {k \in 0 .. n :
                            /\ g(k) \in Rows
                            /\ Instants(Range(g(k))) = Instants(FirstOnes(a, k)) \ B
                            /\ \A z \in Range(g(k)) : \E i \in 1 .. k : z[2] <= a[i][2]}
    <1>6. 0 \in Good
        <2>1. FirstOf(f, 0) \in [1 .. 0 -> {}]
            BY DEF FirstOf
        <2>2. g(0) = << >>
            BY <2>1, FlattenNone
        <2>3. << >> \in Rows /\ Range(<< >>) = {} /\ Instants({}) = {}
            BY InstantsOfAll DEF Rows, Separated, Range
        <2>4. FirstOnes(a, 0) = {}
            BY <1>1, AllOnes
        <2>5. 0 \in 0 .. n
            BY <1>1
        <2>. HIDE DEF g
        <2>. QED
            BY <2>2, <2>3, <2>4, <2>5
    <1>7. ASSUME NEW k \in 0 .. n - 1, k \in Good
          PROVE  k + 1 \in Good
        <2>1. k + 1 \in 1 .. n /\ k + 1 \in 0 .. n /\ k \in 0 .. n /\ k \in Nat
            BY <1>1
        <2>. DEFINE h == FirstOf(f, k + 1)
                    y == f[k + 1]
                    x == a[k + 1]
        <2>2. h \in [1 .. k + 1 -> Seq(Spans)] /\ h[k + 1] = y /\ FirstOf(h, k) = FirstOf(f, k)
            <3>1. \A i \in 1 .. k + 1 : i \in 1 .. n
                BY <1>1, <2>1
            <3>2. \A i \in 1 .. k : i \in 1 .. k + 1
                BY <2>1
            <3>3. k + 1 \in 1 .. k + 1
                BY <2>1
            <3>4. h \in [1 .. k + 1 -> Seq(Spans)] /\ \A i \in 1 .. k + 1 : h[i] = f[i]
                BY <1>4, <3>1 DEF FirstOf
            <3>. HIDE DEF h
            <3>5. \A i \in 1 .. k : h[i] = f[i]
                BY <3>2, <3>4
            <3>. QED
                BY <3>3, <3>4, <3>5 DEF FirstOf
        <2>. HIDE DEF h
        <2>3. FlattenSeq(h) = FlattenSeq(FirstOf(h, k)) \o h[k + 1]
            BY <2>1, <2>2, FlattenLast
        <2>. DEFINE p == g(k)
                    q == g(k + 1)
        <2>4. q = p \o y
            BY <2>2, <2>3 DEF h
        <2>5. /\ p \in Rows /\ Instants(Range(p)) = Instants(FirstOnes(a, k)) \ B
              /\ \A z \in Range(p) : \E i \in 1 .. k : z[2] <= a[i][2]
            BY <1>7
        <2>6. /\ y \in Rows /\ Instants(Range(y)) = During(x) \ B
              /\ \A z \in Range(y) : x[1] <= z[1] /\ z[2] <= x[2] /\ z \in Spans
            BY <1>3, <2>1
        <2>7. x \in Spans
            BY <1>2, <2>1
        <2>8. Instants(FirstOnes(a, k + 1)) = Instants(FirstOnes(a, k)) \cup During(x)
            <3>1. FirstOnes(a, k + 1) = FirstOnes(a, k) \cup {a[k + 1]}
                BY <1>1, AllOnes DEF n
            <3>2. Instants({a[k + 1]}) = During(a[k + 1])
                BY InstantsOfAll
            <3>3. Instants(FirstOnes(a, k) \cup {a[k + 1]}) = Instants(FirstOnes(a, k)) \cup Instants({a[k + 1]})
                BY InstantsOfAll
            <3>. QED
                BY <3>1, <3>2, <3>3
        <2>9. ASSUME NEW z \in Range(p), NEW u \in Range(y)
              PROVE  z[2] <= u[1]
            <3>1. PICK i \in 1 .. k : z[2] <= a[i][2]
                BY <2>5
            <3>2. i \in DOMAIN a /\ k + 1 \in DOMAIN a /\ i < k + 1
                BY <1>1, <2>1
            <3>3. a[i][2] <= x[1]
                BY <1>1, <3>2 DEF Separated
            <3>4. a[i] \in Spans /\ z \in Spans /\ u \in Spans /\ x[1] <= u[1]
                <4>1. a[i] \in Spans
                    BY <1>1, <3>2
                <4>2. u \in Spans /\ x[1] <= u[1]
                    BY <2>6
                <4>3. p \in Seq(Spans)
                    BY <2>5 DEF Rows
                <4>. HIDE DEF p
                <4>4. z \in Spans
                    BY <4>3 DEF Range
                <4>. QED
                    BY <4>1, <4>2, <4>4
            <3>5. a[i][2] \in Nat /\ z[2] \in Nat /\ u[1] \in Nat /\ x[1] \in Nat
                BY <2>7, <3>4, SpanFacts
            <3>. HIDE DEF x, y, p
            <3>. QED
                BY <3>1, <3>3, <3>4, <3>5
        <2>. HIDE DEF p, q, x, y, g
        <2>10. p \o y \in Rows
            BY <2>5, <2>6, <2>9, RowConcat
        <2>11. Range(p \o y) = Range(p) \cup Range(y)
            <3>1. p \in Seq(Spans) /\ y \in Seq(Spans)
                BY <2>5, <2>6 DEF Rows
            <3>. QED
                BY <3>1, RangeConcat
        <2>12. Instants(Range(p) \cup Range(y)) = Instants(Range(p)) \cup Instants(Range(y))
            BY InstantsOfAll
        <2>13. Instants(Range(q)) = Instants(FirstOnes(a, k + 1)) \ B
            BY <2>4, <2>5, <2>6, <2>8, <2>11, <2>12
        <2>14. ASSUME NEW z \in Range(q)
               PROVE  \E i \in 1 .. k + 1 : z[2] <= a[i][2]
            <3>1. CASE z \in Range(p)
                <4>1. PICK i \in 1 .. k : z[2] <= a[i][2]
                    BY <2>5, <3>1
                <4>2. i \in 1 .. k + 1
                    BY <2>1
                <4>. QED
                    BY <4>1, <4>2
            <3>2. CASE z \in Range(y)
                <4>1. z[2] <= a[k + 1][2]
                    BY <2>6, <3>2 DEF x
                <4>2. k + 1 \in 1 .. k + 1
                    BY <2>1
                <4>. QED
                    BY <4>1, <4>2
            <3>. QED
                BY <2>4, <2>11, <3>1, <3>2
        <2>15. /\ g(k + 1) \in Rows
               /\ Instants(Range(g(k + 1))) = Instants(FirstOnes(a, k + 1)) \ B
               /\ \A z \in Range(g(k + 1)) : \E i \in 1 .. k + 1 : z[2] <= a[i][2]
            BY <2>4, <2>10, <2>13, <2>14 DEF q
        <2>. QED
            BY <2>1, <2>15
    <1>8. n \in Good
        <2>. HIDE DEF Good
        <2>1. \A k \in 0 .. n : k \in Good
            BY <1>1, <1>6, <1>7, InductionTo
        <2>. QED
            BY <1>1, <2>1
    <1>9. FirstOf(f, n) = f
        BY <1>4 DEF FirstOf
    <1>10. FirstOnes(a, n) = Range(a)
        BY <1>1, AllOnes DEF n
    <1>. QED
        BY <1>5, <1>8, <1>9, <1>10 DEF B

-----------------------------------------------------------------------------
(* The events of the trace. *)

\* What the profiler has written.
Types ==
    /\ profile \in Profiles /\ prefer \in BOOLEAN
    /\ trace \in Seq(profile) /\ Len(trace) <= MaxEvents

\* The pool consists of the profile's events.
LEMMA PoolType ==
    ASSUME Types
    PROVE  Pool \in Seq(profile)
    <1>. DEFINE R == {e \in Range(trace) : e.cat \in PoolCats}
    <1>1. Pool = Only(trace, R)
        BY SelectIsOnly DEF Pool, Types
    <1>. HIDE DEF R
    <1>2. Only(trace, R) \in Seq(profile \cap R)
        BY OnlyType DEF Types
    <1>. QED
        BY <1>1, <1>2

\* The interval of an event of the profile.
LEMMA EventSpan ==
    ASSUME Types, NEW e \in profile
    PROVE  /\ <<e.begin, e.end>> \in Spans
           /\ During(<<e.begin, e.end>>) = e.begin .. e.end - 1
    <1>1. e.begin \in Nat /\ e.end \in Nat /\ e.begin <= e.end
        BY TraceAnalysisAssumption DEF Types, IsEvent
    <1>. QED
        BY <1>1, SpanFacts DEF During

\* The intervals of the chosen events: one for each, with their instants.
LEMMA IntervalsFacts ==
    ASSUME Types, NEW S \in SUBSET Range(Pool)
    PROVE  /\ Intervals(S) \in Seq(Spans) /\ Len(Intervals(S)) = Tally(Pool, S)
           /\ Instants(Range(Intervals(S))) = Busy(S)
    <1>. DEFINE chosen == Only(Pool, S)
                iv == Intervals(S)
    <1>1. Pool \in Seq(profile)
        BY PoolType
    <1>2. chosen \in Seq(profile \cap S) /\ Range(chosen) = S
        <2>1. chosen \in Seq(profile \cap S)
            BY <1>1, OnlyType
        <2>2. Range(Only(Pool, S)) = Range(Pool) \cap S
            BY <1>1, OnlyRange
        <2>. QED
            BY <2>1, <2>2
    <1>3. Select(Pool, S) = chosen
        BY <1>1, SelectIsOnly
    <1>4. iv = [i \in DOMAIN chosen |-> <<chosen[i].begin, chosen[i].end>>]
        BY <1>3 DEF Intervals
    <1>5. Len(chosen) = Tally(Pool, S)
        BY DEF Tally
    <1>. HIDE DEF chosen, iv
    <1>6. DOMAIN chosen = 1 .. Len(chosen) /\ Len(chosen) \in Nat /\ \A i \in DOMAIN chosen : chosen[i] \in profile
        BY <1>2
    <1>7. \A i \in DOMAIN chosen : iv[i] \in Spans /\ During(iv[i]) = chosen[i].begin .. chosen[i].end - 1
        BY <1>4, <1>6, EventSpan
    <1>8. iv \in Seq(Spans) /\ Len(iv) = Len(chosen) /\ DOMAIN iv = DOMAIN chosen
        BY <1>4, <1>6, <1>7
    <1>9. \A t : t \in Instants(Range(iv)) <=> t \in Busy(S)
        <2>1. ASSUME NEW t
              PROVE  t \in Instants(Range(iv)) <=> \E i \in DOMAIN chosen : t \in During(iv[i])
            BY <1>8 DEF Instants, Range
        <2>2. ASSUME NEW t
              PROVE  t \in Busy(S) <=> \E i \in DOMAIN chosen : t \in chosen[i].begin .. chosen[i].end - 1
            BY <1>2 DEF Busy, Range
        <2>. QED
            BY <1>7, <2>1, <2>2
    <1>. QED
        BY <1>5, <1>8, <1>9 DEF iv

\* Every event of the pool is communication or computation, and not both.
LEMMA EveryEvent ==
    ASSUME Types
    PROVE  Len(comm_iv) + Len(compute_iv) = Len(Pool)
    <1>1. Pool \in Seq(Range(Pool))
        <2>1. Pool \in Seq(profile)
            BY PoolType
        <2>2. \A i \in DOMAIN Pool : Pool[i] \in Range(Pool)
            BY DEF Range
        <2>. QED
            BY <2>1, <2>2
    <1>. DEFINE A == CommEvents
                P == Range(Pool)
                B == P \ A
    <1>2. A \subseteq P
        BY DEF CommEvents
    <1>3. P \subseteq A \cup B /\ P \cap A \cap B = {}
        OBVIOUS
    <1>4. Tally(Pool, A) + Tally(Pool, B) = Len(Pool)
        <2>. HIDE DEF A, P, B
        <2>1. Pool \in Seq(P)
            BY <1>1 DEF P
        <2>. QED
            BY <1>3, <2>1, TallyBoth
    <1>5. Len(comm_iv) = Tally(Pool, A) /\ Len(compute_iv) = Tally(Pool, B)
        BY <1>2, IntervalsFacts DEF comm_iv, compute_iv
    <1>. QED
        BY <1>4, <1>5

\* Merging communication and computation.
LEMMA CommMerged ==
    ASSUME Types
    PROVE  Merge(comm_iv) \in Rows /\ Instants(Range(Merge(comm_iv))) = BusyComm
    <1>1. CommEvents \in SUBSET Range(Pool)
        BY DEF CommEvents
    <1>2. comm_iv \in Seq(Spans) /\ Instants(Range(comm_iv)) = BusyComm
        BY <1>1, IntervalsFacts DEF comm_iv, BusyComm
    <1>. QED
        BY <1>2, MergeFacts

\* Merging one kind of collective.
LEMMA KindMerged ==
    ASSUME Types, NEW kind
    PROVE  Merge(per_kind(kind)) \in Rows /\ Instants(Range(Merge(per_kind(kind)))) = Busy(OfKind(kind))
    <1>1. OfKind(kind) \in SUBSET Range(Pool)
        BY DEF OfKind
    <1>2. per_kind(kind) \in Seq(Spans) /\ Instants(Range(per_kind(kind))) = Busy(OfKind(kind))
        BY <1>1, IntervalsFacts DEF per_kind
    <1>. QED
        BY <1>2, MergeFacts

\* The computation, on the device or freed of the collectives on the host.
LEMMA ComputeMerged ==
    ASSUME Types
    PROVE  ComputeBusy \in Rows /\ Instants(Range(ComputeBusy)) = BusyCompute
    <1>. DEFINE S == Range(Pool) \ CommEvents
    <1>1. S \in SUBSET Range(Pool)
        OBVIOUS
    <1>2. compute_iv \in Seq(Spans) /\ Instants(Range(compute_iv)) = Busy(S)
        BY <1>1, IntervalsFacts DEF compute_iv
    <1>3. Merge(compute_iv) \in Rows /\ Instants(Range(Merge(compute_iv))) = Busy(S)
        BY <1>2, MergeFacts
    <1>4. Merge(comm_iv) \in Rows /\ Instants(Range(Merge(comm_iv))) = BusyComm
        BY CommMerged
    <1>5. CASE UseDevice
        BY <1>3, <1>5 DEF ComputeBusy, BusyCompute
    <1>6. CASE ~UseDevice
        <2>. DEFINE a == Merge(compute_iv)
                    b == Merge(comm_iv)
        <2>1. Subtract(a, b) \in Rows /\ Instants(Range(Subtract(a, b))) = Instants(Range(a)) \ Instants(Range(b))
            BY <1>3, <1>4, SubtractFacts
        <2>. QED
            BY <1>3, <1>4, <1>6, <2>1 DEF ComputeBusy, BusyCompute
    <1>. QED
        BY <1>5, <1>6

\* What both share.
LEMMA OverlapMerged ==
    ASSUME Types
    PROVE  /\ Intersect(Merge(comm_iv), ComputeBusy) \in Rows
           /\ Instants(Range(Intersect(Merge(comm_iv), ComputeBusy))) = BusyComm \cap BusyCompute
    <1>. DEFINE a == Merge(comm_iv)
                b == ComputeBusy
    <1>1. a \in Rows /\ Instants(Range(a)) = BusyComm /\ b \in Rows /\ Instants(Range(b)) = BusyCompute
        BY CommMerged, ComputeMerged
    <1>2. Intersect(a, b) \in Rows /\ Instants(Range(Intersect(a, b))) = Instants(Range(a)) \cap Instants(Range(b))
        BY <1>1, IntersectFacts
    <1>. QED
        BY <1>1, <1>2

-----------------------------------------------------------------------------
(* What is reported. *)

\* The times that are reported count instants.
LEMMA TimesCount ==
    ASSUME Types
    PROVE  /\ BusyComm \in Counted(Report.comm_s) /\ Report.comm_s \in Nat
           /\ BusyCompute \in Counted(Report.compute_s) /\ Report.compute_s \in Nat
           /\ BusyComm \cap BusyCompute \in Counted(Report.overlapped_s) /\ Report.overlapped_s \in Nat
           /\ \A kind \in DOMAIN Report.per_kind_s :
                 Busy(OfKind(kind)) \in Counted(Report.per_kind_s[kind])
    <1>1. /\ Report.comm_s = Total(Merge(comm_iv)) /\ Report.compute_s = Total(ComputeBusy)
          /\ Report.overlapped_s = Total(Intersect(Merge(comm_iv), ComputeBusy))
        BY DEF Report
    <1>2. \A kind \in DOMAIN Report.per_kind_s : Report.per_kind_s[kind] = Total(Merge(per_kind(kind)))
        BY DEF Report
    <1>3. BusyComm \in Counted(Total(Merge(comm_iv))) /\ Total(Merge(comm_iv)) \in Nat
        BY CommMerged, TotalFacts
    <1>4. BusyCompute \in Counted(Total(ComputeBusy)) /\ Total(ComputeBusy) \in Nat
        BY ComputeMerged, TotalFacts
    <1>. DEFINE s == Intersect(Merge(comm_iv), ComputeBusy)
    <1>5. BusyComm \cap BusyCompute \in Counted(Total(s)) /\ Total(s) \in Nat
        BY OverlapMerged, TotalFacts
    <1>6. ASSUME NEW kind PROVE Busy(OfKind(kind)) \in Counted(Total(Merge(per_kind(kind))))
        BY KindMerged, TotalFacts
    <1>. QED
        BY <1>1, <1>2, <1>3, <1>4, <1>5, <1>6

\* What is merged lies between the beginning of the first and the end of the
\* last.
LEMMA WithinWall ==
    ASSUME NEW s \in Rows
    PROVE  LET wall == IF s = << >> THEN 0 ELSE Last(s)[2] - Head(s)[1]
           IN  \E T \in Counted(wall) : wall \in Nat /\ Instants(Range(s)) \subseteq T
    <1>1. s \in Seq(Spans) /\ Separated(s) /\ DOMAIN s = 1 .. Len(s) /\ Len(s) \in Nat
        BY DEF Rows
    <1>2. CASE s = << >>
        <2>1. Instants(Range(s)) = {}
            BY <1>2 DEF Instants, Range
        <2>2. {} \in Counted(0)
            BY FS_EmptySet DEF Counted
        <2>. QED
            BY <1>2, <2>1, <2>2
    <1>3. CASE s # << >>
        <2>. DEFINE y == Last(s)
                    x == Head(s)
                    z == <<x[1], y[2]>>
        <2>1. x = s[1] /\ 1 \in DOMAIN s /\ x \in Spans
            BY <1>1, <1>3
        <2>2. y \in Spans /\ \A i \in DOMAIN s : s[i][2] <= y[2]
            BY <1>3, LastOfRow
        <2>3. \A i \in DOMAIN s : i # 1 => x[2] <= s[i][1]
            <3>1. \A i \in DOMAIN s : i # 1 => 1 < i
                BY <1>1
            <3>. QED
                BY <1>1, <2>1, <3>1 DEF Separated
        <2>4. x[1] \in Nat /\ x[2] \in Nat /\ y[2] \in Nat /\ x[1] <= x[2] /\ x[2] <= y[2]
            BY <2>1, <2>2, SpanFacts
        <2>5. z \in Spans /\ z[1] = x[1] /\ z[2] = y[2]
            BY <2>4, SpanFacts
        <2>6. During(z) \in Counted(z[2] - z[1]) /\ z[2] - z[1] \in Nat
            BY <2>5, CountOne
        <2>7. ASSUME NEW i \in DOMAIN s
              PROVE  During(s[i]) \subseteq During(z)
            <3>1. s[i] \in Spans /\ s[i][2] <= y[2]
                BY <1>1, <2>2, <2>7
            <3>2. s[i][1] \in Nat /\ s[i][2] \in Nat
                BY <3>1, SpanFacts
            <3>3. x[1] <= s[i][1]
                <4>1. CASE i = 1
                    BY <2>1, <2>4, <4>1
                <4>2. CASE i # 1
                    BY <2>3, <2>4, <3>2, <4>2
                <4>. QED
                    BY <4>1, <4>2
            <3>. DEFINE p == s[i][1]
                        q == s[i][2]
                        l == x[1]
                        r == y[2]
            <3>4. p \in Nat /\ q \in Nat /\ l \in Nat /\ r \in Nat /\ l <= p /\ q <= r
                BY <2>4, <3>1, <3>2, <3>3
            <3>. HIDE DEF p, q, l, r, x, y, z
            <3>5. p .. q - 1 \subseteq l .. r - 1
                BY <3>4
            <3>. QED
                BY <2>5, <3>5 DEF During, p, q, l, r
        <2>8. Instants(Range(s)) \subseteq During(z)
            <3>. HIDE DEF z
            <3>. QED
                BY <2>7 DEF Instants, Range
        <2>. HIDE DEF x, y
        <2>9. (IF s = << >> THEN 0 ELSE Last(s)[2] - Head(s)[1]) = z[2] - z[1]
            BY <1>3, <2>5 DEF x, y
        <2>. HIDE DEF z
        <2>. QED
            BY <2>6, <2>8, <2>9
    <1>. QED
        BY <1>2, <1>3

\* The wall time has room for every busy instant.
LEMMA WallCount ==
    ASSUME Types
    PROVE  \E T \in Counted(Report.wall_s) :
              Report.wall_s \in Nat /\ BusyComm \cup BusyCompute \subseteq T
    <1>. DEFINE S == Range(Pool) \ CommEvents
                list == comm_iv \o compute_iv
                s == Merge(list)
    <1>1. CommEvents \in SUBSET Range(Pool) /\ S \in SUBSET Range(Pool)
        BY DEF CommEvents
    <1>2. comm_iv \in Seq(Spans) /\ Instants(Range(comm_iv)) = BusyComm
        BY <1>1, IntervalsFacts DEF comm_iv, BusyComm
    <1>3. compute_iv \in Seq(Spans) /\ Instants(Range(compute_iv)) = Busy(S)
        BY <1>1, IntervalsFacts DEF compute_iv
    <1>4. list \in Seq(Spans) /\ Range(list) = Range(comm_iv) \cup Range(compute_iv)
        BY <1>2, <1>3, RangeConcat
    <1>. HIDE DEF list
    <1>5. s \in Rows /\ Instants(Range(s)) = Instants(Range(list))
        BY <1>4, MergeFacts
    <1>6. Instants(Range(list)) = BusyComm \cup Busy(S)
        <2>1. Instants(Range(comm_iv) \cup Range(compute_iv)) = Instants(Range(comm_iv)) \cup Instants(Range(compute_iv))
            BY InstantsOfAll
        <2>. QED
            BY <1>2, <1>3, <1>4, <2>1
    <1>7. BusyCompute \subseteq Busy(S)
        BY DEF BusyCompute
    <1>8. Report.wall_s = IF s = << >> THEN 0 ELSE Last(s)[2] - Head(s)[1]
        BY DEF Report, Wall, list
    <1>. HIDE DEF s, S
    <1>9. \E T \in Counted(Report.wall_s) : Report.wall_s \in Nat /\ Instants(Range(s)) \subseteq T
        BY <1>5, <1>8, WithinWall
    <1>. QED
        BY <1>5, <1>6, <1>7, <1>9

-----------------------------------------------------------------------------
(* The behaviours of the analysis. *)

\* The inductive invariant: the report is that of the trace, to which no event
\* is added once it is written.
Settled == Types /\ (report = << >> \/ report = <<Report>>)

\* What the report depends on.
LEMMA SameReport ==
    ASSUME UNCHANGED <<trace, prefer>>
    PROVE  Report' = Report
    <1>1. trace' = trace /\ prefer' = prefer
        OBVIOUS
    <1>2. UseDevice' = UseDevice
        BY <1>1 DEF UseDevice
    <1>3. PoolCats' = PoolCats
        BY <1>2 DEF PoolCats
    <1>4. Pool' = Pool
        BY <1>1, <1>3 DEF Pool
    <1>5. CommEvents' = CommEvents
        BY <1>4 DEF CommEvents
    <1>6. comm_iv' = comm_iv /\ compute_iv' = compute_iv
        BY <1>4, <1>5 DEF comm_iv, compute_iv, Intervals
    <1>7. \A kind : per_kind(kind)' = per_kind(kind)
        BY <1>4 DEF per_kind, OfKind, Intervals
    <1>8. ComputeBusy' = ComputeBusy
        BY <1>2, <1>6 DEF ComputeBusy
    <1>9. Wall' = Wall
        BY <1>6 DEF Wall
    <1>10. [kind \in {e.kind : e \in CommEvents} |-> Total(Merge(per_kind(kind)))]'
              = [kind \in {e.kind : e \in CommEvents} |-> Total(Merge(per_kind(kind)))]
        BY <1>5, <1>7
    <1>. QED
        BY <1>5, <1>6, <1>7, <1>8, <1>9, <1>10 DEF Report

\* It is an invariant.
LEMMA SettledHolds == Spec => []Settled
    <1>1. Init => Settled
        <2>. SUFFICES ASSUME Init PROVE Settled
            OBVIOUS
        <2>1. MaxEvents \in Nat
            BY TraceAnalysisAssumption
        <2>. QED
            BY <2>1 DEF Init, Settled, Types
    <1>2. Settled /\ [Next]_vars => Settled'
        <2>. SUFFICES ASSUME Settled, [Next]_vars
                      PROVE  Settled'
            OBVIOUS
        <2>1. Types /\ (report = << >> \/ report = <<Report>>)
            BY DEF Settled
        <2>2. ASSUME NEW e \in profile, Record(e)
              PROVE  Settled'
            <3>1. /\ trace' = Append(trace, e) /\ profile' = profile /\ prefer' = prefer
                  /\ report = << >> /\ report' = report /\ Len(trace) < MaxEvents
                BY <2>2 DEF Record
            <3>2. trace' \in Seq(profile) /\ Len(trace') = Len(trace) + 1 /\ Len(trace) \in Nat
                BY <2>1, <3>1 DEF Types
            <3>3. Len(trace') <= MaxEvents
                BY <3>1, <3>2, TraceAnalysisAssumption
            <3>. QED
                BY <2>1, <3>1, <3>2, <3>3 DEF Settled, Types
        <2>3. CASE Analyze
            <3>1. report' = <<Report>> /\ UNCHANGED <<profile, prefer, trace>>
                BY <2>3 DEF Analyze
            <3>2. Report' = Report
                BY <3>1, SameReport
            <3>. QED
                BY <2>1, <3>1, <3>2 DEF Settled, Types
        <2>4. CASE UNCHANGED vars
            <3>1. UNCHANGED <<profile, prefer, trace, report>>
                BY <2>4 DEF vars
            <3>2. Report' = Report
                BY <3>1, SameReport
            <3>. QED
                BY <2>1, <3>1, <3>2 DEF Settled, Types
        <2>. QED
            BY <2>2, <2>3, <2>4 DEF Next, Terminating
    <1>. QED
        BY <1>1, <1>2, PTL DEF Spec

\* The variables have their types; every event of the pool is counted once.
THEOREM AnalysisTypes == Spec => []TypeOK
    <1>1. Settled => TypeOK
        <2>. SUFFICES ASSUME Settled PROVE TypeOK
            OBVIOUS
        <2>1. Types /\ (Reported => report = <<Report>>)
            BY DEF Settled, Reported
        <2>2. Range(trace) \subseteq profile
            BY <2>1 DEF Types, Range
        <2>3. Reported => Said = Report
            BY <2>1 DEF Said
        <2>4. Report.num_comm_events + Report.num_compute_events = Len(Pool)
            BY <2>1, EveryEvent DEF Report
        <2>. QED
            BY <2>1, <2>2, <2>3, <2>4 DEF TypeOK, Types
    <1>. QED
        BY <1>1, SettledHolds, PTL

\* Of any profile, busy times count every instant once.
THEOREM BusyTimesCounted == Spec => []BusyTimesExact
    <1>1. Settled => BusyTimesExact
        <2>. SUFFICES ASSUME Settled, Reported PROVE BusyTimesExact
            BY DEF BusyTimesExact
        <2>1. Types /\ Said = Report
            BY DEF Settled, Reported, Said
        <2>2. /\ Report.comm_s = Cardinality(BusyComm) /\ Report.compute_s = Cardinality(BusyCompute)
              /\ \A kind \in DOMAIN Report.per_kind_s : Report.per_kind_s[kind] = Cardinality(Busy(OfKind(kind)))
            BY <2>1, TimesCount DEF Counted
        <2>. QED
            BY <2>1, <2>2 DEF BusyTimesExact
    <1>. QED
        BY <1>1, SettledHolds, PTL

\* Overlapped is the time both are busy, exposed the time communication is
\* with no computation.
THEOREM OverlapCounted == Spec => []OverlapExact
    <1>1. Settled => OverlapExact
        <2>. SUFFICES ASSUME Settled, Reported PROVE OverlapExact
            BY DEF OverlapExact
        <2>1. Types /\ Said = Report
            BY DEF Settled, Reported, Said
        <2>. DEFINE c == Report.comm_s
                    o == Report.overlapped_s
        <2>2. /\ o = Cardinality(BusyComm \cap BusyCompute) /\ c = Cardinality(BusyComm)
              /\ IsFiniteSet(BusyComm) /\ IsFiniteSet(BusyComm \cap BusyCompute) /\ c \in Nat /\ o \in Nat
            BY <2>1, TimesCount DEF Counted
        <2>. HIDE DEF c, o
        <2>3. Cardinality(BusyComm \ BusyCompute) = Cardinality(BusyComm) - Cardinality(BusyComm \cap BusyCompute)
            BY <2>2, FS_Difference
        <2>4. o <= c
            <3>1. BusyComm \cap BusyCompute \in SUBSET BusyComm
                OBVIOUS
            <3>. QED
                BY <2>2, <3>1, FS_Subset
        <2>5. Larger(0, c - o) = c - o
            BY <2>2, <2>4 DEF Larger
        <2>6. ExposedComm(Said) = Larger(0, c - o) /\ Said.overlapped_s = o
            BY <2>1 DEF ExposedComm, c, o
        <2>. QED
            BY <2>2, <2>3, <2>5, <2>6 DEF OverlapExact
    <1>. QED
        BY <1>1, SettledHolds, PTL

\* Communication and computation, with the overlap counted once, fit in the
\* wall time.
THEOREM BusyFitsInWall == Spec => []FitsInWall
    <1>1. Settled => FitsInWall
        <2>. SUFFICES ASSUME Settled, Reported PROVE FitsInWall
            BY DEF FitsInWall
        <2>1. Types /\ Said = Report
            BY DEF Settled, Reported, Said
        <2>. DEFINE c == Report.comm_s
                    d == Report.compute_s
                    o == Report.overlapped_s
                    w == Report.wall_s
                    C == BusyComm
                    D == BusyCompute
        <2>2. /\ c = Cardinality(C) /\ d = Cardinality(D) /\ o = Cardinality(C \cap D)
              /\ IsFiniteSet(C) /\ IsFiniteSet(D) /\ c \in Nat /\ d \in Nat /\ o \in Nat
            BY <2>1, TimesCount DEF Counted
        <2>3. PICK T \in Counted(w) : w \in Nat /\ C \cup D \subseteq T
            BY <2>1, WallCount
        <2>4. IsFiniteSet(T) /\ Cardinality(T) = w
            BY <2>3 DEF Counted
        <2>5. Said.comm_s = c /\ Said.compute_s = d /\ Said.overlapped_s = o /\ Said.wall_s = w
            BY <2>1
        <2>. HIDE DEF c, d, o, w, C, D
        <2>6. Cardinality(C \cup D) = c + d - o
            BY <2>2, FS_Union
        <2>7. Cardinality(C \cup D) <= w
            <3>1. C \cup D \in SUBSET T
                BY <2>3
            <3>. QED
                BY <2>4, <3>1, FS_Subset
        <2>. QED
            BY <2>5, <2>6, <2>7 DEF FitsInWall
    <1>. QED
        BY <1>1, SettledHolds, PTL

=============================================================================
