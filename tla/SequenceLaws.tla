---------------------------- MODULE SequenceLaws ----------------------------
(***************************************************************************)
(* Induction over the numbers and over sequences, stated for sets, and     *)
(* what follows for sequences put together from pieces: FlattenSeq of the  *)
(* community modules, and the elements of a sequence that are in a set.    *)
(*                                                                         *)
(* Induction is the library's theorem that the numbers are well founded:   *)
(* a property is the set of the numbers that have it, and the least number *)
(* outside of it is the counterexample.                                    *)
(***************************************************************************)
EXTENDS Integers, SequencesExt, SequenceTheorems, WellFoundedInduction, TLAPS

\* Numbers are written in one way as quotient and remainder.
LEMMA DivUnique ==
    ASSUME NEW q \in Nat, NEW d \in Nat \ {0}, NEW r \in 0 .. d - 1
    PROVE  (d * q + r) \div d = q /\ (d * q + r) % d = r
    BY SMT

\* A number, by its quotient and remainder.
LEMMA Division ==
    ASSUME NEW n \in Nat, NEW d \in Nat \ {0}
    PROVE  /\ n \div d \in Nat /\ n % d \in 0 .. d - 1
           /\ n = d * (n \div d) + (n % d)
    BY SMT

LEMMA MulOrder ==
    ASSUME NEW a \in Nat, NEW b \in Nat, NEW c \in Nat, a <= b
    PROVE  c * a <= c * b
    BY SMT

\* The numbers in their order, as the library's relations are.
Below == {p \in Nat \X Nat : p[1] < p[2]}

\* A set of numbers with 0 and with the successors of its members is all.
LEMMA SetInduction ==
    ASSUME NEW P \in SUBSET Nat, 0 \in P, \A n \in Nat : n \in P => n + 1 \in P
    PROVE  P = Nat
    <1>1. OpToRel(<, Nat) = Below
        BY DEF OpToRel, Below
    <1>2. IsWellFoundedOn(Below, Nat)
        BY <1>1, NatLessThanWellFounded
    <1>. SUFFICES ASSUME Nat \ P # {}
                  PROVE  FALSE
        OBVIOUS
    <1>. DEFINE Q == Nat \ P
    <1>3. Q \subseteq Nat /\ Q # {}
        OBVIOUS
    <1>. HIDE DEF Q
    <1>4. PICK x \in Q : \A y \in Q : ~(<<y, x>> \in Below)
        BY <1>2, <1>3, WFMin
    <1>5. x \in Nat /\ x \notin P
        BY DEF Q
    <1>6. x # 0 /\ x - 1 \in Nat /\ x - 1 < x /\ (x - 1) + 1 = x
        BY <1>5
    <1>7. <<x - 1, x>> \in Below
        BY <1>5, <1>6 DEF Below
    <1>8. x - 1 \in P
        BY <1>4, <1>6, <1>7 DEF Q
    <1>. QED
        BY <1>5, <1>6, <1>8

\* Induction up to a number.
LEMMA InductionTo ==
    ASSUME NEW n \in Nat, NEW P, 0 \in P, \A i \in 0 .. n - 1 : i \in P => i + 1 \in P
    PROVE  \A i \in 0 .. n : i \in P
    <1>. DEFINE Q == {i \in Nat : i <= n => i \in P}
    <1>1. Q \in SUBSET Nat /\ 0 \in Q
        OBVIOUS
    <1>2. \A i \in Nat : i \in Q => i + 1 \in Q
        OBVIOUS
    <1>3. Q = Nat
        BY <1>1, <1>2, SetInduction
    <1>. QED
        BY <1>3

\* Induction over sequences.
LEMMA SequenceInduction ==
    ASSUME NEW S, NEW P, << >> \in P,
           \A s \in Seq(S), e \in S : s \in P => Append(s, e) \in P
    PROVE  \A s \in Seq(S) : s \in P
    <1>. DEFINE Q == {n \in Nat : \A s \in Seq(S) : Len(s) = n => s \in P}
    <1>1. 0 \in Q
        <2>1. \A s \in Seq(S) : Len(s) = 0 => s = << >>
            BY EmptySeq
        <2>. QED
            BY <2>1
    <1>2. ASSUME NEW n \in Nat, n \in Q
          PROVE  n + 1 \in Q
        <2>1. ASSUME NEW s \in Seq(S), Len(s) = n + 1
              PROVE  s \in P
            <3>1. s # << >>
                BY <2>1, <1>2
            <3>2. PICK t \in Seq(S), e \in S : s = Append(t, e)
                BY <3>1, SequenceEmptyOrAppend
            <3>3. Len(t) = n
                BY <2>1, <3>2, AppendProperties, LenProperties
            <3>. QED
                BY <1>2, <3>2, <3>3
        <2>. QED
            BY <2>1
    <1>3. Q = Nat
        <2>. HIDE DEF Q
        <2>1. Q \in SUBSET Nat
            BY DEF Q
        <2>. QED
            BY <1>1, <1>2, <2>1, SetInduction
    <1>. QED
        BY <1>3, LenProperties

\* The recursive functions over a range of numbers: from a first value, each
\* value from the one before it.
Iterations(T, start, next, n) ==
    {g \in [0 .. n -> T] : g[0] = start /\ \A i \in 1 .. n : g[i] = next[i][g[i - 1]]}

\* There is one.
LEMMA Iterate ==
    ASSUME NEW T, NEW start \in T, NEW next \in [Nat -> [T -> T]], NEW n \in Nat
    PROVE  \E g : g \in Iterations(T, start, next, n)
    <1>. DEFINE P == {k \in Nat : \E g : g \in Iterations(T, start, next, k)}
    <1>1. 0 \in P
        <2>1. [i \in 0 .. 0 |-> start] \in Iterations(T, start, next, 0)
            BY DEF Iterations
        <2>. QED
            BY <2>1
    <1>2. ASSUME NEW k \in Nat, k \in P
          PROVE  k + 1 \in P
        <2>1. PICK g : g \in Iterations(T, start, next, k)
            BY <1>2
        <2>2. /\ g \in [0 .. k -> T] /\ g[0] = start
              /\ \A i \in 1 .. k : g[i] = next[i][g[i - 1]]
            BY <2>1 DEF Iterations
        <2>. DEFINE h == [i \in 0 .. k + 1 |-> IF i = k + 1 THEN next[k + 1][g[k]] ELSE g[i]]
        <2>3. g[k] \in T /\ next[k + 1][g[k]] \in T
            BY <2>2
        <2>4. h \in [0 .. k + 1 -> T] /\ h[0] = start
            BY <2>2, <2>3
        <2>5. \A i \in 1 .. k + 1 : h[i] = next[i][h[i - 1]]
            <3>. TAKE i \in 1 .. k + 1
            <3>1. CASE i = k + 1
                <4>1. h[i - 1] = g[k] /\ h[i] = next[k + 1][g[k]]
                    BY <3>1
                <4>. HIDE DEF h
                <4>. QED
                    BY <3>1, <4>1
            <3>2. CASE i # k + 1
                <4>1. i \in 1 .. k /\ h[i] = g[i] /\ h[i - 1] = g[i - 1]
                    BY <3>2
                <4>2. g[i] = next[i][g[i - 1]]
                    BY <2>2, <4>1
                <4>. HIDE DEF h
                <4>. QED
                    BY <4>1, <4>2
            <3>. QED
                BY <3>1, <3>2
        <2>. HIDE DEF h
        <2>6. h \in Iterations(T, start, next, k + 1)
            BY <2>4, <2>5 DEF Iterations
        <2>. QED
            BY <2>6
    <1>3. P = Nat
        <2>. HIDE DEF P
        <2>1. P \in SUBSET Nat
            BY DEF P
        <2>. QED
            BY <1>1, <1>2, <2>1, SetInduction
    <1>. QED
        BY <1>3

-----------------------------------------------------------------------------
(* FlattenSeq *)

\* The recursive function of FlattenSeq: the pieces one by one.
Flattenings(S, n, f) ==
    {g \in [1 .. n -> Seq(S)] :
        /\ g[1] = f[1]
        /\ \A i \in 2 .. n : g[i] = g[i - 1] \o f[i]
        /\ FlattenSeq(f) = g[n]}

\* The recursion of the library's FlattenSeq has a solution.
LEMMA FlattenSteps ==
    ASSUME NEW S, NEW n \in Nat \ {0}, NEW f \in [1 .. n -> Seq(S)]
    PROVE  \E g : g \in Flattenings(S, n, f)
    <1>. DEFINE next == [i \in Nat |-> [s \in Seq(S) |-> IF i \in 1 .. n THEN s \o f[i] ELSE s]]
                Step(h) == [i \in 1 .. Len(f) |-> IF i = 1 THEN f[i] ELSE h[i - 1] \o f[i]]
                g == CHOOSE h : h = Step(h)
    <1>1. Len(f) = n /\ f \in Seq(Seq(S))
        OBVIOUS
    <1>2. next \in [Nat -> [Seq(S) -> Seq(S)]]
        <2>1. \A i \in 1 .. n : \A s \in Seq(S) : s \o f[i] \in Seq(S)
            BY ConcatProperties
        <2>. QED
            BY <2>1
    <1>3. << >> \in Seq(S)
        OBVIOUS
    <1>4. PICK k : k \in Iterations(Seq(S), << >>, next, n)
        <2>. HIDE DEF next
        <2>1. n \in Nat
            OBVIOUS
        <2>. QED
            BY <1>2, <1>3, <2>1, Iterate
    <1>5. /\ k \in [0 .. n -> Seq(S)] /\ k[0] = << >>
           /\ \A i \in 1 .. n : k[i] = next[i][k[i - 1]]
        <2>. HIDE DEF next
        <2>. QED
            BY <1>4 DEF Iterations
    <1>6. \A i \in 1 .. n : k[i] = k[i - 1] \o f[i]
        <2>. TAKE i \in 1 .. n
        <2>1. i \in Nat /\ k[i - 1] \in Seq(S)
            BY <1>5
        <2>3. next[i][k[i - 1]] = k[i - 1] \o f[i]
            BY <2>1
        <2>. QED
            BY <1>5, <2>3
    <1>. DEFINE h == [i \in 1 .. n |-> k[i]]
    <1>7. h = Step(h)
        <2>1. \A i \in 1 .. n : h[i] = IF i = 1 THEN f[i] ELSE h[i - 1] \o f[i]
            <3>. TAKE i \in 1 .. n
            <3>1. CASE i = 1
                <4>1. k[i - 1] = << >> /\ f[i] \in Seq(S)
                    BY <1>5, <3>1
                <4>2. k[i] = << >> \o f[i]
                    BY <1>6, <4>1
                <4>3. k[i] = f[i]
                    BY <4>1, <4>2, ConcatEmptySeq
                <4>. QED
                    BY <3>1, <4>3
            <3>2. CASE i # 1
                <4>1. i - 1 \in 1 .. n /\ h[i - 1] = k[i - 1] /\ h[i] = k[i]
                    BY <3>2
                <4>2. k[i] = k[i - 1] \o f[i]
                    BY <1>6
                <4>. HIDE DEF h
                <4>. QED
                    BY <3>2, <4>1, <4>2
            <3>. QED
                BY <3>1, <3>2
        <2>. QED
            BY <1>1, <2>1
    <1>8. g = Step(g)
        <2>. HIDE DEF h, Step
        <2>. QED
            BY <1>7
    <1>9. FlattenSeq(f) = g[n]
        BY <1>1 DEF FlattenSeq
    <1>. HIDE DEF g
    <1>10. g[1] = f[1] /\ \A i \in 2 .. n : g[i] = g[i - 1] \o f[i]
        <2>1. \A i \in 1 .. n : Step(g)[i] = IF i = 1 THEN f[i] ELSE g[i - 1] \o f[i]
            BY <1>1
        <2>. HIDE DEF Step
        <2>2. \A i \in 1 .. n : g[i] = IF i = 1 THEN f[i] ELSE g[i - 1] \o f[i]
            BY <1>8, <2>1
        <2>3. 1 \in 1 .. n /\ \A i \in 2 .. n : i \in 1 .. n /\ i # 1
            OBVIOUS
        <2>. QED
            BY <2>2, <2>3
    <1>11. g = [i \in 1 .. n |-> g[i]]
        BY <1>1, <1>8
    <1>12. \A i \in 1 .. n : g[i] \in Seq(S)
        <2>. DEFINE P == {j \in 0 .. n - 1 : g[j + 1] \in Seq(S)}
        <2>1. 0 \in P
            BY <1>10
        <2>2. \A j \in 0 .. (n - 1) - 1 : j \in P => j + 1 \in P
            <3>. TAKE j \in 0 .. (n - 1) - 1
            <3>. HAVE j \in P
            <3>1. g[j + 2] = g[j + 1] \o f[j + 2] /\ g[j + 1] \in Seq(S) /\ f[j + 2] \in Seq(S)
                <4>1. j + 2 \in 2 .. n /\ (j + 2) - 1 = j + 1
                    OBVIOUS
                <4>2. g[j + 2] = g[(j + 2) - 1] \o f[j + 2]
                    BY <1>10, <4>1
                <4>. QED
                    BY <4>1, <4>2
            <3>2. g[j + 2] \in Seq(S)
                BY <3>1, ConcatProperties
            <3>3. (j + 1) + 1 = j + 2 /\ j + 1 \in 0 .. n - 1
                OBVIOUS
            <3>. QED
                BY <3>2, <3>3
        <2>3. \A j \in 0 .. n - 1 : j \in P
            <3>. HIDE DEF P
            <3>1. n - 1 \in Nat
                OBVIOUS
            <3>. QED
                BY <2>1, <2>2, <3>1, InductionTo
        <2>4. \A i \in 1 .. n : i - 1 \in 0 .. n - 1 /\ (i - 1) + 1 = i
            OBVIOUS
        <2>. QED
            BY <2>3, <2>4
    <1>13. g \in Flattenings(S, n, f)
        BY <1>9, <1>10, <1>11, <1>12 DEF Flattenings
    <1>. QED
        BY <1>13

\* Two recursive functions with the same steps have the same values.
Alike(g, h, n) == \A i \in 1 .. n : g[i] = h[i]
\* Where the recursion takes two functions from equal values to equal values.
StepAlike(g, h, n) == \A i \in 2 .. n : g[i - 1] = h[i - 1] => g[i] = h[i]

\* Two functions that start alike and step alike are alike.
LEMMA SameSteps ==
    ASSUME NEW n \in Nat \ {0}, NEW g, NEW h, g[1] = h[1], StepAlike(g, h, n)
    PROVE  Alike(g, h, n)
    <1>. DEFINE P == {j \in 0 .. n - 1 : g[j + 1] = h[j + 1]}
    <1>1. 0 \in P
        OBVIOUS
    <1>2. \A j \in 0 .. (n - 1) - 1 : j \in P => j + 1 \in P
        <2>. TAKE j \in 0 .. (n - 1) - 1
        <2>. HAVE j \in P
        <2>1. j + 2 \in 2 .. n /\ (j + 2) - 1 = j + 1 /\ (j + 1) + 1 = j + 2
            OBVIOUS
        <2>. QED
            BY <2>1 DEF StepAlike
    <1>3. \A j \in 0 .. n - 1 : j \in P
        <2>. HIDE DEF P
        <2>1. n - 1 \in Nat
            OBVIOUS
        <2>. QED
            BY <1>1, <1>2, <2>1, InductionTo
    <1>4. \A i \in 1 .. n : i - 1 \in 0 .. n - 1 /\ (i - 1) + 1 = i
        OBVIOUS
    <1>. QED
        BY <1>3, <1>4 DEF Alike

\* The pieces before the last one, and the last one.
FirstOf(f, n) == [i \in 1 .. n |-> f[i]]

\* Flattening nothing gives nothing.
LEMMA FlattenNone == \A f : f \in [1 .. 0 -> {}] => FlattenSeq(f) = << >>
    BY DEF FlattenSeq

\* Flattening one sequence gives that sequence.
LEMMA FlattenOne ==
    ASSUME NEW S, NEW f \in [1 .. 1 -> Seq(S)]
    PROVE  FlattenSeq(f) = f[1]
    <1>1. 1 \in Nat \ {0}
        OBVIOUS
    <1>2. PICK g : g \in Flattenings(S, 1, f)
        BY <1>1, FlattenSteps
    <1>. QED
        BY <1>2 DEF Flattenings

\* The last sequence comes after the others.
LEMMA FlattenLast ==
    ASSUME NEW S, NEW n \in Nat, NEW f \in [1 .. n + 1 -> Seq(S)]
    PROVE  FlattenSeq(f) = FlattenSeq(FirstOf(f, n)) \o f[n + 1]
    <1>1. CASE n = 0
        <2>1. FlattenSeq(f) = f[1] /\ f[1] \in Seq(S)
            BY <1>1, FlattenOne
        <2>2. FlattenSeq(FirstOf(f, n)) = << >>
            BY <1>1 DEF FlattenSeq, FirstOf
        <2>3. << >> \o f[1] = f[1]
            BY <2>1, ConcatEmptySeq
        <2>. QED
            BY <1>1, <2>1, <2>2, <2>3
    <1>2. CASE n # 0
        <2>1. FirstOf(f, n) \in [1 .. n -> Seq(S)] /\ n \in Nat \ {0} /\ n + 1 \in Nat \ {0}
            BY <1>2 DEF FirstOf
        <2>2. PICK g : g \in Flattenings(S, n + 1, f)
            BY <2>1, FlattenSteps
        <2>3. PICK h : h \in Flattenings(S, n, FirstOf(f, n))
            BY <2>1, FlattenSteps
        <2>4. \A i \in 1 .. n : FirstOf(f, n)[i] = f[i]
            BY DEF FirstOf
        <2>5. g[n] = h[n]
            <3>1. g[1] = h[1]
                BY <1>2, <2>2, <2>3, <2>4 DEF Flattenings
            <3>2. StepAlike(g, h, n)
                <4>1. /\ \A i \in 2 .. n + 1 : g[i] = g[i - 1] \o f[i]
                      /\ \A i \in 2 .. n : h[i] = h[i - 1] \o FirstOf(f, n)[i]
                    BY <2>2, <2>3 DEF Flattenings
                <4>2. \A i \in 2 .. n : i \in 2 .. n + 1 /\ i \in 1 .. n
                    OBVIOUS
                <4>. QED
                    BY <2>4, <4>1, <4>2 DEF StepAlike
            <3>3. Alike(g, h, n)
                BY <2>1, <3>1, <3>2, SameSteps
            <3>. QED
                BY <2>1, <3>3 DEF Alike
        <2>6. g[n + 1] = g[n] \o f[n + 1]
            <3>1. n + 1 \in 2 .. n + 1 /\ (n + 1) - 1 = n /\ n \in 1 .. n
                BY <1>2
            <3>. QED
                BY <2>2, <3>1 DEF Flattenings
        <2>. QED
            BY <2>2, <2>3, <2>5, <2>6 DEF Flattenings
    <1>. QED
        BY <1>1, <1>2

\* Flattening joins sequences of a set's members into one.
LEMMA FlattenType ==
    ASSUME NEW S, NEW n \in Nat, NEW f \in [1 .. n -> Seq(S)]
    PROVE  FlattenSeq(f) \in Seq(S)
    <1>1. CASE n = 0
        <2>1. FlattenSeq(f) = << >>
            BY <1>1 DEF FlattenSeq
        <2>. QED
            BY <2>1
    <1>2. CASE n # 0
        <2>1. PICK g : g \in Flattenings(S, n, f)
            BY <1>2, FlattenSteps
        <2>. QED
            BY <1>2, <2>1 DEF Flattenings
    <1>. QED
        BY <1>1, <1>2

\* The same pieces.
LEMMA FlattenSame ==
    ASSUME NEW S, NEW n \in Nat, NEW f \in [1 .. n -> Seq(S)], NEW g \in [1 .. n -> Seq(S)],
           \A i \in 1 .. n : f[i] = g[i]
    PROVE  FlattenSeq(f) = FlattenSeq(g)
    <1>1. f = g
        OBVIOUS
    <1>. QED
        BY <1>1

-----------------------------------------------------------------------------
(* The elements of a sequence that are in a set. *)

\* Each element of s as a sequence: kept if it is in R, dropped if not.
Kept(s, R) == [i \in 1 .. Len(s) |-> IF s[i] \in R THEN <<s[i]>> ELSE << >>]
\* The elements of s that are in R, in their order.
Only(s, R) == FlattenSeq(Kept(s, R))

\* Nothing is kept of nothing.
LEMMA OnlyEmpty == \A R : Only(<< >>, R) = << >>
    BY DEF Only, Kept, FlattenSeq

\* What is kept of each element is a sequence over R.
LEMMA KeptType ==
    ASSUME NEW S, NEW R, NEW s \in Seq(S)
    PROVE  Kept(s, R) \in [1 .. Len(s) -> Seq(S \cap R)]
    <1>1. \A i \in 1 .. Len(s) : s[i] \in S
        BY ElementOfSeq
    <1>2. \A x \in S \cap R : <<x>> \in Seq(S \cap R)
        OBVIOUS
    <1>3. \A i \in 1 .. Len(s) : Kept(s, R)[i] \in Seq(S \cap R)
        <2>. TAKE i \in 1 .. Len(s)
        <2>1. CASE s[i] \in R
            BY <1>1, <1>2, <2>1 DEF Kept
        <2>2. CASE s[i] \notin R
            BY <2>2 DEF Kept
        <2>. QED
            BY <2>1, <2>2
    <1>4. Kept(s, R) = [i \in 1 .. Len(s) |-> Kept(s, R)[i]]
        BY DEF Kept
    <1>. QED
        BY <1>3, <1>4

\* What is kept is a sequence over R.
LEMMA OnlyType ==
    ASSUME NEW S, NEW R, NEW s \in Seq(S)
    PROVE  Only(s, R) \in Seq(S \cap R)
    BY KeptType, FlattenType, LenProperties DEF Only

\* Appending an element appends it to what is kept, if it is in R.
LEMMA OnlyAppend ==
    ASSUME NEW S, NEW R, NEW s \in Seq(S), NEW x \in S
    PROVE  Only(Append(s, x), R) = IF x \in R THEN Append(Only(s, R), x) ELSE Only(s, R)
    <1>. DEFINE t == Append(s, x)
                n == Len(s)
    <1>1. t \in Seq(S) /\ Len(t) = n + 1 /\ n \in Nat /\ t[n + 1] = x
          /\ \A i \in 1 .. n : t[i] = s[i]
        BY AppendProperties, LenProperties
    <1>2. Kept(t, R) \in [1 .. n + 1 -> Seq(S \cap R)]
        BY <1>1, KeptType
    <1>3. FirstOf(Kept(t, R), n) = Kept(s, R)
        BY <1>1 DEF FirstOf, Kept
    <1>4. Kept(t, R)[n + 1] = IF x \in R THEN <<x>> ELSE << >>
        BY <1>1 DEF Kept
    <1>5. Only(t, R) = Only(s, R) \o Kept(t, R)[n + 1]
        BY <1>1, <1>2, <1>3, FlattenLast DEF Only
    <1>6. Only(s, R) \in Seq(S \cap R)
        BY OnlyType
    <1>7. x \in R => Append(Only(s, R), x) = Only(s, R) \o <<x>>
        BY <1>6, AppendIsConcat
    <1>8. Only(s, R) \o << >> = Only(s, R)
        BY <1>6, ConcatEmptySeq
    <1>. QED
        BY <1>4, <1>5, <1>7, <1>8

\* What is kept of a concatenation is the concatenation of what is kept.
LEMMA OnlyConcat ==
    ASSUME NEW S, NEW R, NEW s \in Seq(S), NEW t \in Seq(S)
    PROVE  Only(s \o t, R) = Only(s, R) \o Only(t, R)
    <1>. DEFINE P == {u \in Seq(S) : Only(s \o u, R) = Only(s, R) \o Only(u, R)}
    <1>1. << >> \in P
        <2>1. s \o << >> = s /\ Only(s, R) \in Seq(S \cap R)
            BY ConcatEmptySeq, OnlyType
        <2>2. Only(s, R) \o << >> = Only(s, R)
            BY <2>1, ConcatEmptySeq
        <2>. QED
            BY <2>1, <2>2, OnlyEmpty
    <1>2. ASSUME NEW u \in Seq(S), NEW e \in S, u \in P
          PROVE  Append(u, e) \in P
        <2>1. /\ s \o Append(u, e) = Append(s \o u, e)
              /\ s \o u \in Seq(S) /\ Append(u, e) \in Seq(S)
            <3>1. s \o u \in Seq(S) /\ <<e>> \in Seq(S) /\ Append(u, e) \in Seq(S)
                BY ConcatProperties, AppendProperties
            <3>2. Append(u, e) = u \o <<e>> /\ Append(s \o u, e) = (s \o u) \o <<e>>
                BY <3>1, AppendIsConcat
            <3>. QED
                BY <3>1, <3>2, ConcatAssociative
        <2>2. Only(s \o u, R) = Only(s, R) \o Only(u, R)
            BY <1>2
        <2>3. Only(Append(s \o u, e), R)
                  = IF e \in R THEN Append(Only(s \o u, R), e) ELSE Only(s \o u, R)
            <3>. DEFINE v == s \o u
            <3>1. v \in Seq(S)
                BY <2>1
            <3>. HIDE DEF v
            <3>2. Only(Append(v, e), R) = IF e \in R THEN Append(Only(v, R), e) ELSE Only(v, R)
                BY <3>1, OnlyAppend
            <3>. QED
                BY <3>2 DEF v
        <2>6. Only(Append(u, e), R) = IF e \in R THEN Append(Only(u, R), e) ELSE Only(u, R)
            BY OnlyAppend
        <2>4. CASE e \in R
            <3>1. Only(s, R) \in Seq(S \cap R) /\ Only(u, R) \in Seq(S \cap R)
                  /\ Only(s, R) \o Only(u, R) \in Seq(S \cap R) /\ <<e>> \in Seq(S \cap R)
                BY <2>4, OnlyType, ConcatProperties
            <3>2. Append(Only(s, R) \o Only(u, R), e) = (Only(s, R) \o Only(u, R)) \o <<e>>
                  /\ Append(Only(u, R), e) = Only(u, R) \o <<e>>
                BY <2>4, <3>1, AppendIsConcat
            <3>3. (Only(s, R) \o Only(u, R)) \o <<e>> = Only(s, R) \o (Only(u, R) \o <<e>>)
                BY <3>1, ConcatAssociative
            <3>. QED
                BY <2>1, <2>2, <2>3, <2>4, <2>6, <3>2, <3>3
        <2>5. CASE e \notin R
            BY <2>1, <2>2, <2>3, <2>5, <2>6
        <2>. QED
            BY <2>4, <2>5
    <1>3. \A u \in Seq(S) : u \in P
        <2>. HIDE DEF P
        <2>. QED
            BY <1>1, <1>2, SequenceInduction
    <1>. QED
        BY <1>3

\* What is kept of one element.
LEMMA OnlyOne ==
    ASSUME NEW x, NEW R
    PROVE  Only(<<x>>, R) = IF x \in R THEN <<x>> ELSE << >>
    <1>. DEFINE S == {x}
                none == << >>
    <1>1. none \in Seq(S) /\ x \in S
        OBVIOUS
    <1>. HIDE DEF S, none
    <1>2. Only(Append(none, x), R) = IF x \in R THEN Append(Only(none, R), x) ELSE Only(none, R)
        BY <1>1, OnlyAppend
    <1>3. Append(<< >>, x) = <<x>>
        OBVIOUS
    <1>. QED
        BY <1>2, <1>3, OnlyEmpty DEF none

\* No element is in the set, or all of them are.
LEMMA OnlyNone ==
    ASSUME NEW S, NEW R, NEW s \in Seq(S), S \cap R = {}
    PROVE  Only(s, R) = << >>
    <1>1. Only(s, R) \in Seq({})
        BY OnlyType
    <1>. QED
        BY <1>1, EmptySeq

\* All is kept of a sequence over R.
LEMMA OnlyAll ==
    ASSUME NEW R, NEW s \in Seq(R)
    PROVE  Only(s, R) = s
    <1>. DEFINE P == {u \in Seq(R) : Only(u, R) = u}
    <1>1. << >> \in P
        BY OnlyEmpty
    <1>2. ASSUME NEW u \in Seq(R), NEW e \in R, u \in P
          PROVE  Append(u, e) \in P
        BY <1>2, OnlyAppend, AppendProperties
    <1>3. \A u \in Seq(R) : u \in P
        <2>. HIDE DEF P
        <2>. QED
            BY <1>1, <1>2, SequenceInduction
    <1>. QED
        BY <1>3

\* Of many pieces, those of each.
OnlyOf(n, f, R) == [i \in 1 .. n |-> Only(f[i], R)]

\* What is kept of a flattening is the flattening of what is kept.
LEMMA OnlyFlatten ==
    ASSUME NEW S, NEW R, NEW n \in Nat, NEW f \in [1 .. n -> Seq(S)]
    PROVE  Only(FlattenSeq(f), R) = FlattenSeq(OnlyOf(n, f, R))
    <1>. DEFINE g == [i \in 1 .. n |-> Only(f[i], R)]
                P == {k \in 0 .. n : Only(FlattenSeq(FirstOf(f, k)), R) = FlattenSeq(FirstOf(g, k))}
    <1>1. g \in [1 .. n -> Seq(S \cap R)]
        BY OnlyType
    <1>2. 0 \in P
        <2>1. FlattenSeq(FirstOf(f, 0)) = << >> /\ FlattenSeq(FirstOf(g, 0)) = << >>
            BY DEF FlattenSeq, FirstOf
        <2>. QED
            BY <2>1, OnlyEmpty
    <1>3. ASSUME NEW k \in 0 .. n - 1, k \in P
          PROVE  k + 1 \in P
        <2>. HIDE DEF g
        <2>1. /\ FirstOf(f, k + 1) \in [1 .. k + 1 -> Seq(S)]
              /\ FirstOf(f, k) \in [1 .. k -> Seq(S)]
              /\ FirstOf(g, k + 1) \in [1 .. k + 1 -> Seq(S \cap R)]
              /\ FirstOf(FirstOf(f, k + 1), k) = FirstOf(f, k)
              /\ FirstOf(FirstOf(g, k + 1), k) = FirstOf(g, k)
              /\ FirstOf(f, k + 1)[k + 1] = f[k + 1] /\ FirstOf(g, k + 1)[k + 1] = g[k + 1]
              /\ k \in Nat /\ k + 1 \in 1 .. n
            BY <1>1 DEF FirstOf
        <2>2. FlattenSeq(FirstOf(f, k + 1)) = FlattenSeq(FirstOf(f, k)) \o f[k + 1]
            BY <2>1, FlattenLast
        <2>3. FlattenSeq(FirstOf(g, k + 1)) = FlattenSeq(FirstOf(g, k)) \o g[k + 1]
            BY <2>1, FlattenLast
        <2>4. FlattenSeq(FirstOf(f, k)) \in Seq(S) /\ f[k + 1] \in Seq(S)
            BY <2>1, FlattenType
        <2>5. Only(FlattenSeq(FirstOf(f, k)) \o f[k + 1], R)
                  = Only(FlattenSeq(FirstOf(f, k)), R) \o Only(f[k + 1], R)
            BY <2>4, OnlyConcat
        <2>6. g[k + 1] = Only(f[k + 1], R)
            BY <2>1 DEF g
        <2>7. Only(FlattenSeq(FirstOf(f, k)), R) = FlattenSeq(FirstOf(g, k))
            BY <1>3
        <2>8. Only(FlattenSeq(FirstOf(f, k + 1)), R) = FlattenSeq(FirstOf(g, k + 1))
            BY <2>2, <2>3, <2>5, <2>6, <2>7
        <2>. QED
            BY <2>1, <2>8
    <1>4. \A k \in 0 .. n : k \in P
        <2>. HIDE DEF P
        <2>. QED
            BY <1>2, <1>3, InductionTo
    <1>5. FirstOf(f, n) = f /\ FirstOf(g, n) = g
        BY DEF FirstOf
    <1>6. n \in P
        BY <1>4
    <1>. QED
        BY <1>5, <1>6 DEF OnlyOf

\* Pieces of the same length.
LEMMA FlattenLen ==
    ASSUME NEW S, NEW n \in Nat, NEW f \in [1 .. n -> Seq(S)], NEW c \in Nat,
           \A i \in 1 .. n : Len(f[i]) = c
    PROVE  Len(FlattenSeq(f)) = n * c
    <1>. DEFINE P == {k \in 0 .. n : Len(FlattenSeq(FirstOf(f, k))) = k * c}
    <1>1. 0 \in P
        BY DEF FlattenSeq, FirstOf
    <1>2. ASSUME NEW k \in 0 .. n - 1, k \in P
          PROVE  k + 1 \in P
        <2>1. /\ FirstOf(f, k + 1) \in [1 .. k + 1 -> Seq(S)]
              /\ FirstOf(f, k) \in [1 .. k -> Seq(S)]
              /\ FirstOf(FirstOf(f, k + 1), k) = FirstOf(f, k)
              /\ FirstOf(f, k + 1)[k + 1] = f[k + 1]
              /\ k \in Nat /\ k + 1 \in 1 .. n
            BY DEF FirstOf
        <2>2. FlattenSeq(FirstOf(f, k + 1)) = FlattenSeq(FirstOf(f, k)) \o f[k + 1]
            BY <2>1, FlattenLast
        <2>3. FlattenSeq(FirstOf(f, k)) \in Seq(S) /\ f[k + 1] \in Seq(S)
            BY <2>1, FlattenType
        <2>4. Len(FlattenSeq(FirstOf(f, k + 1))) = k * c + c
            <3>1. Len(FlattenSeq(FirstOf(f, k)) \o f[k + 1])
                      = Len(FlattenSeq(FirstOf(f, k))) + Len(f[k + 1])
                BY <2>3, ConcatProperties
            <3>2. Len(FlattenSeq(FirstOf(f, k))) = k * c /\ Len(f[k + 1]) = c
                BY <1>2, <2>1
            <3>. QED
                BY <2>2, <3>1, <3>2
        <2>5. (k + 1) * c = k * c + c
            BY <2>1
        <2>. QED
            BY <2>1, <2>4, <2>5
    <1>3. \A k \in 0 .. n : k \in P
        <2>. HIDE DEF P
        <2>. QED
            BY <1>1, <1>2, InductionTo
    <1>4. FirstOf(f, n) = f
        BY DEF FirstOf
    <1>5. n \in P
        BY <1>3
    <1>. QED
        BY <1>4, <1>5

-----------------------------------------------------------------------------
(* A sequence cut in two. *)

\* What x has beyond a, and y lacks of b.
Between(S, a, b, x, y) == {z \in Seq(S) : x = a \o z /\ b = z \o y}

\* Of two ways to cut a sequence in two, the later cut falls inside the rest of the earlier.
LEMMA Split ==
    ASSUME NEW S, NEW a \in Seq(S), NEW b \in Seq(S), NEW x \in Seq(S), NEW y \in Seq(S),
           a \o b = x \o y, Len(a) <= Len(x)
    PROVE  \E z : z \in Between(S, a, b, x, y)
    <1>. DEFINE k == Len(a)
                n == Len(x)
                z == SubSeq(x, k + 1, n)
    <1>1. k \in Nat /\ n \in Nat /\ Len(b) \in Nat /\ Len(y) \in Nat /\ k <= n
        BY LenProperties
    <1>2. /\ Len(a \o b) = k + Len(b) /\ Len(x \o y) = n + Len(y)
          /\ \A i \in 1 .. k + Len(b) : (a \o b)[i] = IF i <= k THEN a[i] ELSE b[i - k]
          /\ \A i \in 1 .. n + Len(y) : (x \o y)[i] = IF i <= n THEN x[i] ELSE y[i - n]
        BY ConcatProperties
    <1>3. k + Len(b) = n + Len(y)
        BY <1>2
    <1>4. /\ z \in Seq(S) /\ Len(z) = n - k
          /\ \A i \in 1 .. n - k : z[i] = x[k + i]
        <2>1. \A i \in k + 1 .. n : x[i] \in S
            BY <1>1, ElementOfSeq
        <2>2. /\ z \in Seq(S) /\ Len(z) = IF k + 1 <= n THEN n - (k + 1) + 1 ELSE 0
              /\ \A i \in 1 .. n - (k + 1) + 1 : z[i] = x[(k + 1) + i - 1]
            BY <1>1, <2>1, SubSeqProperties
        <2>3. n - (k + 1) + 1 = n - k /\ \A i \in 1 .. n - k : (k + 1) + i - 1 = k + i
            BY <1>1
        <2>. QED
            BY <1>1, <2>2, <2>3
    <1>. HIDE DEF z
    <1>5. x = a \o z
        <2>1. /\ a \o z \in Seq(S) /\ Len(a \o z) = k + (n - k)
              /\ \A i \in 1 .. k + (n - k) : (a \o z)[i] = IF i <= k THEN a[i] ELSE z[i - k]
            BY <1>4, ConcatProperties
        <2>2. Len(a \o z) = n
            BY <1>1, <2>1
        <2>3. \A i \in 1 .. n : x[i] = (a \o z)[i]
            <3>. TAKE i \in 1 .. n
            <3>1. (a \o b)[i] = x[i]
                BY <1>1, <1>2, <1>3
            <3>2. CASE i <= k
                BY <1>1, <1>2, <1>3, <2>1, <3>1, <3>2
            <3>3. CASE ~(i <= k)
                <4>1. i - k \in 1 .. n - k /\ k + (i - k) = i
                    BY <1>1, <3>3
                <4>2. z[i - k] = x[i]
                    BY <1>4, <4>1
                <4>. QED
                    BY <1>1, <2>1, <3>3, <4>2
            <3>. QED
                BY <3>2, <3>3
        <2>. QED
            BY <2>1, <2>2, <2>3, SeqEqual
    <1>6. b = z \o y
        <2>1. (a \o z) \o y = a \o (z \o y) /\ z \o y \in Seq(S)
            <3>1. z \in Seq(S)
                BY <1>4
            <3>2. (a \o z) \o y = a \o (z \o y)
                BY <3>1, ConcatAssociative
            <3>3. z \o y \in Seq(S)
                BY <3>1, ConcatProperties
            <3>. QED
                BY <3>2, <3>3
        <2>2. a \o b = a \o (z \o y)
            BY <1>5, <2>1
        <2>. QED
            BY <2>1, <2>2, ConcatSimplifications
    <1>7. z \in Between(S, a, b, x, y)
        BY <1>4, <1>5, <1>6 DEF Between
    <1>. QED
        BY <1>7

\* Cut within two pieces, in the first or in the second.
LEMMA SplitConcat ==
    ASSUME NEW S, NEW a \in Seq(S), NEW b \in Seq(S), NEW x \in Seq(S), NEW y \in Seq(S),
           a \o b = x \o y
    PROVE  \/ \E z : z \in Between(S, a, b, x, y)
           \/ \E z : z \in Between(S, x, y, a, b)
    <1>1. Len(a) \in Nat /\ Len(x) \in Nat
        BY LenProperties
    <1>2. CASE Len(a) <= Len(x)
        BY <1>2, Split
    <1>3. CASE Len(x) <= Len(a)
        <2>1. x \o y = a \o b
            OBVIOUS
        <2>. QED
            BY <1>3, <2>1, Split
    <1>. QED
        BY <1>1, <1>2, <1>3

\* Some whole pieces and the start of one.
CutIn(S, n, f, a) ==
    \E i \in 1 .. n : \E u, v \in Seq(S) :
        f[i] = u \o v /\ a = FlattenSeq(FirstOf(f, i - 1)) \o u

\* Cut within many pieces.
LEMMA SplitFlatten ==
    ASSUME NEW S, NEW n \in Nat \ {0}, NEW f \in [1 .. n -> Seq(S)],
           NEW a \in Seq(S), NEW b \in Seq(S), a \o b = FlattenSeq(f)
    PROVE  CutIn(S, n, f, a)
    <1>. DEFINE In(c, k) == \E i \in 1 .. k : \E u, v \in Seq(S) :
                               f[i] = u \o v /\ c = FlattenSeq(FirstOf(f, i - 1)) \o u
                Cuts(k) == \A c, d \in Seq(S) : c \o d = FlattenSeq(FirstOf(f, k)) => In(c, k)
                P == {k \in 0 .. n : k # 0 => Cuts(k)}
    <1>1. 0 \in P
        OBVIOUS
    <1>2. ASSUME NEW k \in 0 .. n - 1, k \in P
          PROVE  k + 1 \in P
        <2>1. SUFFICES ASSUME NEW c \in Seq(S), NEW d \in Seq(S),
                              c \o d = FlattenSeq(FirstOf(f, k + 1))
                       PROVE  In(c, k + 1)
            <3>. HIDE DEF In
            <3>1. k + 1 \in 0 .. n
                OBVIOUS
            <3>. QED
                BY <3>1
        <2>2. /\ FirstOf(f, k + 1) \in [1 .. k + 1 -> Seq(S)]
              /\ FirstOf(f, k) \in [1 .. k -> Seq(S)]
              /\ FirstOf(FirstOf(f, k + 1), k) = FirstOf(f, k)
              /\ FirstOf(f, k + 1)[k + 1] = f[k + 1]
              /\ k \in Nat /\ k + 1 \in 1 .. n
            BY DEF FirstOf
        <2>. DEFINE F == FlattenSeq(FirstOf(f, k))
        <2>3. FlattenSeq(FirstOf(f, k + 1)) = F \o f[k + 1]
            BY <2>2, FlattenLast
        <2>4. F \in Seq(S) /\ f[k + 1] \in Seq(S)
            BY <2>2, FlattenType
        <2>5. CASE \E z \in Seq(S) : F = c \o z /\ d = z \o f[k + 1]
            <3>1. PICK z \in Seq(S) : F = c \o z
                BY <2>5
            <3>2. CASE k = 0
                <4>1. F = << >>
                    BY <3>2 DEF FlattenSeq, FirstOf
                <4>2. c = << >>
                    BY <3>1, <4>1, ConcatSimplifications
                <4>3. << >> \in Seq(S) /\ f[1] \in Seq(S) /\ f[1] = << >> \o f[1] /\ c = F \o << >>
                    <5>1. << >> \in Seq(S) /\ f[1] \in Seq(S)
                        BY <2>4, <3>2
                    <5>. QED
                        BY <4>1, <4>2, <5>1, ConcatEmptySeq
                <4>4. F = FlattenSeq(FirstOf(f, 1 - 1)) /\ 1 \in 1 .. k + 1
                    BY <3>2
                <4>. QED
                    BY <4>3, <4>4
            <3>3. CASE k # 0
                <4>1. Cuts(k) /\ 1 .. k \subseteq 1 .. k + 1
                    <5>. HIDE DEF Cuts
                    <5>. QED
                        BY <1>2, <3>3
                <4>2. In(c, k)
                    BY <3>1, <4>1
                <4>. QED
                    BY <4>1, <4>2
            <3>. QED
                BY <3>2, <3>3
        <2>6. CASE \E z \in Seq(S) : c = F \o z /\ f[k + 1] = z \o d
            <3>1. PICK z \in Seq(S) : c = F \o z /\ f[k + 1] = z \o d
                BY <2>6
            <3>2. (k + 1) - 1 = k /\ k + 1 \in 1 .. k + 1
                BY <2>2
            <3>. QED
                BY <3>1, <3>2
        <2>7. c \o d = F \o f[k + 1]
            BY <2>1, <2>3
        <2>8. \/ \E z \in Seq(S) : F = c \o z /\ d = z \o f[k + 1]
              \/ \E z \in Seq(S) : c = F \o z /\ f[k + 1] = z \o d
            <3>. HIDE DEF F, In
            <3>. DEFINE e == f[k + 1]
            <3>1. e \in Seq(S) /\ c \o d = F \o e
                BY <2>4, <2>7
            <3>. HIDE DEF e
            <3>2. \/ \E z : z \in Between(S, c, d, F, e)
                  \/ \E z : z \in Between(S, F, e, c, d)
                BY <2>4, <3>1, SplitConcat
            <3>. QED
                BY <3>2 DEF Between, e
        <2>. QED
            BY <2>5, <2>6, <2>8
    <1>3. \A k \in 0 .. n : k \in P
        <2>. HIDE DEF P
        <2>1. n \in Nat
            OBVIOUS
        <2>. QED
            BY <1>1, <1>2, <2>1, InductionTo
    <1>4. FirstOf(f, n) = f
        BY DEF FirstOf
    <1>5. Cuts(n)
        <2>. HIDE DEF Cuts
        <2>1. n \in 0 .. n /\ n # 0
            OBVIOUS
        <2>. QED
            BY <1>3, <2>1
    <1>6. In(a, n)
        BY <1>4, <1>5
    <1>. QED
        BY <1>6 DEF CutIn

-----------------------------------------------------------------------------
(* How many elements of a sequence are in a set. *)

\* How many elements of s are in R.
Tally(s, R) == Len(Only(s, R))

\* A tally is a number.
LEMMA TallyType ==
    ASSUME NEW S, NEW R, NEW s \in Seq(S)
    PROVE  Tally(s, R) \in Nat
    <1>1. Only(s, R) \in Seq(S \cap R)
        BY OnlyType
    <1>. QED
        BY <1>1, LenProperties DEF Tally

\* The tally of a concatenation is the sum of the tallies.
LEMMA TallyConcat ==
    ASSUME NEW S, NEW R, NEW s \in Seq(S), NEW t \in Seq(S)
    PROVE  Tally(s \o t, R) = Tally(s, R) + Tally(t, R)
    <1>1. Only(s, R) \in Seq(S \cap R) /\ Only(t, R) \in Seq(S \cap R)
        BY OnlyType
    <1>2. Only(s \o t, R) = Only(s, R) \o Only(t, R)
        BY OnlyConcat
    <1>. QED
        BY <1>1, <1>2, ConcatProperties DEF Tally

\* Nothing is counted in nothing.
LEMMA TallyEmpty == \A R : Tally(<< >>, R) = 0
    BY OnlyEmpty DEF Tally

\* The tally of one element.
LEMMA TallyOne ==
    ASSUME NEW x, NEW R
    PROVE  Tally(<<x>>, R) = IF x \in R THEN 1 ELSE 0
    <1>1. Len(<<x>>) = 1 /\ Len(<< >>) = 0
        OBVIOUS
    <1>. QED
        BY <1>1, OnlyOne DEF Tally

\* Nothing is counted of elements that are not there.
LEMMA TallyNone ==
    ASSUME NEW S, NEW R, NEW s \in Seq(S), S \cap R = {}
    PROVE  Tally(s, R) = 0
    <1>1. Only(s, R) = << >>
        BY OnlyNone
    <1>. QED
        BY <1>1 DEF Tally

\* All elements of a sequence over R are counted.
LEMMA TallyAll ==
    ASSUME NEW R, NEW s \in Seq(R)
    PROVE  Tally(s, R) = Len(s)
    BY OnlyAll DEF Tally

\* A sequence with an element of the set has been cut behind it.
LEMMA TallyLast ==
    ASSUME NEW S, NEW R, NEW s \in Seq(S), NEW e \in S, NEW a \in Seq(S), NEW b \in Seq(S),
           a \o b = s \o <<e>>, Tally(s, R) = 0, Tally(a, R) # 0
    PROVE  a = s \o <<e>>
    <1>. DEFINE one == <<e>>
    <1>1. one \in Seq(S) /\ Len(one) = 1
        OBVIOUS
    <1>2. a \o b = s \o one
        OBVIOUS
    <1>. HIDE DEF one
    <1>3. \/ \E z : z \in Between(S, a, b, s, one)
          \/ \E z : z \in Between(S, s, one, a, b)
        BY <1>1, <1>2, SplitConcat
    <1>4. CASE \E z : z \in Between(S, a, b, s, one)
        <2>1. PICK z \in Seq(S) : s = a \o z
            BY <1>4 DEF Between
        <2>2. Tally(s, R) = Tally(a, R) + Tally(z, R)
            BY <2>1, TallyConcat
        <2>3. Tally(a, R) \in Nat /\ Tally(z, R) \in Nat
            BY TallyType
        <2>. QED
            BY <2>2, <2>3
    <1>5. CASE \E z : z \in Between(S, s, one, a, b)
        <2>1. PICK z \in Seq(S) : a = s \o z /\ one = z \o b
            BY <1>5 DEF Between
        <2>2. z # << >>
            <3>1. SUFFICES ASSUME z = << >>
                           PROVE  FALSE
                OBVIOUS
            <3>2. a = s
                BY <2>1, <3>1, ConcatEmptySeq
            <3>. QED
                BY <3>2
        <2>3. Len(z) + Len(b) = 1 /\ Len(z) \in Nat /\ Len(b) \in Nat
            BY <1>1, <2>1, ConcatProperties, LenProperties
        <2>4. Len(z) # 0
            BY <2>2, EmptySeq
        <2>5. Len(b) = 0
            BY <2>3, <2>4
        <2>6. b = << >>
            BY <2>5, EmptySeq
        <2>7. z = one
            BY <2>1, <2>6, ConcatEmptySeq
        <2>. QED
            BY <2>1, <2>7 DEF one
    <1>. QED
        BY <1>3, <1>4, <1>5

-----------------------------------------------------------------------------
(* Sets of sequences that are closed under putting together. *)

\* The sets of sequences that concatenation does not leave.
Joined(S) == {T \in SUBSET Seq(S) : << >> \in T /\ \A s, t \in T : s \o t \in T}

\* Sequences of elements of a smaller set.
LEMMA SeqJoined ==
    ASSUME NEW S, NEW U, U \subseteq S
    PROVE  Seq(U) \in Joined(S)
    <1>1. Seq(U) \subseteq Seq(S) /\ << >> \in Seq(U)
        OBVIOUS
    <1>2. \A s, t \in Seq(U) : s \o t \in Seq(U)
        BY ConcatProperties
    <1>. QED
        BY <1>1, <1>2 DEF Joined

\* Many pieces of such a set.
LEMMA FlattenJoined ==
    ASSUME NEW S, NEW T \in Joined(S), NEW n \in Nat, NEW f \in [1 .. n -> T]
    PROVE  FlattenSeq(f) \in T
    <1>. DEFINE Good == {k \in 0 .. n : FlattenSeq(FirstOf(f, k)) \in T}
    <1>1. T \subseteq Seq(S) /\ << >> \in T /\ \A s, t \in T : s \o t \in T
        BY DEF Joined
    <1>2. f \in [1 .. n -> Seq(S)]
        BY <1>1
    <1>3. 0 \in Good
        <2>1. FlattenSeq(FirstOf(f, 0)) = << >>
            BY DEF FlattenSeq, FirstOf
        <2>. QED
            BY <1>1, <2>1
    <1>4. ASSUME NEW k \in 0 .. n - 1, k \in Good
          PROVE  k + 1 \in Good
        <2>1. /\ FirstOf(f, k + 1) \in [1 .. k + 1 -> Seq(S)]
              /\ FirstOf(FirstOf(f, k + 1), k) = FirstOf(f, k)
              /\ FirstOf(f, k + 1)[k + 1] = f[k + 1]
              /\ k \in Nat /\ k + 1 \in 1 .. n
            BY <1>2 DEF FirstOf
        <2>2. FlattenSeq(FirstOf(f, k + 1)) = FlattenSeq(FirstOf(f, k)) \o f[k + 1]
            BY <2>1, FlattenLast
        <2>3. FlattenSeq(FirstOf(f, k)) \in T /\ f[k + 1] \in T
            BY <1>4, <2>1
        <2>4. FlattenSeq(FirstOf(f, k)) \o f[k + 1] \in T
            BY <1>1, <2>3
        <2>5. FlattenSeq(FirstOf(f, k + 1)) \in T
            BY <2>2, <2>4, Zenon
        <2>6. k + 1 \in 0 .. n
            OBVIOUS
        <2>. QED
            BY <2>5, <2>6
    <1>5. \A k \in 0 .. n : k \in Good
        <2>. HIDE DEF Good
        <2>. QED
            BY <1>3, <1>4, InductionTo
    <1>6. FirstOf(f, n) = f /\ n \in 0 .. n
        BY DEF FirstOf
    <1>. QED
        BY <1>5, <1>6

\* As many elements in one set as in another.
Equal(S, R, Q) == {s \in Seq(S) : Tally(s, R) = Tally(s, Q)}

\* As many of R as of Q: concatenation keeps it.
LEMMA EqualJoined ==
    ASSUME NEW S, NEW R, NEW Q
    PROVE  Equal(S, R, Q) \in Joined(S)
    <1>1. << >> \in Equal(S, R, Q)
        BY TallyEmpty DEF Equal
    <1>2. ASSUME NEW s \in Equal(S, R, Q), NEW t \in Equal(S, R, Q)
          PROVE  s \o t \in Equal(S, R, Q)
        <2>1. s \in Seq(S) /\ t \in Seq(S) /\ Tally(s, R) = Tally(s, Q) /\ Tally(t, R) = Tally(t, Q)
            BY DEF Equal
        <2>2. Tally(s \o t, R) = Tally(s, R) + Tally(t, R)
            BY <2>1, TallyConcat
        <2>3. Tally(s \o t, Q) = Tally(s, Q) + Tally(t, Q)
            BY <2>1, TallyConcat
        <2>4. s \o t \in Seq(S)
            BY <2>1, ConcatProperties
        <2>. QED
            BY <2>1, <2>2, <2>3, <2>4 DEF Equal
    <1>. QED
        BY <1>1, <1>2 DEF Joined, Equal

\* At no place of the sequence have there been more of R than of Q.
Leading(S, R, Q) ==
    {s \in Seq(S) : \A a, b \in Seq(S) : a \o b = s => Tally(a, R) <= Tally(a, Q)}

\* A sequence whose prefixes hold no more of R than of Q holds no more itself.
LEMMA LeadingTotal ==
    ASSUME NEW S, NEW R, NEW Q, NEW s \in Leading(S, R, Q)
    PROVE  s \in Seq(S) /\ Tally(s, R) <= Tally(s, Q)
    <1>1. s \in Seq(S) /\ << >> \in Seq(S)
        BY DEF Leading
    <1>2. s \o << >> = s
        BY <1>1, ConcatEmptySeq
    <1>. QED
        BY <1>1, <1>2 DEF Leading

\* A part of a sequence has no more elements in a set than it all.
LEMMA TallyPart ==
    ASSUME NEW S, NEW R, NEW a \in Seq(S), NEW b \in Seq(S)
    PROVE  Tally(a, R) <= Tally(a \o b, R) /\ Tally(b, R) <= Tally(a \o b, R)
    <1>1. Tally(a \o b, R) = Tally(a, R) + Tally(b, R)
        BY TallyConcat
    <1>2. Tally(a, R) \in Nat /\ Tally(b, R) \in Nat
        BY TallyType
    <1>. QED
        BY <1>1, <1>2

\* One sequence has none of R, and the other no more than the first has of Q.
LEMMA LeadingBehind ==
    ASSUME NEW S, NEW R, NEW Q, NEW s \in Seq(S), NEW t \in Seq(S),
           Tally(s, R) = 0, Tally(t, R) <= Tally(s, Q)
    PROVE  s \o t \in Leading(S, R, Q)
    <1>1. ASSUME NEW a \in Seq(S), NEW b \in Seq(S), a \o b = s \o t
          PROVE  Tally(a, R) <= Tally(a, Q)
        <2>0. /\ Tally(a, R) \in Nat /\ Tally(a, Q) \in Nat /\ Tally(s, Q) \in Nat
              /\ Tally(t, R) \in Nat
            BY TallyType
        <2>1. \/ \E z : z \in Between(S, a, b, s, t)
              \/ \E z : z \in Between(S, s, t, a, b)
            BY <1>1, SplitConcat
        <2>2. CASE \E z : z \in Between(S, a, b, s, t)
            <3>1. PICK z \in Seq(S) : s = a \o z
                BY <2>2 DEF Between
            <3>2. Tally(a, R) <= Tally(a \o z, R)
                BY TallyPart
            <3>. QED
                BY <2>0, <3>1, <3>2
        <2>3. CASE \E z : z \in Between(S, s, t, a, b)
            <3>1. PICK z \in Seq(S) : a = s \o z /\ t = z \o b
                BY <2>3 DEF Between
            <3>2. Tally(s \o z, R) = Tally(s, R) + Tally(z, R)
                BY TallyConcat
            <3>3. Tally(z, R) <= Tally(z \o b, R) /\ Tally(z, R) \in Nat
                BY TallyPart, TallyType
            <3>4. Tally(s, Q) <= Tally(s \o z, Q)
                BY TallyPart
            <3>. QED
                BY <2>0, <3>1, <3>2, <3>3, <3>4
        <2>. QED
            BY <2>1, <2>2, <2>3
    <1>2. s \o t \in Seq(S)
        BY ConcatProperties
    <1>. QED
        BY <1>1, <1>2 DEF Leading

\* A sequence without any of R holds no more of R than of Q at any point.
LEMMA LeadingNone ==
    ASSUME NEW S, NEW R, NEW Q, NEW s \in Seq(S), Tally(s, R) = 0
    PROVE  s \in Leading(S, R, Q)
    <1>1. << >> \in Seq(S) /\ Tally(<< >>, R) = 0 /\ Tally(s, Q) \in Nat
        BY TallyEmpty, TallyType
    <1>2. s \o << >> \in Leading(S, R, Q)
        <2>. DEFINE t == << >>
        <2>1. t \in Seq(S) /\ Tally(t, R) <= Tally(s, Q)
            BY <1>1
        <2>. HIDE DEF t
        <2>2. s \o t \in Leading(S, R, Q)
            BY <2>1, LeadingBehind
        <2>. QED
            BY <2>2 DEF t
    <1>3. s \o << >> = s
        BY ConcatEmptySeq
    <1>. QED
        BY <1>2, <1>3

\* No prefix with more of R than of Q: concatenation keeps it.
LEMMA LeadingJoined ==
    ASSUME NEW S, NEW R, NEW Q
    PROVE  Leading(S, R, Q) \in Joined(S)
    <1>. DEFINE L == Leading(S, R, Q)
    <1>1. << >> \in L
        <2>. DEFINE none == << >>
        <2>1. none \in Seq(S) /\ Tally(none, R) = 0
            BY TallyEmpty
        <2>. HIDE DEF none
        <2>2. none \in Leading(S, R, Q)
            BY <2>1, LeadingNone
        <2>. QED
            BY <2>2 DEF none
    <1>2. ASSUME NEW s \in L, NEW t \in L
          PROVE  s \o t \in L
        <2>0. s \in Seq(S) /\ t \in Seq(S) /\ Tally(s, R) <= Tally(s, Q)
            BY LeadingTotal
        <2>1. ASSUME NEW a \in Seq(S), NEW b \in Seq(S), a \o b = s \o t
              PROVE  Tally(a, R) <= Tally(a, Q)
            <3>1. \/ \E z : z \in Between(S, a, b, s, t)
                  \/ \E z : z \in Between(S, s, t, a, b)
                BY <2>0, <2>1, SplitConcat
            <3>2. CASE \E z : z \in Between(S, a, b, s, t)
                <4>1. PICK z \in Seq(S) : s = a \o z
                    BY <3>2 DEF Between
                <4>. QED
                    BY <4>1 DEF Leading
            <3>3. CASE \E z : z \in Between(S, s, t, a, b)
                <4>1. PICK z \in Seq(S) : a = s \o z /\ t = z \o b
                    BY <3>3 DEF Between
                <4>2. Tally(z, R) <= Tally(z, Q)
                    BY <4>1 DEF Leading
                <4>3. Tally(s \o z, R) = Tally(s, R) + Tally(z, R)
                    BY <2>0, TallyConcat
                <4>4. Tally(s \o z, Q) = Tally(s, Q) + Tally(z, Q)
                    BY <2>0, TallyConcat
                <4>5. /\ Tally(s, R) \in Nat /\ Tally(s, Q) \in Nat
                      /\ Tally(z, R) \in Nat /\ Tally(z, Q) \in Nat
                    BY <2>0, TallyType
                <4>. QED
                    BY <2>0, <4>1, <4>2, <4>3, <4>4, <4>5
            <3>. QED
                BY <3>1, <3>2, <3>3
        <2>2. s \o t \in Seq(S)
            BY <2>0, ConcatProperties
        <2>. QED
            BY <2>1, <2>2 DEF Leading
    <1>. QED
        BY <1>1, <1>2 DEF Joined, Leading

\* As many elements of a set in each piece.
EachHas(n, f, R, c) == \A i \in 1 .. n : Tally(f[i], R) = c

\* n sequences with c of R each have n * c of them together.
LEMMA FlattenTally ==
    ASSUME NEW S, NEW R, NEW n \in Nat, NEW f \in [1 .. n -> Seq(S)], NEW c \in Nat,
           EachHas(n, f, R, c)
    PROVE  Tally(FlattenSeq(f), R) = n * c
    <1>1. Only(FlattenSeq(f), R) = FlattenSeq(OnlyOf(n, f, R))
        BY OnlyFlatten
    <1>2. /\ OnlyOf(n, f, R) \in [1 .. n -> Seq(S \cap R)]
          /\ \A i \in 1 .. n : Len(OnlyOf(n, f, R)[i]) = c
        BY OnlyType DEF OnlyOf, Tally, EachHas
    <1>3. Len(FlattenSeq(OnlyOf(n, f, R))) = n * c
        BY <1>2, FlattenLen
    <1>. QED
        BY <1>1, <1>3 DEF Tally
=============================================================================
