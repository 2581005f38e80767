------------------------- MODULE ShardedStepProofs --------------------------
(***************************************************************************)
(* Proofs about tensor parallelism, for any mesh, any sizes of the model   *)
(* and any weights and batch: sharded linear layers compute what the whole *)
(* ones do, forward and backward; so the devices of a mesh hold, of every  *)
(* activation of the forward pass, its rows of the batch whole, in slices  *)
(* or in parts that add up; and the loss each computes from its slice of   *)
(* the logits is the cross entropy of all of them.                         *)
(***************************************************************************)
EXTENDS ShardedStep, SequenceLaws, FiniteSetTheorems, SequenceTheorems

-----------------------------------------------------------------------------
(* Sums, and the algebra of sharded linear layers. *)

\* Induction over the subsets of a finite set.
LEMMA SubsetInduction ==
    ASSUME NEW S, IsFiniteSet(S), NEW C, {} \in C,
           \A A \in SUBSET S : A # {} /\ (\A x \in A : A \ {x} \in C) => A \in C
    PROVE  \A A \in SUBSET S : A \in C
    <1>. DEFINE Q == {n \in Nat : \A A \in SUBSET S : Cardinality(A) = n => A \in C}
    <1>1. \A A \in SUBSET S : IsFiniteSet(A) /\ Cardinality(A) \in Nat
        BY FS_Subset, FS_CardinalityType
    <1>2. 0 \in Q
        BY <1>1, FS_EmptySet
    <1>3. ASSUME NEW n \in Nat, n \in Q
          PROVE  n + 1 \in Q
        <2>1. ASSUME NEW A \in SUBSET S, Cardinality(A) = n + 1
              PROVE  A \in C
            <3>1. A # {}
                BY <1>3, <2>1, FS_EmptySet
            <3>2. ASSUME NEW x \in A
                  PROVE  A \ {x} \in C
                <4>1. Cardinality(A \ {x}) = Cardinality(A) - 1
                    BY <1>1, FS_RemoveElement
                <4>2. Cardinality(A \ {x}) = n /\ A \ {x} \in SUBSET S
                    BY <2>1, <4>1
                <4>. QED
                    BY <1>3, <4>2
            <3>. QED
                BY <3>1, <3>2
        <2>. QED
            BY <2>1
    <1>4. Q = Nat
        <2>. HIDE DEF Q
        <2>1. Q \in SUBSET Nat
            BY DEF Q
        <2>. QED
            BY <1>2, <1>3, <2>1, SetInduction
    <1>. QED
        BY <1>1, <1>4

-----------------------------------------------------------------------------
(* Total *)

\* The element that is added next.
Pick(s) == CHOOSE x \in s : TRUE

\* The value of a sum, by the value of the sum without the first element.
TotalOf(f, g, s) == IF s = {} THEN 0 ELSE (f[Pick(s)] + g[s \ {Pick(s)}]) % P

\* The recursive functions that Total evaluates.
Totals(S, f) == {g \in [SUBSET S -> Num] : \A s \in SUBSET S : g[s] = TotalOf(f, g, s)}

LEMMA TotalOfType ==
    ASSUME NEW S, NEW f \in [S -> Int], NEW g \in [SUBSET S -> Num], NEW s \in SUBSET S
    PROVE  TotalOf(f, g, s) \in Num
    <1>1. CASE s = {}
        BY <1>1 DEF TotalOf, Num, P
    <1>2. CASE s # {}
        <2>1. Pick(s) \in S
            BY <1>2 DEF Pick
        <2>2. f[Pick(s)] \in Int /\ g[s \ {Pick(s)}] \in Num
            BY <2>1
        <2>. DEFINE a == f[Pick(s)]
                    b == g[s \ {Pick(s)}]
        <2>3. TotalOf(f, g, s) = (a + b) % P
            BY <1>2 DEF TotalOf
        <2>4. a \in Int /\ b \in Int
            BY <2>2 DEF Num, P
        <2>. HIDE DEF a, b
        <2>. QED
            BY <2>3, <2>4 DEF Num, P
    <1>. QED
        BY <1>1, <1>2

\* The recursion has a solution.
LEMMA TotalSteps ==
    ASSUME NEW S, IsFiniteSet(S), NEW f \in [S -> Int]
    PROVE  \E g : g \in Totals(S, f) /\ Total(f) = g[S]
    <1>. DEFINE T == [SUBSET S -> Num]
                start == [s \in SUBSET S |-> 0]
                next == [i \in Nat |-> [g \in T |-> [s \in SUBSET S |-> TotalOf(f, g, s)]]]
                n == Cardinality(S)
    <1>1. n \in Nat /\ \A s \in SUBSET S : IsFiniteSet(s) /\ Cardinality(s) \in Nat /\ Cardinality(s) <= n
        BY FS_CardinalityType, FS_Subset
    <1>2. start \in T
        BY DEF Num, P
    <1>3. next \in [Nat -> [T -> T]]
        BY TotalOfType
    <1>4. \A i \in Nat : \A g \in T : \A s \in SUBSET S : next[i][g][s] = TotalOf(f, g, s)
        OBVIOUS
    <1>5. \A s \in SUBSET S : start[s] = 0
        OBVIOUS
    <1>. HIDE DEF n, next, start, T
    <1>6. PICK h : h \in Iterations(T, start, next, n)
        BY <1>1, <1>2, <1>3, Iterate
    <1>7. h \in [0 .. n -> T] /\ h[0] = start /\ \A i \in 1 .. n : h[i] = next[i][h[i - 1]]
        BY <1>6 DEF Iterations
    <1>8. \A i \in 1 .. n : h[i - 1] \in T /\ i \in Nat
        BY <1>1, <1>7
    <1>9. \A i \in 1 .. n : \A s \in SUBSET S : h[i][s] = TotalOf(f, h[i - 1], s)
        BY <1>4, <1>7, <1>8
    <1>. DEFINE k == [s \in SUBSET S |-> h[Cardinality(s)][s]]
                Step(g) == [s \in SUBSET S |-> TotalOf(f, g, s)]
    <1>10. \A s \in SUBSET S : Cardinality(s) \in 0 .. n /\ k[s] = h[Cardinality(s)][s]
        BY <1>1
    <1>11. k \in T
        BY <1>7, <1>10 DEF T
    <1>12. ASSUME NEW s \in SUBSET S
           PROVE  k[s] = TotalOf(f, k, s)
        <2>1. CASE s = {}
            <3>1. Cardinality(s) = 0
                BY <2>1, FS_EmptySet
            <3>. QED
                BY <1>5, <1>7, <1>10, <2>1, <3>1 DEF TotalOf
        <2>2. CASE s # {}
            <3>. DEFINE x == Pick(s)
                        c == Cardinality(s)
                        r == s \ {x}
            <3>1. x \in s
                BY <2>2 DEF Pick
            <3>2. c # 0 /\ c \in 0 .. n
                BY <1>1, <1>10, <2>2, FS_EmptySet
            <3>3. Cardinality(r) = c - 1 /\ r \in SUBSET S
                BY <1>1, <3>1, FS_RemoveElement
            <3>4. c \in 1 .. n
                BY <1>1, <3>2
            <3>5. k[r] = h[c - 1][r]
                BY <1>10, <3>3
            <3>6. k[s] = TotalOf(f, h[c - 1], s)
                BY <1>9, <1>10, <3>4
            <3>. QED
                BY <2>2, <3>5, <3>6 DEF TotalOf
        <2>. QED
            BY <2>1, <2>2
    <1>13. k = Step(k)
        <2>1. k = [s \in SUBSET S |-> k[s]]
            OBVIOUS
        <2>. HIDE DEF k
        <2>. QED
            BY <1>12, <2>1
    <1>. HIDE DEF k
    <1>. DEFINE g == CHOOSE e : e = Step(e)
    <1>14. g = Step(g)
        <2>. HIDE DEF Step
        <2>. QED
            BY <1>13
    <1>15. Total(f) = g[S]
        <2>1. DOMAIN f = S
            OBVIOUS
        <2>. QED
            BY <2>1 DEF Total, FoldFunction, FoldFunctionOnSet, MapThenFoldSet, TotalOf, Pick
    <1>. HIDE DEF g
    <1>16. \A s \in SUBSET S : g[s] = TotalOf(f, g, s)
        BY <1>14
    <1>17. g = [s \in SUBSET S |-> g[s]]
        BY <1>14
    <1>18. \A s \in SUBSET S : g[s] \in Num
        <2>. DEFINE C == {s \in SUBSET S : g[s] \in Num}
        <2>1. {} \in C
            <3>1. g[{}] = 0
                BY <1>16 DEF TotalOf
            <3>. QED
                BY <3>1 DEF Num, P
        <2>2. ASSUME NEW A \in SUBSET S, A # {}, \A x \in A : A \ {x} \in C
              PROVE  A \in C
            <3>1. Pick(A) \in A
                BY <2>2 DEF Pick
            <3>. DEFINE a == f[Pick(A)]
                        b == g[A \ {Pick(A)}]
            <3>2. a \in Int
                BY <3>1
            <3>3. b \in Num
                BY <2>2, <3>1
            <3>4. g[A] = (a + b) % P
                BY <1>16, <2>2 DEF TotalOf
            <3>. HIDE DEF a, b
            <3>5. g[A] \in Num
                BY <3>2, <3>3, <3>4 DEF Num, P
            <3>. QED
                BY <3>5
        <2>3. \A A \in SUBSET S : A \in C
            <3>. HIDE DEF C
            <3>. QED
                BY <2>1, <2>2, SubsetInduction
        <2>. QED
            BY <2>3
    <1>. QED
        BY <1>15, <1>16, <1>17, <1>18 DEF Totals

\* The total of a function on a set.
TotalOn(f, A) == Total([a \in A |-> f[a]])

\* Whatever is added first.
LEMMA AnyFirst ==
    ASSUME NEW S, IsFiniteSet(S), NEW f \in [S -> Int], NEW g \in Totals(S, f)
    PROVE  \A s \in SUBSET S : \A a \in s : g[s] = (f[a] + g[s \ {a}]) % P
    <1>1. /\ \A s \in SUBSET S : g[s] \in Int
          /\ \A s \in SUBSET S : s # {} => g[s] = (f[Pick(s)] + g[s \ {Pick(s)}]) % P
        BY DEF Totals, TotalOf, Num, P
    <1>. DEFINE C == {s \in SUBSET S : \A a \in s : g[s] = (f[a] + g[s \ {a}]) % P}
    <1>2. {} \in C
        OBVIOUS
    <1>3. ASSUME NEW A \in SUBSET S, A # {}, \A x \in A : A \ {x} \in C
          PROVE  A \in C
        <2>. SUFFICES ASSUME NEW a \in A
                      PROVE  g[A] = (f[a] + g[A \ {a}]) % P
            OBVIOUS
        <2>. DEFINE p == Pick(A)
        <2>1. p \in A
            BY DEF Pick
        <2>2. g[A] = (f[p] + g[A \ {p}]) % P
            BY <1>1, <1>3
        <2>. HIDE DEF p
        <2>3. CASE a = p
            BY <2>2, <2>3
        <2>4. CASE a # p
            <3>1. A \ {p} \in C /\ a \in A \ {p} /\ A \ {a} \in C /\ p \in A \ {a}
                BY <1>3, <2>1, <2>4
            <3>. DEFINE B == (A \ {p}) \ {a}
            <3>2. B = (A \ {a}) \ {p}
                OBVIOUS
            <3>3. g[A \ {p}] = (f[a] + g[B]) % P
                BY <3>1
            <3>4. g[A \ {a}] = (f[p] + g[B]) % P
                BY <3>1, <3>2
            <3>5. B \in SUBSET S
                OBVIOUS
            <3>. DEFINE x == f[a]
                        y == f[p]
                        z == g[B]
            <3>6. x \in Int /\ y \in Int /\ z \in Int
                BY <1>1, <2>1, <3>5
            <3>7. g[A] = (y + ((x + z) % P)) % P /\ g[A \ {a}] = (y + z) % P
                BY <2>2, <3>3, <3>4
            <3>. HIDE DEF x, y, z, B
            <3>8. (y + ((x + z) % P)) % P = (x + ((y + z) % P)) % P
                BY <3>6 DEF P
            <3>. QED
                BY <3>7, <3>8 DEF x
        <2>. QED
            BY <2>3, <2>4
    <1>4. \A A \in SUBSET S : A \in C
        <2>. HIDE DEF C
        <2>. QED
            BY <1>2, <1>3, SubsetInduction
    <1>. QED
        BY <1>4

\* The sum over a subset does not depend on the set it is a subset of.
LEMMA SumWithin ==
    ASSUME NEW S, IsFiniteSet(S), NEW f \in [S -> Int], NEW g \in Totals(S, f),
           NEW T \in SUBSET S, NEW e \in [T -> Int], \A a \in T : e[a] = f[a], NEW h \in Totals(T, e)
    PROVE  \A s \in SUBSET T : g[s] = h[s]
    <1>. DEFINE C == {s \in SUBSET T : g[s] = h[s]}
    <1>1. /\ \A s \in SUBSET S : g[s] = TotalOf(f, g, s)
          /\ \A s \in SUBSET T : h[s] = TotalOf(e, h, s)
        BY DEF Totals
    <1>2. {} \in C
        BY <1>1 DEF TotalOf
    <1>3. ASSUME NEW A \in SUBSET T, A # {}, \A x \in A : A \ {x} \in C
          PROVE  A \in C
        <2>1. Pick(A) \in A
            BY <1>3 DEF Pick
        <2>2. g[A \ {Pick(A)}] = h[A \ {Pick(A)}] /\ e[Pick(A)] = f[Pick(A)]
            BY <1>3, <2>1
        <2>3. A \in SUBSET S
            OBVIOUS
        <2>4. TotalOf(f, g, A) = TotalOf(e, h, A)
            BY <2>2 DEF TotalOf
        <2>5. g[A] = h[A]
            BY <1>1, <2>3, <2>4
        <2>. QED
            BY <2>5
    <1>4. IsFiniteSet(T)
        BY FS_Subset
    <1>5. \A A \in SUBSET T : A \in C
        <2>. HIDE DEF C
        <2>. QED
            BY <1>2, <1>3, <1>4, SubsetInduction
    <1>. QED
        BY <1>5

\* Nothing adds up to nothing, and a total is a number.
LEMMA TotalType ==
    ASSUME NEW A, IsFiniteSet(A), NEW f, \A a \in A : f[a] \in Int
    PROVE  TotalOn(f, A) \in Num
    <1>. DEFINE e == [a \in A |-> f[a]]
    <1>1. e \in [A -> Int]
        OBVIOUS
    <1>. HIDE DEF e
    <1>2. PICK g : g \in Totals(A, e) /\ Total(e) = g[A]
        BY <1>1, TotalSteps
    <1>3. g[A] \in Num
        BY <1>2 DEF Totals
    <1>. QED
        BY <1>2, <1>3 DEF TotalOn, e

LEMMA TotalEmpty ==
    ASSUME NEW f
    PROVE  TotalOn(f, {}) = 0
    <1>. DEFINE e == [a \in {} |-> f[a]]
    <1>1. e \in [{} -> Int] /\ IsFiniteSet({})
        BY FS_EmptySet
    <1>. HIDE DEF e
    <1>2. PICK g : g \in Totals({}, e) /\ Total(e) = g[{}]
        BY <1>1, TotalSteps
    <1>3. g[{}] = 0
        BY <1>2 DEF Totals, TotalOf
    <1>. QED
        BY <1>2, <1>3 DEF TotalOn, e

\* One element more.
LEMMA TotalAdd ==
    ASSUME NEW A, IsFiniteSet(A), NEW f, \A a \in A : f[a] \in Int, NEW a \in A
    PROVE  TotalOn(f, A) = (f[a] + TotalOn(f, A \ {a})) % P
    <1>. DEFINE B == A \ {a}
                d == [x \in A |-> f[x]]
                e == [x \in B |-> f[x]]
    <1>1. /\ d \in [A -> Int] /\ e \in [B -> Int] /\ \A x \in B : e[x] = d[x] /\ d[a] = f[a]
          /\ B \in SUBSET A
        OBVIOUS
    <1>2. IsFiniteSet(B)
        BY FS_Subset
    <1>3. A \ {a} = B
        OBVIOUS
    <1>4. TotalOn(f, A) = Total(d) /\ TotalOn(f, A \ {a}) = Total(e)
        BY DEF TotalOn
    <1>5. d[a] = f[a]
        OBVIOUS
    <1>. HIDE DEF B, d, e
    <1>6. PICK g : g \in Totals(A, d) /\ Total(d) = g[A]
        BY <1>1, TotalSteps
    <1>7. PICK h : h \in Totals(B, e) /\ Total(e) = h[B]
        BY <1>1, <1>2, TotalSteps
    <1>8. g[B] = h[B]
        BY <1>1, <1>6, <1>7, SumWithin
    <1>9. g[A] = (d[a] + g[B]) % P
        BY <1>1, <1>3, <1>6, AnyFirst
    <1>. QED
        BY <1>4, <1>5, <1>6, <1>7, <1>8, <1>9

\* The total of all values.
LEMMA TotalAll ==
    ASSUME NEW A, NEW f, f = [a \in A |-> f[a]]
    PROVE  Total(f) = TotalOn(f, A)
    BY DEF TotalOn

\* A total of the same values.
LEMMA TotalSame ==
    ASSUME NEW A, NEW f, NEW g, \A a \in A : f[a] = g[a]
    PROVE  TotalOn(f, A) = TotalOn(g, A)
    <1>1. [a \in A |-> f[a]] = [a \in A |-> g[a]]
        OBVIOUS
    <1>. QED
        BY <1>1 DEF TotalOn

\* A total over two sets that share nothing.
LEMMA TotalUnion ==
    ASSUME NEW A, NEW B, IsFiniteSet(A), IsFiniteSet(B), A \cap B = {},
           NEW f, \A a \in A \cup B : f[a] \in Int
    PROVE  TotalOn(f, A \cup B) = (TotalOn(f, A) + TotalOn(f, B)) % P
    <1>. DEFINE C == {s \in SUBSET B : TotalOn(f, A \cup s) = (TotalOn(f, A) + TotalOn(f, s)) % P}
    <1>1. \A s \in SUBSET B : IsFiniteSet(s) /\ IsFiniteSet(A \cup s)
        BY FS_Subset, FS_Union
    <1>2. TotalOn(f, A) \in Num /\ \A s \in SUBSET B : TotalOn(f, s) \in Num
        <2>1. TotalOn(f, A) \in Num
            BY TotalType
        <2>2. ASSUME NEW s \in SUBSET B PROVE TotalOn(f, s) \in Num
            BY <1>1, TotalType
        <2>. QED
            BY <2>1, <2>2
    <1>3. {} \in C
        <2>1. A \cup {} = A /\ {} \in SUBSET B /\ TotalOn(f, {}) = 0
            BY TotalEmpty
        <2>. DEFINE x == TotalOn(f, A)
        <2>2. x \in Num
            BY <1>2
        <2>. HIDE DEF x
        <2>3. x = (x + 0) % P
            BY <2>2 DEF Num, P
        <2>. QED
            BY <2>1, <2>3 DEF x
    <1>4. ASSUME NEW s \in SUBSET B, s # {}, \A x \in s : s \ {x} \in C
          PROVE  s \in C
        <2>1. PICK a \in s : TRUE
            BY <1>4
        <2>2. TotalOn(f, A \cup s) = (f[a] + TotalOn(f, (A \cup s) \ {a})) % P
            <3>1. IsFiniteSet(A \cup s) /\ a \in A \cup s /\ \A x \in A \cup s : f[x] \in Int
                BY <1>1, <2>1
            <3>. QED
                BY <3>1, TotalAdd
        <2>3. TotalOn(f, s) = (f[a] + TotalOn(f, s \ {a})) % P
            <3>1. IsFiniteSet(s) /\ \A x \in s : f[x] \in Int
                BY <1>1
            <3>. QED
                BY <2>1, <3>1, TotalAdd
        <2>4. (A \cup s) \ {a} = A \cup (s \ {a})
            BY <2>1
        <2>5. TotalOn(f, A \cup (s \ {a})) = (TotalOn(f, A) + TotalOn(f, s \ {a})) % P
            BY <1>4, <2>1
        <2>6. f[a] \in Int /\ TotalOn(f, s \ {a}) \in Num /\ TotalOn(f, A) \in Num
            BY <1>2, <2>1
        <2>. DEFINE x == f[a]
                    y == TotalOn(f, A)
                    z == TotalOn(f, s \ {a})
        <2>7. TotalOn(f, A \cup s) = (x + ((y + z) % P)) % P /\ TotalOn(f, s) = (x + z) % P
            BY <2>2, <2>3, <2>4, <2>5
        <2>8. x \in Int /\ y \in Int /\ z \in Int
            BY <2>6 DEF Num, P
        <2>. HIDE DEF x, y, z
        <2>9. (x + ((y + z) % P)) % P = (y + ((x + z) % P)) % P
            BY <2>8 DEF P
        <2>. QED
            BY <2>7, <2>9 DEF y
    <1>5. \A s \in SUBSET B : s \in C
        <2>. HIDE DEF C
        <2>. QED
            BY <1>3, <1>4, SubsetInduction
    <1>. QED
        BY <1>5

\* Only the remainders count.
LEMMA TotalMod ==
    ASSUME NEW A, IsFiniteSet(A), NEW f, NEW g,
           \A a \in A : f[a] \in Int /\ g[a] \in Int /\ f[a] % P = g[a] % P
    PROVE  TotalOn(f, A) = TotalOn(g, A)
    <1>. DEFINE C == {s \in SUBSET A : TotalOn(f, s) = TotalOn(g, s)}
    <1>1. {} \in C
        BY TotalEmpty
    <1>2. ASSUME NEW s \in SUBSET A, s # {}, \A x \in s : s \ {x} \in C
          PROVE  s \in C
        <2>1. PICK a \in s : TRUE
            BY <1>2
        <2>2. IsFiniteSet(s) /\ IsFiniteSet(s \ {a}) /\ s \ {a} \in SUBSET A
            BY FS_Subset
        <2>3. TotalOn(f, s) = (f[a] + TotalOn(f, s \ {a})) % P
            BY <2>1, <2>2, TotalAdd
        <2>4. TotalOn(g, s) = (g[a] + TotalOn(g, s \ {a})) % P
            BY <2>1, <2>2, TotalAdd
        <2>5. TotalOn(f, s \ {a}) = TotalOn(g, s \ {a})
            BY <1>2, <2>1
        <2>6. TotalOn(f, s \ {a}) \in Num
            BY <2>2, TotalType
        <2>. DEFINE x == f[a]
                    y == g[a]
                    z == TotalOn(f, s \ {a})
        <2>7. /\ x \in Int /\ y \in Int /\ z \in Int /\ x % P = y % P
              /\ TotalOn(f, s) = (x + z) % P /\ TotalOn(g, s) = (y + z) % P
            BY <2>1, <2>3, <2>4, <2>5, <2>6 DEF Num, P
        <2>. HIDE DEF x, y, z
        <2>8. (x + z) % P = (y + z) % P
            BY <2>7 DEF P
        <2>. QED
            BY <2>7, <2>8
    <1>3. \A s \in SUBSET A : s \in C
        <2>. HIDE DEF C
        <2>. QED
            BY <1>1, <1>2, SubsetInduction
    <1>. QED
        BY <1>3

\* The remainder of a multiple of a remainder.
LEMMA ModTimes ==
    ASSUME NEW k \in Int, NEW x \in Int
    PROVE  (k * (x % P)) % P = (k * x) % P /\ ((x % P) * k) % P = (x * k) % P
    <1>. DEFINE q == x \div P
                r == x % P
    <1>1. q \in Int /\ r \in Int /\ x = P * q + r
        BY DEF P
    <1>. HIDE DEF q, r
    <1>2. k * x = P * (k * q) + k * r /\ x * k = P * (k * q) + k * r /\ r * k = k * r
        BY <1>1, SMT DEF P
    <1>. DEFINE m == k * q
                n == k * r
    <1>3. m \in Int /\ n \in Int
        BY <1>1
    <1>4. k * x = P * m + n /\ x * k = P * m + n /\ k * r = n /\ r * k = n
        BY <1>2
    <1>. HIDE DEF m, n
    <1>5. (P * m + n) % P = n % P
        BY <1>3 DEF P
    <1>. QED
        BY <1>4, <1>5 DEF r

\* A total of multiples is the multiple of the total.
LEMMA TotalScale ==
    ASSUME NEW A, IsFiniteSet(A), NEW f, NEW g, NEW k \in Int,
           \A a \in A : f[a] \in Int /\ g[a] \in Int /\ g[a] % P = (k * f[a]) % P
    PROVE  TotalOn(g, A) = (k * TotalOn(f, A)) % P
    <1>. DEFINE C == {s \in SUBSET A : TotalOn(g, s) = (k * TotalOn(f, s)) % P}
    <1>1. {} \in C
        <2>1. (k * 0) % P = 0
            BY DEF P
        <2>. QED
            BY <2>1, TotalEmpty
    <1>2. ASSUME NEW s \in SUBSET A, s # {}, \A x \in s : s \ {x} \in C
          PROVE  s \in C
        <2>1. PICK a \in s : TRUE
            BY <1>2
        <2>2. IsFiniteSet(s) /\ IsFiniteSet(s \ {a}) /\ s \ {a} \in SUBSET A
            BY FS_Subset
        <2>3. TotalOn(f, s) = (f[a] + TotalOn(f, s \ {a})) % P
            BY <2>1, <2>2, TotalAdd
        <2>4. TotalOn(g, s) = (g[a] + TotalOn(g, s \ {a})) % P
            BY <2>1, <2>2, TotalAdd
        <2>5. TotalOn(g, s \ {a}) = (k * TotalOn(f, s \ {a})) % P
            BY <1>2, <2>1
        <2>6. TotalOn(f, s \ {a}) \in Num
            BY <2>2, TotalType
        <2>. DEFINE x == f[a]
                    y == g[a]
                    z == TotalOn(f, s \ {a})
        <2>7. /\ x \in Int /\ y \in Int /\ z \in Int /\ y % P = (k * x) % P
              /\ TotalOn(f, s) = (x + z) % P /\ TotalOn(g, s) = (y + ((k * z) % P)) % P
            BY <2>1, <2>3, <2>4, <2>5, <2>6 DEF Num, P
        <2>. HIDE DEF x, y, z
        <2>8. (k * ((x + z) % P)) % P = (k * (x + z)) % P
            BY <2>7, ModTimes
        <2>9. k * (x + z) = k * x + k * z
            BY <2>7, SMT
        <2>. DEFINE u == k * x
                    v == k * z
        <2>10. u \in Int /\ v \in Int /\ y % P = u % P
            BY <2>7
        <2>. HIDE DEF u, v
        <2>11. (u + v) % P = (y + (v % P)) % P
            BY <2>7, <2>10 DEF P
        <2>12. (k * ((x + z) % P)) % P = (u + v) % P
            BY <2>8, <2>9 DEF u, v
        <2>13. TotalOn(g, s) = (y + (v % P)) % P
            BY <2>7 DEF v
        <2>. QED
            BY <2>7, <2>11, <2>12, <2>13
    <1>3. \A s \in SUBSET A : s \in C
        <2>. HIDE DEF C
        <2>. QED
            BY <1>1, <1>2, SubsetInduction
    <1>. QED
        BY <1>3

\* A total with a single value that is not nothing, and one with none.
LEMMA TotalNone ==
    ASSUME NEW A, IsFiniteSet(A), NEW f, \A a \in A : f[a] = 0
    PROVE  TotalOn(f, A) = 0
    <1>1. \A a \in A : f[a] \in Int /\ f[a] % P = (0 * f[a]) % P
        BY DEF P
    <1>2. TotalOn(f, A) = (0 * TotalOn(f, A)) % P
        BY <1>1, TotalScale
    <1>3. TotalOn(f, A) \in Num
        BY <1>1, TotalType
    <1>. DEFINE x == TotalOn(f, A)
    <1>4. x \in Int /\ x = (0 * x) % P
        BY <1>2, <1>3 DEF Num, P
    <1>. HIDE DEF x
    <1>5. x = 0
        BY <1>4 DEF P
    <1>. QED
        BY <1>5 DEF x

LEMMA TotalOne ==
    ASSUME NEW A, IsFiniteSet(A), NEW f, NEW a \in A, f[a] \in Int, \A x \in A \ {a} : f[x] = 0
    PROVE  TotalOn(f, A) = f[a] % P
    <1>1. \A x \in A : f[x] \in Int
        OBVIOUS
    <1>2. TotalOn(f, A) = (f[a] + TotalOn(f, A \ {a})) % P
        BY <1>1, TotalAdd
    <1>3. IsFiniteSet(A \ {a})
        BY FS_Subset
    <1>4. TotalOn(f, A \ {a}) = 0
        BY <1>3, TotalNone
    <1>. DEFINE x == f[a]
    <1>5. TotalOn(f, A) = (x + 0) % P /\ x \in Int
        BY <1>2, <1>4
    <1>. HIDE DEF x
    <1>6. x + 0 = x
        BY <1>5
    <1>. QED
        BY <1>5, <1>6 DEF x

\* A total in another numbering.
LEMMA TotalImage ==
    ASSUME NEW B, IsFiniteSet(B), NEW b, \A x, y \in B : b[x] = b[y] => x = y,
           NEW A, IsFiniteSet(A), A = {b[x] : x \in B},
           NEW f, NEW g, \A x \in B : f[b[x]] \in Int /\ g[x] = f[b[x]]
    PROVE  TotalOn(g, B) = TotalOn(f, A)
    <1>. DEFINE To(s) == {b[x] : x \in s}
                C == {s \in SUBSET B : TotalOn(g, s) = TotalOn(f, To(s))}
    <1>1. {} \in C
        <2>1. To({}) = {}
            OBVIOUS
        <2>. QED
            BY <2>1, TotalEmpty
    <1>2. ASSUME NEW s \in SUBSET B, s # {}, \A x \in s : s \ {x} \in C
          PROVE  s \in C
        <2>1. PICK a \in s : TRUE
            BY <1>2
        <2>2. IsFiniteSet(s) /\ s \in SUBSET B
            BY FS_Subset
        <2>3. To(s) \in SUBSET A /\ b[a] \in To(s) /\ To(s \ {a}) = To(s) \ {b[a]}
            BY <2>1
        <2>4. IsFiniteSet(To(s)) /\ \A y \in To(s) : f[y] \in Int
            BY <2>3, FS_Subset
        <2>5. TotalOn(g, s) = (g[a] + TotalOn(g, s \ {a})) % P
            BY <2>1, <2>2, TotalAdd
        <2>6. TotalOn(f, To(s)) = (f[b[a]] + TotalOn(f, To(s) \ {b[a]})) % P
            <3>. DEFINE T == To(s)
                        c == b[a]
            <3>1. c \in T /\ IsFiniteSet(T) /\ \A y \in T : f[y] \in Int
                BY <2>3, <2>4
            <3>. HIDE DEF T, c
            <3>2. TotalOn(f, T) = (f[c] + TotalOn(f, T \ {c})) % P
                BY <3>1, TotalAdd
            <3>. QED
                BY <3>2 DEF T, c
        <2>7. TotalOn(g, s \ {a}) = TotalOn(f, To(s \ {a}))
            BY <1>2, <2>1
        <2>. QED
            BY <2>1, <2>3, <2>5, <2>6, <2>7
    <1>3. \A s \in SUBSET B : s \in C
        <2>. HIDE DEF C
        <2>. QED
            BY <1>1, <1>2, SubsetInduction
    <1>4. TotalOn(g, B) = TotalOn(f, To(B))
        BY <1>3
    <1>. QED
        BY <1>4

\* Products of natural numbers.
LEMMA TimesNat ==
    ASSUME NEW a \in Nat, NEW b \in Nat
    PROVE  a * b \in Nat /\ (a + 1) * b = a * b + b /\ 0 * b = 0
    BY SMT

\* A larger number of blocks is longer.
LEMMA TimesOrder ==
    ASSUME NEW a \in Nat, NEW b \in Nat, NEW c \in Nat, a <= c
    PROVE  a * b <= c * b
    <1>1. PICK d \in Nat : c = a + d
        <2>1. c - a \in Nat /\ c = a + (c - a)
            OBVIOUS
        <2>. QED
            BY <2>1
    <1>2. (a + d) * b = a * b + d * b /\ d * b \in Nat /\ a * b \in Nat
        BY SMT
    <1>. QED
        BY <1>1, <1>2

\* Each of n values the total of a block of w.
InBlocks(f, g, n, w) ==
    /\ \A i \in 1 .. n * w : f[i] \in Int
    /\ \A t \in 0 .. n - 1 : g[t] = TotalOn([i \in 1 .. w |-> f[t * w + i]], 1 .. w)

\* A total over blocks of w values, block by block, is the total of them all.
LEMMA TotalBlocks ==
    ASSUME NEW n \in Nat, NEW w \in Nat, NEW f, NEW g, InBlocks(f, g, n, w)
    PROVE  TotalOn(g, 0 .. n - 1) = TotalOn(f, 1 .. n * w)
    <1>0. /\ \A i \in 1 .. n * w : f[i] \in Int
          /\ \A t \in 0 .. n - 1 : g[t] = TotalOn([i \in 1 .. w |-> f[t * w + i]], 1 .. w)
        BY DEF InBlocks
    <1>. DEFINE Q == {m \in 0 .. n : TotalOn(g, 0 .. m - 1) = TotalOn(f, 1 .. m * w)}
    <1>1. 0 \in Q
        <2>1. 0 .. 0 - 1 = {} /\ 1 .. 0 * w = {}
            BY TimesNat
        <2>. QED
            BY <2>1, TotalEmpty
    <1>2. ASSUME NEW m \in 0 .. n - 1, m \in Q
          PROVE  m + 1 \in Q
        <2>1. m \in Nat /\ m + 1 \in 0 .. n
            OBVIOUS
        <2>. DEFINE a == m * w
        <2>2. a \in Nat /\ (m + 1) * w = a + w
            BY <2>1, TimesNat
        <2>3. a + w <= n * w /\ n * w \in Nat
            BY <2>1, <2>2, TimesOrder, TimesNat
        <2>4. TotalOn(g, 0 .. m - 1) = TotalOn(f, 1 .. a)
            BY <1>2
        <2>. DEFINE h == [i \in 1 .. w |-> f[m * w + i]]
        <2>5. g[m] = TotalOn(h, 1 .. w)
            BY <1>0, <2>1
        <2>6. \A i \in 1 .. w : h[i] = f[a + i]
            OBVIOUS
        <2>. HIDE DEF a, h
        <2>. DEFINE B == a + 1 .. a + w
        <2>7. TotalOn(h, 1 .. w) = TotalOn(f, B)
            <3>. DEFINE b == [i \in 1 .. w |-> a + i]
            <3>1. \A x, y \in 1 .. w : b[x] = b[y] => x = y
                BY <2>2
            <3>2. B = {b[x] : x \in 1 .. w}
                <4>1. \A y \in B : y - a \in 1 .. w /\ y = b[y - a]
                    BY <2>2
                <4>2. \A x \in 1 .. w : b[x] \in B
                    BY <2>2
                <4>. HIDE DEF b
                <4>. QED
                    BY <4>1, <4>2
            <3>3. \A x \in 1 .. w : f[b[x]] \in Int /\ h[x] = f[b[x]]
                BY <1>0, <2>2, <2>3, <2>6
            <3>4. IsFiniteSet(1 .. w) /\ IsFiniteSet(B)
                BY <2>2, FS_Interval
            <3>. DEFINE I == 1 .. w
            <3>5. /\ \A x, y \in I : b[x] = b[y] => x = y
                  /\ B = {b[x] : x \in I}
                  /\ \A x \in I : f[b[x]] \in Int /\ h[x] = f[b[x]]
                  /\ IsFiniteSet(I) /\ IsFiniteSet(B)
                BY <3>1, <3>2, <3>3, <3>4
            <3>. HIDE DEF b, B, I
            <3>6. TotalOn(h, I) = TotalOn(f, B)
                BY <3>5, TotalImage
            <3>. QED
                BY <3>6 DEF I
        <2>8. TotalOn(f, (1 .. a) \cup B) = (TotalOn(f, 1 .. a) + TotalOn(f, B)) % P
            <3>1. IsFiniteSet(1 .. a) /\ IsFiniteSet(B)
                BY <2>2, FS_Interval
            <3>2. (1 .. a) \cap B = {} /\ \A i \in (1 .. a) \cup B : f[i] \in Int
                BY <1>0, <2>2, <2>3
            <3>. HIDE DEF B
            <3>. QED
                BY <3>1, <3>2, TotalUnion
        <2>9. (1 .. a) \cup B = 1 .. a + w
            BY <2>2
        <2>10. \A t \in 0 .. m : g[t] \in Int
            <3>. TAKE t \in 0 .. m
            <3>1. t \in 0 .. n - 1 /\ t \in Nat /\ t + 1 <= n
                BY <2>1
            <3>. DEFINE e == [i \in 1 .. w |-> f[t * w + i]]
            <3>2. g[t] = TotalOn(e, 1 .. w)
                BY <1>0, <3>1
            <3>3. \A i \in 1 .. w : e[i] \in Int
                <4>1. t * w \in Nat /\ (t + 1) * w = t * w + w /\ (t + 1) * w <= n * w
                    BY <3>1, TimesNat, TimesOrder
                <4>2. \A i \in 1 .. w : t * w + i \in 1 .. n * w
                    BY <4>1
                <4>. QED
                    BY <1>0, <4>2
            <3>4. IsFiniteSet(1 .. w)
                BY FS_Interval
            <3>. HIDE DEF e
            <3>5. TotalOn(e, 1 .. w) \in Num
                BY <3>3, <3>4, TotalType
            <3>6. g[t] \in Num
                BY <3>2, <3>5
            <3>7. \A x \in Num : x \in Int
                BY DEF Num, P
            <3>. QED
                BY <3>6, <3>7
        <2>11. TotalOn(g, 0 .. m) = (g[m] + TotalOn(g, (0 .. m) \ {m})) % P
            <3>1. IsFiniteSet(0 .. m) /\ m \in 0 .. m
                BY <2>1, FS_Interval
            <3>. QED
                BY <2>10, <3>1, TotalAdd
        <2>12. (0 .. m) \ {m} = 0 .. m - 1 /\ (m + 1) - 1 = m
            BY <2>1
        <2>13. TotalOn(f, 1 .. a) \in Num
            <3>1. IsFiniteSet(1 .. a) /\ \A i \in 1 .. a : f[i] \in Int
                BY <1>0, <2>2, <2>3, FS_Interval
            <3>. QED
                BY <3>1, TotalType
        <2>. DEFINE x == g[m]
                    y == TotalOn(f, 1 .. a)
        <2>14. x \in Int /\ y \in Int
            <3>1. x \in Int
                BY <2>1, <2>10
            <3>2. y \in Num
                BY <2>13
            <3>. HIDE DEF y
            <3>. QED
                BY <3>1, <3>2 DEF Num, P
        <2>15. TotalOn(g, 0 .. m) = (x + y) % P /\ TotalOn(f, 1 .. a + w) = (y + x) % P
            BY <2>4, <2>5, <2>7, <2>8, <2>9, <2>11, <2>12
        <2>. HIDE DEF x, y
        <2>16. (x + y) % P = (y + x) % P
            BY <2>14
        <2>17. TotalOn(g, 0 .. (m + 1) - 1) = TotalOn(f, 1 .. (m + 1) * w)
            BY <2>2, <2>12, <2>15, <2>16
        <2>. QED
            BY <2>1, <2>17
    <1>3. \A m \in 0 .. n : m \in Q
        <2>. HIDE DEF Q
        <2>. QED
            BY <1>1, <1>2, InductionTo
    <1>. QED
        BY <1>3

\* Matrices of a shape.
Matrix(rows, columns) == [1 .. rows -> [1 .. columns -> Num]]

\* A sequence of a length.
HasLength(s, m) == s = [i \in 1 .. m |-> s[i]]

\* The t-th of the pieces of one size.
Piece(s, size, t) == [i \in 1 .. size |-> s[t * size + i]]

\* The places of a piece are places of the whole.
LEMMA PieceWithin ==
    ASSUME NEW world \in Nat, NEW size \in Nat, NEW t \in 0 .. world - 1
    PROVE  /\ t * size \in Nat /\ (t + 1) * size = t * size + size
           /\ t * size + size <= world * size /\ world * size \in Nat
           /\ \A i \in 1 .. size : t * size + i \in 1 .. world * size
    <1>. DEFINE a == t * size
                b == world * size
    <1>1. t \in Nat /\ t + 1 \in Nat /\ t + 1 <= world
        OBVIOUS
    <1>2. a \in Nat /\ b \in Nat
        BY <1>1, TimesNat
    <1>3. (t + 1) * size = a + size
        BY <1>1, TimesNat
    <1>4. (t + 1) * size <= b
        BY <1>1, TimesOrder
    <1>. HIDE DEF a, b
    <1>5. \A i \in 1 .. size : a + i \in 1 .. b
        BY <1>2, <1>3, <1>4
    <1>. QED
        BY <1>2, <1>3, <1>4, <1>5 DEF a, b

\* A length that the group's size divides is cut into pieces of one size.
Divides(m, world, t) ==
    LET size == m \div world
    IN  /\ size \in Nat /\ m = world * size
        /\ t * size \in Nat /\ (t + 1) * size = t * size + size /\ t * size + size <= m
        /\ \A i \in 1 .. size : t * size + i \in 1 .. m

LEMMA Pieces ==
    ASSUME NEW world \in Nat \ {0}, NEW m \in Nat, m % world = 0, NEW t \in 0 .. world - 1
    PROVE  Divides(m, world, t)
    <1>. DEFINE size == m \div world
    <1>1. size \in Nat /\ m = world * size + 0
        BY Division
    <1>. HIDE DEF size
    <1>2. world * size \in Nat
        BY <1>1, TimesNat
    <1>3. m = world * size
        BY <1>1, <1>2
    <1>. DEFINE a == t * size
    <1>4. a \in Nat /\ (t + 1) * size = a + size /\ a + size <= m
        BY <1>1, <1>3, PieceWithin
    <1>. HIDE DEF a
    <1>5. \A i \in 1 .. size : a + i \in 1 .. m
        BY <1>1, <1>4
    <1>. QED
        BY <1>1, <1>3, <1>4, <1>5 DEF a, size, Divides

LEMMA ChunkPiece ==
    ASSUME NEW world \in Nat \ {0}, NEW m \in Nat, m % world = 0, NEW t \in 0 .. world - 1,
           NEW s, HasLength(s, m)
    PROVE  Chunk(s, world, t) = Piece(s, m \div world, t)
    <1>. DEFINE S == {s[i] : i \in 1 .. m}
    <1>0. s \in [1 .. m -> S]
        BY DEF HasLength
    <1>. HIDE DEF S
    <1>. DEFINE size == m \div world
                first == t * size
    <1>1. /\ size \in Nat /\ m = world * size /\ first \in Nat /\ first + size <= m
          /\ (t + 1) * size = first + size
        <2>1. Divides(m, world, t)
            BY Pieces
        <2>. QED
            BY <2>1 DEF Divides
    <1>. HIDE DEF size
    <1>2. s \in Seq(S) /\ Len(s) = m
        BY <1>0
    <1>3. ChunkSize(Len(s), world) = size
        <2>1. (world * size + (world - 1)) \div world = size
            <3>1. world - 1 \in 0 .. world - 1
                OBVIOUS
            <3>. QED
                BY <1>1, <3>1, DivUnique
        <2>2. m + world - 1 = m + (world - 1)
            BY <1>1
        <2>. QED
            BY <1>1, <1>2, <2>1, <2>2 DEF ChunkSize
    <1>4. (IF (t + 1) * size < Len(s) THEN (t + 1) * size ELSE Len(s)) = first + size
        <2>. HIDE DEF first
        <2>. QED
            BY <1>1, <1>2
    <1>5. Chunk(s, world, t) = SubSeq(s, first + 1, first + size)
        BY <1>3, <1>4 DEF Chunk
    <1>6. \A i \in first + 1 .. first + size : s[i] \in S
        <2>. HIDE DEF first
        <2>. QED
            BY <1>0, <1>1
    <1>. DEFINE lo == first + 1
                hi == first + size
                c == SubSeq(s, lo, hi)
    <1>7. /\ lo \in Int /\ hi \in Int /\ hi - lo + 1 = size /\ \A i \in 1 .. size : lo + i - 1 = first + i
          /\ (IF lo <= hi THEN hi - lo + 1 ELSE 0) = size
        <2>. HIDE DEF first
        <2>. QED
            BY <1>1
    <1>8. c \in Seq(S) /\ Len(c) = size /\ \A i \in 1 .. size : c[i] = s[first + i]
        <2>2. \A i \in lo .. hi : s[i] \in S
            BY <1>6
        <2>. HIDE DEF lo, hi
        <2>1. /\ c \in Seq(S)
              /\ Len(c) = IF lo <= hi THEN hi - lo + 1 ELSE 0
              /\ \A i \in 1 .. hi - lo + 1 : c[i] = s[lo + i - 1]
            BY <1>7, <2>2, SubSeqProperties
        <2>. QED
            BY <1>7, <2>1
    <1>9. c = [i \in 1 .. size |-> s[first + i]]
        <2>. HIDE DEF c, first
        <2>1. c = [i \in 1 .. Len(c) |-> c[i]]
            BY <1>8
        <2>. QED
            BY <1>8, <2>1
    <1>. QED
        BY <1>5, <1>9 DEF Piece, size

\* Pieces of one size laid end to end.
LEMMA FlattenPieces ==
    ASSUME NEW world \in Nat, NEW size \in Nat, NEW m, m = world * size, NEW s, HasLength(s, m),
           NEW f, HasLength(f, world), \A r \in 1 .. world : f[r] = Piece(s, size, r - 1)
    PROVE  FlattenSeq(f) = s
    <1>. DEFINE S == {s[i] : i \in 1 .. m}
    <1>0. s \in [1 .. world * size -> S]
        BY DEF HasLength
    <1>6. \A r \in 1 .. world : f[r] \in [1 .. size -> S]
        <2>. TAKE r \in 1 .. world
        <2>1. r - 1 \in 0 .. world - 1
            OBVIOUS
        <2>2. \A i \in 1 .. size : (r - 1) * size + i \in 1 .. m
            BY <2>1, PieceWithin
        <2>3. \A i \in 1 .. size : s[(r - 1) * size + i] \in S
            BY <2>2
        <2>. HIDE DEF S
        <2>. QED
            BY <2>3 DEF Piece
    <1>. HIDE DEF S
    <1>. DEFINE Upto(k) == [i \in 1 .. k * size |-> s[i]]
                C == {k \in 0 .. world : FlattenSeq(FirstOf(f, k)) = Upto(k)}
    <1>1. f \in [1 .. world -> Seq(S)]
        BY <1>6 DEF HasLength
    <1>2. 0 \in C
        <2>1. FlattenSeq(FirstOf(f, 0)) = << >>
            BY DEF FlattenSeq, FirstOf
        <2>2. 0 * size = 0
            BY TimesNat
        <2>3. [i \in 1 .. 0 |-> s[i]] = << >>
            OBVIOUS
        <2>4. Upto(0) = << >>
            BY <2>2, <2>3
        <2>5. 0 \in 0 .. world
            OBVIOUS
        <2>. HIDE DEF Upto
        <2>. QED
            BY <2>1, <2>4, <2>5
    <1>3. ASSUME NEW k \in 0 .. world - 1, k \in C
          PROVE  k + 1 \in C
        <2>1. /\ FirstOf(f, k + 1) \in [1 .. k + 1 -> Seq(S)]
              /\ FirstOf(FirstOf(f, k + 1), k) = FirstOf(f, k)
              /\ FirstOf(f, k + 1)[k + 1] = f[k + 1]
              /\ k \in Nat /\ k + 1 \in 1 .. world
            BY <1>1 DEF FirstOf
        <2>2. FlattenSeq(FirstOf(f, k + 1)) = FlattenSeq(FirstOf(f, k)) \o f[k + 1]
            BY <2>1, FlattenLast
        <2>. DEFINE a == k * size
                    b == world * size
        <2>3. a \in Nat /\ b \in Nat /\ (k + 1) * size = a + size /\ a + size <= b
            BY PieceWithin
        <2>4. f[k + 1] = [i \in 1 .. size |-> s[a + i]]
            <3>1. (k + 1) - 1 = k
                BY <2>1
            <3>. QED
                BY <2>1, <3>1 DEF Piece
        <2>5. FlattenSeq(FirstOf(f, k)) = [i \in 1 .. a |-> s[i]]
            BY <1>3
        <2>. DEFINE u == [i \in 1 .. a |-> s[i]]
                    v == [i \in 1 .. size |-> s[a + i]]
                    w == [i \in 1 .. a + size |-> s[i]]
        <2>6. u \o v = w
            <3>. HIDE DEF a, b
            <3>1. u \in Seq(S) /\ v \in Seq(S) /\ w \in Seq(S) /\ Len(u) = a /\ Len(v) = size /\ Len(w) = a + size
                BY <1>0, <2>3 DEF b
            <3>2. /\ u \o v \in Seq(S) /\ Len(u \o v) = Len(u) + Len(v)
                  /\ \A i \in 1 .. Len(u) + Len(v) :
                        (u \o v)[i] = IF i <= Len(u) THEN u[i] ELSE v[i - Len(u)]
                BY <3>1, ConcatProperties
            <3>3. \A i \in 1 .. a + size : w[i] = IF i <= a THEN u[i] ELSE v[i - a]
                BY <2>3
            <3>. HIDE DEF u, v, w
            <3>4. u \o v \in Seq(S) /\ Len(u \o v) = Len(w) /\ \A i \in 1 .. Len(w) : (u \o v)[i] = w[i]
                BY <3>1, <3>2, <3>3
            <3>. QED
                BY <3>1, <3>4, SeqEqual
        <2>7. FlattenSeq(FirstOf(f, k + 1)) = Upto(k + 1)
            BY <2>2, <2>3, <2>4, <2>5, <2>6
        <2>. QED
            BY <2>1, <2>7
    <1>4. \A k \in 0 .. world : k \in C
        <2>. HIDE DEF C
        <2>. QED
            BY <1>2, <1>3, InductionTo
    <1>5. FirstOf(f, world) = f
        BY DEF FirstOf, HasLength
    <1>7. Upto(world) = s
        BY DEF HasLength
    <1>8. world \in 0 .. world
        OBVIOUS
    <1>9. FlattenSeq(FirstOf(f, world)) = Upto(world)
        BY <1>4, <1>8
    <1>. HIDE DEF Upto
    <1>. QED
        BY <1>5, <1>7, <1>9

LEMMA NumInt == Num \subseteq Int
    BY DEF Num, P

\* Products of numbers are integers.
LEMMA NumTimes ==
    ASSUME NEW a \in Num, NEW b \in Num
    PROVE  a * b \in Int
    <1>1. a \in Int /\ b \in Int
        BY NumInt
    <1>. HIDE DEF Num
    <1>. QED
        BY <1>1

\* A slice of columns, row by row, and of rows.
LEMMA ColumnsAre ==
    ASSUME NEW world \in Nat \ {0}, NEW m \in Nat, m % world = 0, NEW t \in 0 .. world - 1,
           NEW rows \in Nat, NEW z \in Matrix(rows, m)
    PROVE  /\ Columns(z, world, t) \in Matrix(rows, m \div world)
           /\ \A n \in 1 .. rows : Columns(z, world, t)[n] = Piece(z[n], m \div world, t)
    <1>. DEFINE size == m \div world
    <1>1. DOMAIN z = 1 .. rows /\ \A n \in 1 .. rows : z[n] \in [1 .. m -> Num]
        BY DEF Matrix
    <1>2. \A i \in 1 .. size : t * size + i \in 1 .. m
        <2>1. Divides(m, world, t)
            BY Pieces
        <2>. QED
            BY <2>1 DEF Divides
    <1>3. ASSUME NEW n \in 1 .. rows
          PROVE  Chunk(z[n], world, t) = Piece(z[n], size, t) /\ Piece(z[n], size, t) \in [1 .. size -> Num]
        <2>. DEFINE s == z[n]
        <2>1. s \in [1 .. m -> Num]
            BY <1>1
        <2>. HIDE DEF s
        <2>4. HasLength(s, m)
            BY <2>1 DEF HasLength
        <2>2. Chunk(s, world, t) = Piece(s, size, t)
            BY <2>4, ChunkPiece
        <2>. HIDE DEF size
        <2>3. \A i \in 1 .. size : s[t * size + i] \in Num
            BY <1>2, <2>1
        <2>. QED
            BY <2>2, <2>3 DEF Piece, s
    <1>. HIDE DEF size
    <1>4. Columns(z, world, t) = [n \in 1 .. rows |-> Piece(z[n], size, t)]
        BY <1>1, <1>3 DEF Columns
    <1>5. Columns(z, world, t) \in Matrix(rows, size)
        BY <1>3, <1>4 DEF Matrix
    <1>. QED
        BY <1>4, <1>5 DEF size

LEMMA RowsAre ==
    ASSUME NEW world \in Nat \ {0}, NEW m \in Nat, m % world = 0, NEW t \in 0 .. world - 1,
           NEW k \in Nat, NEW w \in Matrix(m, k)
    PROVE  /\ Rows(w, world, t) \in Matrix(m \div world, k)
           /\ Rows(w, world, t) = Piece(w, m \div world, t)
    <1>. DEFINE V == [1 .. k -> Num]
                size == m \div world
    <1>1. w \in [1 .. m -> V]
        BY DEF Matrix
    <1>2. \A i \in 1 .. size : t * size + i \in 1 .. m
        <2>1. Divides(m, world, t)
            BY Pieces
        <2>. QED
            BY <2>1 DEF Divides
    <1>. HIDE DEF V
    <1>5. HasLength(w, m)
        BY <1>1 DEF HasLength
    <1>3. Chunk(w, world, t) = Piece(w, size, t)
        BY <1>5, ChunkPiece
    <1>. HIDE DEF size
    <1>4. Piece(w, size, t) \in [1 .. size -> V]
        BY <1>1, <1>2 DEF Piece
    <1>. QED
        BY <1>3, <1>4 DEF Rows, Matrix, V, size

\* The terms of one element of Linear(x, w).
Terms(x, w, k, n, o) == [i \in 1 .. k |-> x[n][i] * w[o][i]]

\* Rows of a matrix by columns of another's transpose.
LEMMA LinearType ==
    ASSUME NEW rows \in Nat, NEW k \in Nat, NEW outs \in Nat,
           NEW x \in Matrix(rows, k), NEW w \in Matrix(outs, k)
    PROVE  /\ Linear(x, w) \in Matrix(rows, outs)
           /\ \A n \in 1 .. rows : \A o \in 1 .. outs :
                 Linear(x, w)[n][o] = TotalOn(Terms(x, w, k, n, o), 1 .. k)
    <1>1. /\ DOMAIN x = 1 .. rows /\ DOMAIN w = 1 .. outs
          /\ \A n \in 1 .. rows : \A i \in 1 .. k : x[n][i] \in Num
          /\ \A o \in 1 .. outs : DOMAIN w[o] = 1 .. k /\ \A i \in 1 .. k : w[o][i] \in Num
        BY DEF Matrix
    <1>2. ASSUME NEW n \in 1 .. rows, NEW o \in 1 .. outs
          PROVE  /\ Linear(x, w)[n][o] = TotalOn(Terms(x, w, k, n, o), 1 .. k)
                 /\ Linear(x, w)[n][o] \in Num
        <2>. DEFINE f == [i \in 1 .. k |-> x[n][i] * w[o][i]]
        <2>1. Linear(x, w)[n][o] = Total(f)
            BY <1>1 DEF Linear
        <2>2. f = [i \in 1 .. k |-> f[i]]
            OBVIOUS
        <2>3. \A i \in 1 .. k : f[i] \in Int
            BY <1>1, NumTimes
        <2>4. IsFiniteSet(1 .. k)
            BY FS_Interval
        <2>. HIDE DEF f
        <2>5. Total(f) = TotalOn(f, 1 .. k)
            BY <2>2, TotalAll
        <2>6. TotalOn(f, 1 .. k) \in Num
            BY <2>3, <2>4, TotalType
        <2>. QED
            BY <2>1, <2>5, <2>6 DEF f, Terms
    <1>3. Linear(x, w) = [n \in 1 .. rows |-> [o \in 1 .. outs |-> Linear(x, w)[n][o]]]
        BY <1>1 DEF Linear
    <1>. DEFINE l == Linear(x, w)
    <1>4. \A n \in 1 .. rows : \A o \in 1 .. outs : l[n][o] \in Num
        BY <1>2
    <1>5. l = [n \in 1 .. rows |-> [o \in 1 .. outs |-> l[n][o]]]
        BY <1>3
    <1>. HIDE DEF l
    <1>6. l \in Matrix(rows, outs)
        BY <1>4, <1>5 DEF Matrix
    <1>. QED
        BY <1>2, <1>6 DEF l

\* Two matrices with the same elements.
LEMMA SameMatrix ==
    ASSUME NEW rows \in Nat, NEW k \in Nat, NEW x \in Matrix(rows, k), NEW y \in Matrix(rows, k),
           \A n \in 1 .. rows : \A i \in 1 .. k : x[n][i] = y[n][i]
    PROVE  x = y
    <1>1. ASSUME NEW n \in 1 .. rows
          PROVE  x[n] = y[n]
        <2>1. x[n] \in [1 .. k -> Num] /\ y[n] \in [1 .. k -> Num]
            BY DEF Matrix
        <2>. QED
            BY <2>1
    <1>. QED
        BY <1>1 DEF Matrix

\* The code behaviour: a column-parallel layer computes, from the rows of the
\* weight a rank holds, its slice of the features the whole layer computes.
THEOREM ColumnParallelSlices ==
    ASSUME NEW world \in Nat \ {0}, NEW m \in Nat, m % world = 0, NEW t \in 0 .. world - 1,
           NEW rows \in Nat, NEW k \in Nat, NEW x \in Matrix(rows, k), NEW w \in Matrix(m, k)
    PROVE  Linear(x, Rows(w, world, t)) = Columns(Linear(x, w), world, t)
    <1>. DEFINE size == m \div world
                v == Rows(w, world, t)
                y == Linear(x, v)
                z == Linear(x, w)
                c == Columns(z, world, t)
    <1>1. size \in Nat /\ \A o \in 1 .. size : t * size + o \in 1 .. m
        <2>1. Divides(m, world, t)
            BY Pieces
        <2>. QED
            BY <2>1 DEF Divides
    <1>2. v = Piece(w, size, t) /\ v \in Matrix(size, k)
        BY RowsAre
    <1>3. /\ z \in Matrix(rows, m)
          /\ \A n \in 1 .. rows : \A o \in 1 .. m : z[n][o] = TotalOn(Terms(x, w, k, n, o), 1 .. k)
        BY LinearType
    <1>4. /\ c \in Matrix(rows, size)
          /\ \A n \in 1 .. rows : c[n] = Piece(z[n], size, t)
        <2>1. z \in Matrix(rows, m)
            BY <1>3
        <2>. HIDE DEF z
        <2>. QED
            BY <2>1, ColumnsAre
    <1>. HIDE DEF size
    <1>5. /\ y \in Matrix(rows, size)
          /\ \A n \in 1 .. rows : \A o \in 1 .. size : y[n][o] = TotalOn(Terms(x, v, k, n, o), 1 .. k)
        <2>1. v \in Matrix(size, k)
            BY <1>2
        <2>. HIDE DEF v
        <2>. QED
            BY <1>1, <2>1, LinearType
    <1>6. ASSUME NEW n \in 1 .. rows, NEW o \in 1 .. size
          PROVE  y[n][o] = c[n][o]
        <2>. DEFINE j == t * size + o
        <2>1. j \in 1 .. m
            BY <1>1
        <2>2. c[n][o] = z[n][j]
            <3>1. c[n] = Piece(z[n], size, t)
                BY <1>4
            <3>. HIDE DEF c, z
            <3>. QED
                BY <3>1 DEF Piece
        <2>3. v[o] = w[j]
            BY <1>2 DEF Piece
        <2>. HIDE DEF y, z, c, j, v
        <2>4. Terms(x, v, k, n, o) = Terms(x, w, k, n, j)
            BY <2>3 DEF Terms
        <2>5. y[n][o] = TotalOn(Terms(x, v, k, n, o), 1 .. k)
            BY <1>5
        <2>6. z[n][j] = TotalOn(Terms(x, w, k, n, j), 1 .. k)
            BY <1>3, <2>1
        <2>. QED
            BY <2>2, <2>4, <2>5, <2>6
    <1>7. y = c
        <2>. HIDE DEF y, c
        <2>. QED
            BY <1>1, <1>4, <1>5, <1>6, SameMatrix
    <1>. QED
        BY <1>7

\* The code behaviour: gathering along the last dimension undoes scattering.
THEOREM GatherUndoesScatter ==
    ASSUME NEW world \in Nat \ {0}, NEW m \in Nat, m % world = 0,
           NEW rows \in Nat, NEW z \in Matrix(rows, m)
    PROVE  Concat([t \in 0 .. world - 1 |-> Columns(z, world, t)], world) = z
    <1>. DEFINE size == m \div world
                parts == [t \in 0 .. world - 1 |-> Columns(z, world, t)]
                RowOf(n) == [r \in 1 .. world |-> parts[r - 1][n]]
    <1>1. size \in Nat /\ m = world * size
        <2>1. Divides(m, world, 0)
            BY Pieces
        <2>. QED
            BY <2>1 DEF Divides
    <1>2. ASSUME NEW t \in 0 .. world - 1
          PROVE  /\ parts[t] \in Matrix(rows, size)
                 /\ \A n \in 1 .. rows : parts[t][n] = Piece(z[n], size, t)
        <2>1. parts[t] = Columns(z, world, t)
            OBVIOUS
        <2>2. /\ Columns(z, world, t) \in Matrix(rows, size)
              /\ \A n \in 1 .. rows : Columns(z, world, t)[n] = Piece(z[n], size, t)
            BY ColumnsAre
        <2>. HIDE DEF parts, size
        <2>. QED
            BY <2>1, <2>2
    <1>3. z \in [1 .. rows -> [1 .. m -> Num]]
        BY DEF Matrix
    <1>. HIDE DEF size
    <1>4. DOMAIN parts[0] = 1 .. rows
        <2>1. 0 \in 0 .. world - 1
            OBVIOUS
        <2>. HIDE DEF parts
        <2>. QED
            BY <1>2, <2>1 DEF Matrix
    <1>5. ASSUME NEW n \in 1 .. rows
          PROVE  FlattenSeq(RowOf(n)) = z[n]
        <2>. DEFINE s == z[n]
                    f == RowOf(n)
        <2>1. s \in [1 .. m -> Num]
            BY <1>3
        <2>2. ASSUME NEW r \in 1 .. world
              PROVE  f[r] = Piece(s, size, r - 1) /\ f[r] \in [1 .. size -> Num]
            <3>1. f[r] = parts[r - 1][n] /\ r - 1 \in 0 .. world - 1
                OBVIOUS
            <3>. HIDE DEF parts
            <3>2. parts[r - 1][n] = Piece(z[n], size, r - 1)
                BY <1>2, <3>1
            <3>3. parts[r - 1][n] \in [1 .. size -> Num]
                BY <1>2, <3>1 DEF Matrix
            <3>. HIDE DEF f
            <3>. QED
                BY <3>1, <3>2, <3>3
        <2>3. f \in [1 .. world -> [1 .. size -> Num]]
            <3>1. f = [r \in 1 .. world |-> f[r]]
                OBVIOUS
            <3>. HIDE DEF f
            <3>. QED
                BY <2>2, <3>1
        <2>4. \A r \in 1 .. world : f[r] = Piece(s, size, r - 1)
            BY <2>2
        <2>5. world \in Nat
            OBVIOUS
        <2>. HIDE DEF s, f
        <2>7. HasLength(s, m) /\ HasLength(f, world)
            BY <2>1, <2>3 DEF HasLength
        <2>6. FlattenSeq(f) = s
            BY <1>1, <2>4, <2>5, <2>7, FlattenPieces
        <2>. QED
            BY <2>6 DEF s, f
    <1>6. Concat(parts, world) = [n \in 1 .. rows |-> FlattenSeq(RowOf(n))]
        <2>. HIDE DEF parts
        <2>. QED
            BY <1>4 DEF Concat
    <1>7. Concat(parts, world) = [n \in 1 .. rows |-> z[n]]
        <2>. HIDE DEF parts
        <2>. QED
            BY <1>5, <1>6
    <1>. QED
        BY <1>3, <1>7

\* The code behaviour: with gather_output, the outputs a column-parallel layer
\* gathers are those of the whole layer.
THEOREM ColumnParallelGathers ==
    ASSUME NEW world \in Nat \ {0}, NEW m \in Nat, m % world = 0,
           NEW rows \in Nat, NEW k \in Nat, NEW x \in Matrix(rows, k), NEW w \in Matrix(m, k)
    PROVE  Concat([t \in 0 .. world - 1 |-> Linear(x, Rows(w, world, t))], world) = Linear(x, w)
    <1>. DEFINE z == Linear(x, w)
    <1>1. z \in Matrix(rows, m)
        BY LinearType
    <1>2. \A t \in 0 .. world - 1 : Linear(x, Rows(w, world, t)) = Columns(z, world, t)
        BY ColumnParallelSlices
    <1>. HIDE DEF z
    <1>3. [t \in 0 .. world - 1 |-> Linear(x, Rows(w, world, t))]
              = [t \in 0 .. world - 1 |-> Columns(z, world, t)]
        BY <1>2
    <1>4. Concat([t \in 0 .. world - 1 |-> Columns(z, world, t)], world) = z
        BY <1>1, GatherUndoesScatter
    <1>. QED
        BY <1>3, <1>4 DEF z

\* The values at one place, rank by rank.
AtEach(ts, world, n, i) == [t \in 0 .. world - 1 |-> ts[t][n][i]]

\* Matrices that add up to y.
AddUp(ts, y, world, rows, k) ==
    /\ ts \in [0 .. world - 1 -> Matrix(rows, k)]
    /\ y \in Matrix(rows, k)
    /\ \A n \in 1 .. rows : \A i \in 1 .. k :
          TotalOn(AtEach(ts, world, n, i), 0 .. world - 1) = y[n][i]

\* A sum over ranks, element by element.
LEMMA SumOverAre ==
    ASSUME NEW world \in Nat \ {0}, NEW rows \in Nat, NEW k \in Nat,
           NEW ts, NEW y, AddUp(ts, y, world, rows, k)
    PROVE  SumOver(ts) = y
    <1>. DEFINE R == 0 .. world - 1
                one == ts[CHOOSE r \in DOMAIN ts : TRUE]
    <1>1. /\ ts \in [R -> Matrix(rows, k)] /\ y \in Matrix(rows, k)
          /\ \A n \in 1 .. rows : \A i \in 1 .. k : TotalOn(AtEach(ts, world, n, i), R) = y[n][i]
        BY DEF AddUp
    <1>2. DOMAIN ts = R /\ 0 \in R
        BY <1>1
    <1>3. \A n, i : AtEach(ts, world, n, i) = [r \in R |-> ts[r][n][i]]
        BY DEF AtEach
    <1>. HIDE DEF R
    <1>4. one \in Matrix(rows, k)
        BY <1>1, <1>2
    <1>5. SumOver(ts) = [n \in DOMAIN one |-> [i \in DOMAIN one[n] |-> Total([r \in R |-> ts[r][n][i]])]]
        BY <1>2 DEF SumOver
    <1>. HIDE DEF one
    <1>6. DOMAIN one = 1 .. rows /\ \A n \in 1 .. rows : DOMAIN one[n] = 1 .. k
        BY <1>4 DEF Matrix
    <1>7. ASSUME NEW n \in 1 .. rows, NEW i \in 1 .. k
          PROVE  Total([r \in R |-> ts[r][n][i]]) = y[n][i]
        <2>. DEFINE f == AtEach(ts, world, n, i)
        <2>1. f = [r \in R |-> ts[r][n][i]]
            BY <1>3
        <2>2. f = [r \in R |-> f[r]]
            BY <2>1
        <2>3. TotalOn(f, R) = y[n][i]
            BY <1>1
        <2>. HIDE DEF f
        <2>4. Total(f) = TotalOn(f, R)
            BY <2>2, TotalAll
        <2>. QED
            BY <2>1, <2>3, <2>4
    <1>8. SumOver(ts) = [n \in 1 .. rows |-> [i \in 1 .. k |-> y[n][i]]]
        <2>1. SumOver(ts) = [n \in 1 .. rows |-> [i \in 1 .. k |-> Total([r \in R |-> ts[r][n][i]])]]
            BY <1>5, <1>6
        <2>. QED
            BY <1>7, <2>1
    <1>9. y = [n \in 1 .. rows |-> [i \in 1 .. k |-> y[n][i]]]
        BY <1>1 DEF Matrix
    <1>. QED
        BY <1>8, <1>9

\* Values summed piece by piece.
ByPiece(f, g, m, world) ==
    /\ \A i \in 1 .. m : f[i] \in Int
    /\ \A t \in 0 .. world - 1 :
          g[t] = TotalOn(Piece(f, m \div world, t), 1 .. m \div world)

LEMMA TotalPieces ==
    ASSUME NEW world \in Nat \ {0}, NEW m \in Nat, m % world = 0,
           NEW f, NEW g, ByPiece(f, g, m, world)
    PROVE  TotalOn(g, 0 .. world - 1) = TotalOn(f, 1 .. m)
    <1>. DEFINE size == m \div world
    <1>1. size \in Nat /\ m = world * size
        <2>1. 0 \in 0 .. world - 1
            OBVIOUS
        <2>2. Divides(m, world, 0)
            BY <2>1, Pieces
        <2>. QED
            BY <2>2 DEF Divides
    <1>2. /\ \A i \in 1 .. m : f[i] \in Int
          /\ \A t \in 0 .. world - 1 : g[t] = TotalOn(Piece(f, size, t), 1 .. size)
        BY DEF ByPiece
    <1>. HIDE DEF size
    <1>3. \A i \in 1 .. world * size : f[i] \in Int
        BY <1>1, <1>2
    <1>4. \A t \in 0 .. world - 1 : g[t] = TotalOn([i \in 1 .. size |-> f[t * size + i]], 1 .. size)
        BY <1>2 DEF Piece
    <1>6. InBlocks(f, g, world, size)
        BY <1>3, <1>4 DEF InBlocks
    <1>5. TotalOn(g, 0 .. world - 1) = TotalOn(f, 1 .. world * size)
        BY <1>1, <1>6, TotalBlocks
    <1>. QED
        BY <1>1, <1>5

\* The code behaviour: the partial products a row-parallel layer adds up over
\* its group, of each rank's slice of the features and of the weight, are those
\* of the whole layer.
THEOREM RowParallelAddsUp ==
    ASSUME NEW world \in Nat \ {0}, NEW m \in Nat, m % world = 0, NEW rows \in Nat, NEW outs \in Nat,
           NEW x \in Matrix(rows, m), NEW w \in Matrix(outs, m)
    PROVE  SumOver([t \in 0 .. world - 1 |-> Linear(Columns(x, world, t), Columns(w, world, t))])
               = Linear(x, w)
    <1>. DEFINE size == m \div world
                Mine(t) == Linear(Columns(x, world, t), Columns(w, world, t))
                ts == [t \in 0 .. world - 1 |-> Mine(t)]
                y == Linear(x, w)
    <1>1. /\ y \in Matrix(rows, outs)
          /\ \A n \in 1 .. rows : \A o \in 1 .. outs : y[n][o] = TotalOn(Terms(x, w, m, n, o), 1 .. m)
        BY LinearType
    <1>2. ASSUME NEW t \in 0 .. world - 1
          PROVE  /\ Mine(t) \in Matrix(rows, outs)
                 /\ \A n \in 1 .. rows : \A o \in 1 .. outs :
                       Mine(t)[n][o] = TotalOn(Piece(Terms(x, w, m, n, o), size, t), 1 .. size)
        <2>. DEFINE u == Columns(x, world, t)
                    v == Columns(w, world, t)
        <2>1. u \in Matrix(rows, size) /\ \A n \in 1 .. rows : u[n] = Piece(x[n], size, t)
            BY ColumnsAre
        <2>2. v \in Matrix(outs, size) /\ \A o \in 1 .. outs : v[o] = Piece(w[o], size, t)
            BY ColumnsAre
        <2>3. size \in Nat /\ \A i \in 1 .. size : t * size + i \in 1 .. m
            <3>1. Divides(m, world, t)
                BY Pieces
            <3>. QED
                BY <3>1 DEF Divides
        <2>. HIDE DEF u, v, size
        <2>4. Linear(u, v) \in Matrix(rows, outs)
            BY <2>1, <2>2, <2>3, LinearType
        <2>5. \A n \in 1 .. rows : \A o \in 1 .. outs :
                  Linear(u, v)[n][o] = TotalOn(Terms(u, v, size, n, o), 1 .. size)
            BY <2>1, <2>2, <2>3, LinearType
        <2>6. ASSUME NEW n \in 1 .. rows, NEW o \in 1 .. outs
              PROVE  Terms(u, v, size, n, o) = Piece(Terms(x, w, m, n, o), size, t)
            <3>1. u[n] = Piece(x[n], size, t) /\ v[o] = Piece(w[o], size, t)
                BY <2>1, <2>2
            <3>2. \A i \in 1 .. size : u[n][i] = x[n][t * size + i] /\ v[o][i] = w[o][t * size + i]
                BY <3>1 DEF Piece
            <3>. QED
                BY <2>3, <3>2 DEF Terms, Piece
        <2>. QED
            BY <2>4, <2>5, <2>6 DEF u, v
    <1>3. ASSUME NEW n \in 1 .. rows, NEW o \in 1 .. outs
          PROVE  TotalOn(AtEach(ts, world, n, o), 0 .. world - 1) = y[n][o]
        <2>. DEFINE f == Terms(x, w, m, n, o)
                    g == AtEach(ts, world, n, o)
        <2>1. \A i \in 1 .. m : f[i] \in Int
            BY NumTimes DEF Terms, Matrix
        <2>2. \A t \in 0 .. world - 1 : g[t] = Mine(t)[n][o]
            BY DEF AtEach
        <2>. HIDE DEF Mine, g
        <2>3. \A t \in 0 .. world - 1 : g[t] = TotalOn(Piece(f, size, t), 1 .. size)
            BY <1>2, <2>2
        <2>. HIDE DEF f
        <2>4. ByPiece(f, g, m, world)
            BY <2>1, <2>3 DEF ByPiece
        <2>5. TotalOn(g, 0 .. world - 1) = TotalOn(f, 1 .. m)
            BY <2>4, TotalPieces
        <2>. QED
            BY <1>1, <2>5 DEF f, g
    <1>4. AddUp(ts, y, world, rows, outs)
        <2>1. ts \in [0 .. world - 1 -> Matrix(rows, outs)]
            <3>. HIDE DEF Mine
            <3>. QED
                BY <1>2
        <2>. HIDE DEF ts, y
        <2>. QED
            BY <1>1, <1>3, <2>1 DEF AddUp
    <1>. HIDE DEF ts, y
    <1>5. SumOver(ts) = y
        BY <1>4, SumOverAre
    <1>. QED
        BY <1>5 DEF ts, y

\* Applying a function to every element.
Applied(a, z) == [n \in DOMAIN z |-> [i \in DOMAIN z[n] |-> a[z[n][i]]]]

LEMMA AppliedType ==
    ASSUME NEW rows \in Nat, NEW k \in Nat, NEW z \in Matrix(rows, k), NEW a \in [Num -> Num]
    PROVE  /\ Applied(a, z) \in Matrix(rows, k)
           /\ \A n \in 1 .. rows : \A i \in 1 .. k : Applied(a, z)[n][i] = a[z[n][i]]
    BY DEF Applied, Matrix

\* A function of one element commutes with slicing.
LEMMA AppliedSlices ==
    ASSUME NEW world \in Nat \ {0}, NEW m \in Nat, m % world = 0, NEW t \in 0 .. world - 1,
           NEW rows \in Nat, NEW z \in Matrix(rows, m), NEW a \in [Num -> Num]
    PROVE  /\ Applied(a, z) \in Matrix(rows, m)
           /\ Applied(a, Columns(z, world, t)) = Columns(Applied(a, z), world, t)
    <1>. DEFINE size == m \div world
                u == Applied(a, z)
                c == Columns(z, world, t)
                d == Columns(u, world, t)
                e == Applied(a, c)
    <1>1. u \in Matrix(rows, m) /\ \A n \in 1 .. rows : \A i \in 1 .. m : u[n][i] = a[z[n][i]]
        BY AppliedType
    <1>2. c \in Matrix(rows, size) /\ \A n \in 1 .. rows : c[n] = Piece(z[n], size, t)
        BY ColumnsAre
    <1>3. d \in Matrix(rows, size) /\ \A n \in 1 .. rows : d[n] = Piece(u[n], size, t)
        <2>. HIDE DEF u
        <2>. QED
            BY <1>1, ColumnsAre
    <1>4. size \in Nat /\ \A i \in 1 .. size : t * size + i \in 1 .. m
        <2>1. Divides(m, world, t)
            BY Pieces
        <2>. QED
            BY <2>1 DEF Divides
    <1>. HIDE DEF size
    <1>5. e \in Matrix(rows, size) /\ \A n \in 1 .. rows : \A i \in 1 .. size : e[n][i] = a[c[n][i]]
        <2>1. c \in Matrix(rows, size)
            BY <1>2
        <2>. HIDE DEF c
        <2>. QED
            BY <1>4, <2>1, AppliedType
    <1>. HIDE DEF u, c, d, e
    <1>6. ASSUME NEW n \in 1 .. rows, NEW i \in 1 .. size
          PROVE  e[n][i] = d[n][i]
        <2>. DEFINE j == t * size + i
        <2>1. j \in 1 .. m
            BY <1>4
        <2>2. c[n] = Piece(z[n], size, t) /\ d[n] = Piece(u[n], size, t)
            BY <1>2, <1>3
        <2>3. c[n][i] = z[n][j] /\ d[n][i] = u[n][j]
            BY <2>2 DEF Piece
        <2>. HIDE DEF j
        <2>. QED
            BY <1>1, <1>5, <2>1, <2>3
    <1>7. e = d
        BY <1>3, <1>4, <1>5, <1>6, SameMatrix
    <1>. QED
        BY <1>1, <1>7 DEF u, c, d, e

\* The code behaviour: a column-parallel layer, an activation of every rank's
\* own features and a row-parallel layer, the MLP without gather_output,
\* compute with one sum over the group what the two whole layers compute.
THEOREM ParallelPair ==
    ASSUME NEW world \in Nat \ {0}, NEW m \in Nat, m % world = 0,
           NEW rows \in Nat, NEW k \in Nat, NEW outs \in Nat, NEW act \in [Num -> Num],
           NEW x \in Matrix(rows, k), NEW w \in Matrix(m, k), NEW v \in Matrix(outs, m)
    PROVE  SumOver([t \in 0 .. world - 1 |->
                       Linear(Applied(act, Linear(x, Rows(w, world, t))), Columns(v, world, t))])
               = Linear(Applied(act, Linear(x, w)), v)
    <1>. DEFINE z == Linear(x, w)
                u == Applied(act, z)
    <1>1. z \in Matrix(rows, m)
        BY LinearType
    <1>2. \A t \in 0 .. world - 1 : Linear(x, Rows(w, world, t)) = Columns(z, world, t)
        BY ColumnParallelSlices
    <1>3. u \in Matrix(rows, m)
        <2>1. 0 \in 0 .. world - 1
            OBVIOUS
        <2>. HIDE DEF z
        <2>. QED
            BY <1>1, <2>1, AppliedSlices
    <1>4. \A t \in 0 .. world - 1 : Applied(act, Columns(z, world, t)) = Columns(u, world, t)
        <2>. HIDE DEF z
        <2>. QED
            BY <1>1, AppliedSlices
    <1>. HIDE DEF z, u
    <1>5. [t \in 0 .. world - 1 |->
               Linear(Applied(act, Linear(x, Rows(w, world, t))), Columns(v, world, t))]
              = [t \in 0 .. world - 1 |-> Linear(Columns(u, world, t), Columns(v, world, t))]
        BY <1>2, <1>4
    <1>6. SumOver([t \in 0 .. world - 1 |-> Linear(Columns(u, world, t), Columns(v, world, t))])
              = Linear(u, v)
        BY <1>3, RowParallelAddsUp
    <1>. QED
        BY <1>5, <1>6 DEF z, u

-----------------------------------------------------------------------------
(* Backward. *)

\* The terms of one element of a gradient for the input, and for the weight.
InputTerms(g, w, m, n, i) == [o \in 1 .. m |-> g[n][o] * w[o][i]]
WeightTerms(g, x, rows, o, i) == [n \in 1 .. rows |-> g[n][o] * x[n][i]]

LEMMA InputGradType ==
    ASSUME NEW rows \in Nat, NEW m \in Nat \ {0}, NEW k \in Nat,
           NEW g \in Matrix(rows, m), NEW w \in Matrix(m, k)
    PROVE  /\ LinearInputGrad(g, w) \in Matrix(rows, k)
           /\ \A n \in 1 .. rows : \A i \in 1 .. k :
                 LinearInputGrad(g, w)[n][i] = TotalOn(InputTerms(g, w, m, n, i), 1 .. m)
    <1>. DEFINE l == LinearInputGrad(g, w)
    <1>1. /\ DOMAIN g = 1 .. rows /\ DOMAIN w = 1 .. m
          /\ \A n \in 1 .. rows : \A o \in 1 .. m : g[n][o] \in Num
          /\ \A o \in 1 .. m : \A i \in 1 .. k : w[o][i] \in Num
        BY DEF Matrix
    <1>2. Width(w) = k
        <2>1. w[1] \in [1 .. k -> Num]
            BY DEF Matrix
        <2>2. Len(w[1]) = k
            BY <2>1
        <2>. QED
            BY <2>2 DEF Width
    <1>3. l = [n \in 1 .. rows |-> [i \in 1 .. k |-> Total(InputTerms(g, w, m, n, i))]]
        BY <1>1, <1>2 DEF LinearInputGrad, InputTerms
    <1>4. ASSUME NEW n \in 1 .. rows, NEW i \in 1 .. k
          PROVE  /\ Total(InputTerms(g, w, m, n, i)) = TotalOn(InputTerms(g, w, m, n, i), 1 .. m)
                 /\ Total(InputTerms(g, w, m, n, i)) \in Num
        <2>. DEFINE f == InputTerms(g, w, m, n, i)
        <2>1. f = [o \in 1 .. m |-> f[o]]
            BY DEF InputTerms
        <2>2. \A o \in 1 .. m : f[o] \in Int
            BY <1>1, NumTimes DEF InputTerms
        <2>3. IsFiniteSet(1 .. m)
            BY FS_Interval
        <2>. HIDE DEF f
        <2>4. Total(f) = TotalOn(f, 1 .. m)
            BY <2>1, TotalAll
        <2>5. TotalOn(f, 1 .. m) \in Num
            BY <2>2, <2>3, TotalType
        <2>. QED
            BY <2>4, <2>5 DEF f
    <1>5. l \in Matrix(rows, k)
        BY <1>3, <1>4 DEF Matrix
    <1>. QED
        BY <1>3, <1>4, <1>5

LEMMA WeightGradType ==
    ASSUME NEW rows \in Nat \ {0}, NEW m \in Nat, NEW k \in Nat,
           NEW g \in Matrix(rows, m), NEW x \in Matrix(rows, k)
    PROVE  /\ LinearWeightGrad(g, x) \in Matrix(m, k)
           /\ \A o \in 1 .. m : \A i \in 1 .. k :
                 LinearWeightGrad(g, x)[o][i] = TotalOn(WeightTerms(g, x, rows, o, i), 1 .. rows)
    <1>. DEFINE l == LinearWeightGrad(g, x)
    <1>1. /\ DOMAIN g = 1 .. rows
          /\ \A n \in 1 .. rows : \A o \in 1 .. m : g[n][o] \in Num
          /\ \A n \in 1 .. rows : \A i \in 1 .. k : x[n][i] \in Num
        BY DEF Matrix
    <1>2. Width(g) = m /\ Width(x) = k
        <2>1. g[1] \in [1 .. m -> Num] /\ x[1] \in [1 .. k -> Num]
            BY DEF Matrix
        <2>2. Len(g[1]) = m /\ Len(x[1]) = k
            BY <2>1
        <2>. QED
            BY <2>2 DEF Width
    <1>3. l = [o \in 1 .. m |-> [i \in 1 .. k |-> Total(WeightTerms(g, x, rows, o, i))]]
        BY <1>1, <1>2 DEF LinearWeightGrad, WeightTerms
    <1>4. ASSUME NEW o \in 1 .. m, NEW i \in 1 .. k
          PROVE  /\ Total(WeightTerms(g, x, rows, o, i)) = TotalOn(WeightTerms(g, x, rows, o, i), 1 .. rows)
                 /\ Total(WeightTerms(g, x, rows, o, i)) \in Num
        <2>. DEFINE f == WeightTerms(g, x, rows, o, i)
        <2>1. f = [n \in 1 .. rows |-> f[n]]
            BY DEF WeightTerms
        <2>2. \A n \in 1 .. rows : f[n] \in Int
            BY <1>1, NumTimes DEF WeightTerms
        <2>3. IsFiniteSet(1 .. rows)
            BY FS_Interval
        <2>. HIDE DEF f
        <2>4. Total(f) = TotalOn(f, 1 .. rows)
            BY <2>1, TotalAll
        <2>5. TotalOn(f, 1 .. rows) \in Num
            BY <2>2, <2>3, TotalType
        <2>. QED
            BY <2>4, <2>5 DEF f
    <1>5. l \in Matrix(m, k)
        BY <1>3, <1>4 DEF Matrix
    <1>. QED
        BY <1>3, <1>4, <1>5

\* The code behaviour: the partial gradients for the input of a column-parallel
\* layer, each rank's from its slice of the gradient and its rows of the
\* weight, add up to that of the whole layer: what the identity in forward
\* adds up in backward.
THEOREM ColumnParallelInputGrad ==
    ASSUME NEW world \in Nat \ {0}, NEW m \in Nat \ {0}, m % world = 0, NEW rows \in Nat, NEW k \in Nat,
           NEW g \in Matrix(rows, m), NEW w \in Matrix(m, k)
    PROVE  SumOver([t \in 0 .. world - 1 |->
                       LinearInputGrad(Columns(g, world, t), Rows(w, world, t))])
               = LinearInputGrad(g, w)
    <1>. DEFINE size == m \div world
                Mine(t) == LinearInputGrad(Columns(g, world, t), Rows(w, world, t))
                ts == [t \in 0 .. world - 1 |-> Mine(t)]
                y == LinearInputGrad(g, w)
    <1>1. y \in Matrix(rows, k)
        BY InputGradType
    <1>2. \A n \in 1 .. rows : \A i \in 1 .. k : y[n][i] = TotalOn(InputTerms(g, w, m, n, i), 1 .. m)
        BY InputGradType
    <1>3. ASSUME NEW t \in 0 .. world - 1
          PROVE  /\ Mine(t) \in Matrix(rows, k)
                 /\ \A n \in 1 .. rows : \A i \in 1 .. k :
                       Mine(t)[n][i] = TotalOn(Piece(InputTerms(g, w, m, n, i), size, t), 1 .. size)
        <2>. DEFINE u == Columns(g, world, t)
                    v == Rows(w, world, t)
        <2>1. u \in Matrix(rows, size) /\ \A n \in 1 .. rows : u[n] = Piece(g[n], size, t)
            BY ColumnsAre
        <2>2. v \in Matrix(size, k) /\ v = Piece(w, size, t)
            BY RowsAre
        <2>3. /\ size \in Nat /\ m = world * size
              /\ \A o \in 1 .. size : t * size + o \in 1 .. m
            <3>1. Divides(m, world, t)
                BY Pieces
            <3>. QED
                BY <3>1 DEF Divides
        <2>. HIDE DEF u, v, size
        <2>4. size # 0
            BY <2>3, SMT
        <2>5. LinearInputGrad(u, v) \in Matrix(rows, k)
            BY <2>1, <2>2, <2>3, <2>4, InputGradType
        <2>6. \A n \in 1 .. rows : \A i \in 1 .. k :
                  LinearInputGrad(u, v)[n][i] = TotalOn(InputTerms(u, v, size, n, i), 1 .. size)
            BY <2>1, <2>2, <2>3, <2>4, InputGradType
        <2>7. ASSUME NEW n \in 1 .. rows, NEW i \in 1 .. k
              PROVE  InputTerms(u, v, size, n, i) = Piece(InputTerms(g, w, m, n, i), size, t)
            <3>1. u[n] = Piece(g[n], size, t) /\ v = Piece(w, size, t)
                BY <2>1, <2>2
            <3>2. \A o \in 1 .. size : u[n][o] = g[n][t * size + o] /\ v[o] = w[t * size + o]
                BY <3>1 DEF Piece
            <3>. QED
                BY <2>3, <3>2 DEF InputTerms, Piece
        <2>. QED
            BY <2>5, <2>6, <2>7 DEF u, v
    <1>4. ASSUME NEW n \in 1 .. rows, NEW i \in 1 .. k
          PROVE  TotalOn(AtEach(ts, world, n, i), 0 .. world - 1) = y[n][i]
        <2>. DEFINE f == InputTerms(g, w, m, n, i)
                    h == AtEach(ts, world, n, i)
        <2>1. \A o \in 1 .. m : f[o] \in Int
            BY NumTimes DEF InputTerms, Matrix
        <2>2. \A t \in 0 .. world - 1 : h[t] = Mine(t)[n][i]
            BY DEF AtEach
        <2>. HIDE DEF Mine, h
        <2>3. \A t \in 0 .. world - 1 : h[t] = TotalOn(Piece(f, size, t), 1 .. size)
            BY <1>3, <2>2
        <2>. HIDE DEF f
        <2>4. ByPiece(f, h, m, world)
            BY <2>1, <2>3 DEF ByPiece
        <2>5. TotalOn(h, 0 .. world - 1) = TotalOn(f, 1 .. m)
            BY <2>4, TotalPieces
        <2>. QED
            BY <1>2, <2>5 DEF f, h
    <1>5. AddUp(ts, y, world, rows, k)
        <2>1. ts \in [0 .. world - 1 -> Matrix(rows, k)]
            <3>. HIDE DEF Mine
            <3>. QED
                BY <1>3
        <2>. HIDE DEF ts, y
        <2>. QED
            BY <1>1, <1>4, <2>1 DEF AddUp
    <1>. HIDE DEF ts, y
    <1>6. SumOver(ts) = y
        BY <1>5, SumOverAre
    <1>. QED
        BY <1>6 DEF ts, y

\* The code behaviour: a rank of a row-parallel layer computes, from the whole
\* gradient and its columns of the weight, its slice of the gradient for the
\* input of the whole layer.
THEOREM RowParallelInputGrad ==
    ASSUME NEW world \in Nat \ {0}, NEW m \in Nat, m % world = 0, NEW t \in 0 .. world - 1,
           NEW rows \in Nat, NEW outs \in Nat \ {0},
           NEW g \in Matrix(rows, outs), NEW w \in Matrix(outs, m)
    PROVE  LinearInputGrad(g, Columns(w, world, t)) = Columns(LinearInputGrad(g, w), world, t)
    <1>. DEFINE size == m \div world
                v == Columns(w, world, t)
                y == LinearInputGrad(g, v)
                z == LinearInputGrad(g, w)
                c == Columns(z, world, t)
    <1>1. size \in Nat /\ \A i \in 1 .. size : t * size + i \in 1 .. m
        <2>1. Divides(m, world, t)
            BY Pieces
        <2>. QED
            BY <2>1 DEF Divides
    <1>2. v \in Matrix(outs, size) /\ \A o \in 1 .. outs : v[o] = Piece(w[o], size, t)
        BY ColumnsAre
    <1>3. z \in Matrix(rows, m)
        BY InputGradType
    <1>4. \A n \in 1 .. rows : \A i \in 1 .. m : z[n][i] = TotalOn(InputTerms(g, w, outs, n, i), 1 .. outs)
        BY InputGradType
    <1>5. c \in Matrix(rows, size) /\ \A n \in 1 .. rows : c[n] = Piece(z[n], size, t)
        <2>. HIDE DEF z
        <2>. QED
            BY <1>3, ColumnsAre
    <1>. HIDE DEF size, v
    <1>6. y \in Matrix(rows, size)
        BY <1>1, <1>2, InputGradType
    <1>7. \A n \in 1 .. rows : \A i \in 1 .. size : y[n][i] = TotalOn(InputTerms(g, v, outs, n, i), 1 .. outs)
        BY <1>1, <1>2, InputGradType
    <1>. HIDE DEF y, z, c
    <1>8. ASSUME NEW n \in 1 .. rows, NEW i \in 1 .. size
          PROVE  y[n][i] = c[n][i]
        <2>. DEFINE j == t * size + i
        <2>1. j \in 1 .. m
            BY <1>1
        <2>2. c[n] = Piece(z[n], size, t)
            BY <1>5
        <2>3. c[n][i] = z[n][j]
            BY <2>2 DEF Piece
        <2>4. \A o \in 1 .. outs : v[o][i] = w[o][j]
            <3>. TAKE o \in 1 .. outs
            <3>. DEFINE p == w[o]
            <3>1. v[o] = Piece(p, size, t)
                BY <1>2
            <3>. HIDE DEF p
            <3>2. Piece(p, size, t)[i] = p[j]
                BY DEF Piece
            <3>. QED
                BY <3>1, <3>2 DEF p
        <2>. HIDE DEF j
        <2>5. InputTerms(g, v, outs, n, i) = InputTerms(g, w, outs, n, j)
            BY <2>4 DEF InputTerms
        <2>6. y[n][i] = TotalOn(InputTerms(g, v, outs, n, i), 1 .. outs)
            BY <1>7
        <2>7. z[n][j] = TotalOn(InputTerms(g, w, outs, n, j), 1 .. outs)
            BY <1>4, <2>1
        <2>. QED
            BY <2>3, <2>5, <2>6, <2>7
    <1>9. y = c
        BY <1>1, <1>5, <1>6, <1>8, SameMatrix
    <1>. QED
        BY <1>9 DEF y, z, c, v

\* The code behaviour: the gradient of a column-parallel layer's weight on a
\* rank is its rows of that of the whole weight.
THEOREM ColumnParallelWeightGrad ==
    ASSUME NEW world \in Nat \ {0}, NEW m \in Nat, m % world = 0, NEW t \in 0 .. world - 1,
           NEW rows \in Nat \ {0}, NEW k \in Nat, NEW g \in Matrix(rows, m), NEW x \in Matrix(rows, k)
    PROVE  LinearWeightGrad(Columns(g, world, t), x) = Rows(LinearWeightGrad(g, x), world, t)
    <1>. DEFINE size == m \div world
                v == Columns(g, world, t)
                y == LinearWeightGrad(v, x)
                z == LinearWeightGrad(g, x)
                c == Rows(z, world, t)
    <1>1. size \in Nat /\ \A o \in 1 .. size : t * size + o \in 1 .. m
        <2>1. Divides(m, world, t)
            BY Pieces
        <2>. QED
            BY <2>1 DEF Divides
    <1>2. v \in Matrix(rows, size) /\ \A n \in 1 .. rows : v[n] = Piece(g[n], size, t)
        BY ColumnsAre
    <1>3. z \in Matrix(m, k)
        BY WeightGradType
    <1>4. \A o \in 1 .. m : \A i \in 1 .. k : z[o][i] = TotalOn(WeightTerms(g, x, rows, o, i), 1 .. rows)
        BY WeightGradType
    <1>5. c \in Matrix(size, k) /\ c = Piece(z, size, t)
        <2>. HIDE DEF z
        <2>. QED
            BY <1>3, RowsAre
    <1>. HIDE DEF size, v
    <1>6. y \in Matrix(size, k)
        BY <1>1, <1>2, WeightGradType
    <1>7. \A o \in 1 .. size : \A i \in 1 .. k : y[o][i] = TotalOn(WeightTerms(v, x, rows, o, i), 1 .. rows)
        BY <1>1, <1>2, WeightGradType
    <1>. HIDE DEF y, z, c
    <1>8. ASSUME NEW o \in 1 .. size, NEW i \in 1 .. k
          PROVE  y[o][i] = c[o][i]
        <2>. DEFINE j == t * size + o
        <2>1. j \in 1 .. m
            BY <1>1
        <2>2. c[o] = z[j]
            BY <1>5 DEF Piece
        <2>3. \A n \in 1 .. rows : v[n][o] = g[n][j]
            <3>. TAKE n \in 1 .. rows
            <3>. DEFINE p == g[n]
            <3>1. v[n] = Piece(p, size, t)
                BY <1>2
            <3>. HIDE DEF p
            <3>2. Piece(p, size, t)[o] = p[j]
                BY DEF Piece
            <3>. QED
                BY <3>1, <3>2 DEF p
        <2>. HIDE DEF j
        <2>4. WeightTerms(v, x, rows, o, i) = WeightTerms(g, x, rows, j, i)
            BY <2>3 DEF WeightTerms
        <2>5. y[o][i] = TotalOn(WeightTerms(v, x, rows, o, i), 1 .. rows)
            BY <1>7
        <2>6. z[j][i] = TotalOn(WeightTerms(g, x, rows, j, i), 1 .. rows)
            BY <1>4, <2>1
        <2>. QED
            BY <2>2, <2>4, <2>5, <2>6
    <1>9. y = c
        BY <1>1, <1>5, <1>6, <1>8, SameMatrix
    <1>. QED
        BY <1>9 DEF y, z, c, v

\* The code behaviour: the gradient of a row-parallel layer's weight on a rank
\* is its columns of that of the whole weight.
THEOREM RowParallelWeightGrad ==
    ASSUME NEW world \in Nat \ {0}, NEW m \in Nat, m % world = 0, NEW t \in 0 .. world - 1,
           NEW rows \in Nat \ {0}, NEW outs \in Nat, NEW g \in Matrix(rows, outs), NEW x \in Matrix(rows, m)
    PROVE  LinearWeightGrad(g, Columns(x, world, t)) = Columns(LinearWeightGrad(g, x), world, t)
    <1>. DEFINE size == m \div world
                v == Columns(x, world, t)
                y == LinearWeightGrad(g, v)
                z == LinearWeightGrad(g, x)
                c == Columns(z, world, t)
    <1>1. size \in Nat /\ \A i \in 1 .. size : t * size + i \in 1 .. m
        <2>1. Divides(m, world, t)
            BY Pieces
        <2>. QED
            BY <2>1 DEF Divides
    <1>2. v \in Matrix(rows, size) /\ \A n \in 1 .. rows : v[n] = Piece(x[n], size, t)
        BY ColumnsAre
    <1>3. z \in Matrix(outs, m)
        BY WeightGradType
    <1>4. \A o \in 1 .. outs : \A i \in 1 .. m : z[o][i] = TotalOn(WeightTerms(g, x, rows, o, i), 1 .. rows)
        BY WeightGradType
    <1>5. c \in Matrix(outs, size) /\ \A o \in 1 .. outs : c[o] = Piece(z[o], size, t)
        <2>. HIDE DEF z
        <2>. QED
            BY <1>3, ColumnsAre
    <1>. HIDE DEF size, v
    <1>6. y \in Matrix(outs, size)
        BY <1>1, <1>2, WeightGradType
    <1>7. \A o \in 1 .. outs : \A i \in 1 .. size : y[o][i] = TotalOn(WeightTerms(g, v, rows, o, i), 1 .. rows)
        BY <1>1, <1>2, WeightGradType
    <1>. HIDE DEF y, z, c
    <1>8. ASSUME NEW o \in 1 .. outs, NEW i \in 1 .. size
          PROVE  y[o][i] = c[o][i]
        <2>. DEFINE j == t * size + i
        <2>1. j \in 1 .. m
            BY <1>1
        <2>2. c[o] = Piece(z[o], size, t)
            BY <1>5
        <2>3. c[o][i] = z[o][j]
            BY <2>2 DEF Piece
        <2>4. \A n \in 1 .. rows : v[n][i] = x[n][j]
            <3>. TAKE n \in 1 .. rows
            <3>. DEFINE p == x[n]
            <3>1. v[n] = Piece(p, size, t)
                BY <1>2
            <3>. HIDE DEF p
            <3>2. Piece(p, size, t)[i] = p[j]
                BY DEF Piece
            <3>. QED
                BY <3>1, <3>2 DEF p
        <2>. HIDE DEF j
        <2>5. WeightTerms(g, v, rows, o, i) = WeightTerms(g, x, rows, o, j)
            BY <2>4 DEF WeightTerms
        <2>6. y[o][i] = TotalOn(WeightTerms(g, v, rows, o, i), 1 .. rows)
            BY <1>7
        <2>7. z[o][j] = TotalOn(WeightTerms(g, x, rows, o, j), 1 .. rows)
            BY <1>4, <2>1
        <2>. QED
            BY <2>3, <2>5, <2>6, <2>7
    <1>9. y = c
        BY <1>1, <1>5, <1>6, <1>8, SameMatrix
    <1>. QED
        BY <1>9 DEF y, z, c, v

-----------------------------------------------------------------------------
(* Shards of padded flat parameters. *)

\* The code behaviour: FSDP pads a unit to a multiple of the group's size, by
\* less than one element for every rank.
THEOREM PaddingSmall ==
    ASSUME NEW total \in Nat, NEW world \in Nat \ {0}
    PROVE  /\ PaddedNumel(total, world) \in Nat
           /\ total <= PaddedNumel(total, world)
           /\ PaddedNumel(total, world) < total + world
    <1>. DEFINE up == total + world - 1
                q == up \div world
    <1>1. up \in Nat
        OBVIOUS
    <1>. HIDE DEF up
    <1>2. q \in Nat /\ up % world \in 0 .. world - 1 /\ up = world * q + (up % world)
        BY <1>1, Division
    <1>3. PaddedNumel(total, world) = q * world
        BY DEF PaddedNumel, ShardNumel, up
    <1>. HIDE DEF q
    <1>4. world * q \in Nat /\ q * world = world * q
        BY <1>2, SMT
    <1>5. up = total + world - 1
        BY DEF up
    <1>. QED
        BY <1>1, <1>2, <1>3, <1>4, <1>5

\* The code behaviour: the shards of a padded unit are all of shard_numel
\* elements, and every element of it is at one place of one rank's shard.
THEOREM ShardsTile ==
    ASSUME NEW total \in Nat \ {0}, NEW world \in Nat \ {0},
           NEW S, NEW flat \in Seq(S), Len(flat) = PaddedNumel(total, world)
    PROVE  /\ \A rank \in 0 .. world - 1 :
                 Len(ShardOf(flat, world, rank)) = ShardNumel(total, world)
           /\ \A i \in 0 .. Len(flat) - 1 :
                 LET rank == i \div ShardNumel(total, world)
                     k == i % ShardNumel(total, world)
                 IN  /\ rank \in 0 .. world - 1
                     /\ ShardOf(flat, world, rank)[k + 1] = flat[i + 1]
    <1>. DEFINE n == ShardNumel(total, world)
    <1>1. n \in Nat /\ Len(flat) = n * world /\ total <= n * world /\ n * world \in Nat
        <2>1. total + world - 1 \in Nat
            OBVIOUS
        <2>2. (total + world - 1) \div world \in Nat
            BY <2>1, Division
        <2>. QED
            BY <2>2, PaddingSmall DEF ShardNumel, PaddedNumel
    <1>. HIDE DEF n
    <1>2. n \in Nat \ {0}
        <2>1. 0 * world = 0
            BY SMT
        <2>. QED
            BY <1>1, <2>1
    <1>3. Len(flat) \div world = n
        <2>1. world * n + 0 = n * world
            BY <1>1, SMT
        <2>2. (world * n + 0) \div world = n
            BY <1>1, SMT
        <2>. QED
            BY <1>1, <2>1, <2>2
    <1>4. ASSUME NEW rank \in 0 .. world - 1
          PROVE  /\ rank * n \in Nat /\ (rank + 1) * n = rank * n + n
                 /\ rank * n + n <= Len(flat)
        <2>1. n * (rank + 1) <= n * world
            BY <1>1, MulOrder
        <2>2. n * (rank + 1) = rank * n + n /\ (rank + 1) * n = rank * n + n /\ rank * n \in Nat
            BY <1>1, SMT
        <2>. QED
            BY <1>1, <2>1, <2>2
    <1>5. ASSUME NEW rank \in 0 .. world - 1
          PROVE  /\ Len(ShardOf(flat, world, rank)) = n
                 /\ \A k \in 0 .. n - 1 : ShardOf(flat, world, rank)[k + 1] = flat[rank * n + k + 1]
        <2>. DEFINE first == rank * n
        <2>1. first \in Nat /\ first + n <= Len(flat)
            BY <1>4
        <2>2. ShardOf(flat, world, rank) = SubSeq(flat, first + 1, first + n)
            BY <1>3, <1>4 DEF ShardOf
        <2>. HIDE DEF first
        <2>3. /\ Len(SubSeq(flat, first + 1, first + n)) = n
              /\ \A k \in 1 .. n : SubSeq(flat, first + 1, first + n)[k] = flat[first + k]
            <3>. DEFINE lo == first + 1
                        hi == first + n
            <3>1. /\ lo \in Int /\ hi \in Int /\ hi - lo + 1 = n
                  /\ n > 0 => lo <= hi
                  /\ n = 0 => hi < lo
                  /\ n \in Nat
                BY <1>2, <2>1
            <3>2. \A i \in lo .. hi : flat[i] \in S
                <4>1. \A i \in lo .. hi : i \in 1 .. Len(flat)
                    BY <1>2, <2>1
                <4>. QED
                    BY <4>1, ElementOfSeq
            <3>3. \A k \in 1 .. n : lo + k - 1 = first + k
                BY <1>2, <2>1
            <3>. HIDE DEF lo, hi
            <3>4. /\ Len(SubSeq(flat, lo, hi)) = IF lo <= hi THEN hi - lo + 1 ELSE 0
                  /\ \A i \in 1 .. hi - lo + 1 : SubSeq(flat, lo, hi)[i] = flat[lo + i - 1]
                BY <3>1, <3>2, SubSeqProperties
            <3>5. Len(SubSeq(flat, lo, hi)) = n
                BY <3>1, <3>4
            <3>6. \A k \in 1 .. n : SubSeq(flat, lo, hi)[k] = flat[first + k]
                BY <3>1, <3>3, <3>4
            <3>. QED
                BY <3>5, <3>6 DEF lo, hi
        <2>4. ASSUME NEW k \in 0 .. n - 1
              PROVE  ShardOf(flat, world, rank)[k + 1] = flat[first + k + 1]
            <3>1. k + 1 \in 1 .. n /\ first + (k + 1) = first + k + 1
                BY <1>2, <2>1
            <3>2. SubSeq(flat, first + 1, first + n)[k + 1] = flat[first + (k + 1)]
                BY <2>3, <3>1
            <3>. QED
                BY <2>2, <3>1, <3>2
        <2>5. Len(ShardOf(flat, world, rank)) = n
            BY <2>2, <2>3
        <2>. QED
            BY <2>4, <2>5 DEF first
    <1>6. ASSUME NEW i \in 0 .. Len(flat) - 1
          PROVE  /\ i \div n \in 0 .. world - 1
                 /\ ShardOf(flat, world, i \div n)[(i % n) + 1] = flat[i + 1]
        <2>. DEFINE rank == i \div n
                    k == i % n
        <2>1. rank \in Nat /\ k \in 0 .. n - 1 /\ i = n * rank + k
            <3>1. i \in Nat
                OBVIOUS
            <3>. QED
                BY <1>2, <3>1, Division
        <2>. HIDE DEF rank, k
        <2>2. rank < world
            <3>1. SUFFICES ASSUME world <= rank PROVE FALSE
                BY <2>1
            <3>2. n * world <= n * rank
                BY <1>1, <2>1, <3>1, MulOrder
            <3>. QED
                BY <1>1, <1>2, <2>1, <3>2
        <2>3. rank * n = n * rank /\ rank * n \in Nat
            BY <1>1, <2>1, SMT
        <2>4. rank \in 0 .. world - 1
            BY <2>1, <2>2
        <2>5. ShardOf(flat, world, rank)[k + 1] = flat[rank * n + k + 1]
            BY <1>5, <2>1, <2>4
        <2>6. rank * n + k + 1 = i + 1
            BY <2>1, <2>3
        <2>7. ShardOf(flat, world, rank)[k + 1] = flat[i + 1]
            BY <2>5, <2>6
        <2>. QED
            BY <2>4, <2>7 DEF rank, k
    <1>. QED
        BY <1>5, <1>6 DEF n

-----------------------------------------------------------------------------
(* How the devices of a mesh hold the activations of a batch. *)

\* The device of a data-parallel rank and a tensor-parallel rank.
MeshAt(r, t) == <<"mesh", r, t>>

\* A row for every token of the batch.
Tokens(c, k) == Matrix(c.dp * SeqLen, k)

\* How the devices of the mesh hold a matrix z of all the tokens: every rank of
\* a tensor group whole rows, or a slice of the columns, or a partial sum.
WholeIn(c, v, z, k) ==
    /\ z \in Tokens(c, k)
    /\ \A r \in 0 .. c.dp - 1 : \A t \in 0 .. c.tp - 1 :
          v[MeshAt(r, t)] = RowsOfReplica(z, r)
SliceIn(c, v, z, k) ==
    /\ k % c.tp = 0
    /\ z \in Tokens(c, k)
    /\ \A r \in 0 .. c.dp - 1 : \A t \in 0 .. c.tp - 1 :
          v[MeshAt(r, t)] = Columns(RowsOfReplica(z, r), c.tp, t)
PartsOf(c, v, r) == [t \in 0 .. c.tp - 1 |-> v[MeshAt(r, t)]]
PartialIn(c, v, z, k) ==
    /\ z \in Tokens(c, k)
    /\ \A r \in 0 .. c.dp - 1 :
          /\ PartsOf(c, v, r) \in [0 .. c.tp - 1 -> Matrix(SeqLen, k)]
          /\ SumOver(PartsOf(c, v, r)) = RowsOfReplica(z, r)

\* A mesh's ranks.
LEMMA ConfigIs ==
    ASSUME NEW c \in Configs
    PROVE  /\ c.dp \in Nat \ {0} /\ c.tp \in Nat \ {0} /\ SeqLen \in Nat \ {0}
           /\ c.dp * SeqLen \in Nat \ {0} /\ (c.dp * SeqLen) % c.dp = 0
           /\ (c.dp * SeqLen) \div c.dp = SeqLen
    <1>1. c.dp \in Nat \ {0} /\ c.tp \in Nat \ {0} /\ SeqLen \in Nat \ {0}
        BY ConfigsAssumption, SizesAssumption
    <1>. DEFINE a == c.dp
                b == SeqLen
    <1>2. a \in Nat \ {0} /\ b \in Nat \ {0}
        BY <1>1
    <1>. HIDE DEF a, b
    <1>3. a * b \in Nat /\ a * b # 0
        BY <1>2, SMT
    <1>4. (a * b + 0) \div a = b /\ (a * b + 0) % a = 0
        <2>1. 0 \in 0 .. a - 1
            BY <1>2
        <2>. QED
            BY <1>2, <2>1, DivUnique
    <1>5. a * b + 0 = a * b
        BY <1>3
    <1>. QED
        BY <1>1, <1>3, <1>4, <1>5 DEF a, b

\* The rows of a replica.
LEMMA ReplicaIs ==
    ASSUME NEW c \in Configs, NEW k \in Nat, NEW z \in Tokens(c, k), NEW r \in 0 .. c.dp - 1
    PROVE  /\ RowsOfReplica(z, r) \in Matrix(SeqLen, k)
           /\ RowsOfReplica(z, r) = Piece(z, SeqLen, r)
    <1>. DEFINE world == c.dp
                m == world * SeqLen
    <1>1. world \in Nat \ {0} /\ m \in Nat /\ m % world = 0 /\ m \div world = SeqLen /\ SeqLen \in Nat
        BY ConfigIs
    <1>2. z \in Matrix(m, k)
        BY DEF Tokens
    <1>. DEFINE p == Rows(z, world, r)
    <1>3. p \in Matrix(SeqLen, k) /\ p = Piece(z, SeqLen, r)
        <2>1. p \in Matrix(m \div world, k) /\ p = Piece(z, m \div world, r)
            <3>. HIDE DEF m
            <3>. QED
                BY <1>1, <1>2, RowsAre
        <2>. QED
            BY <1>1, <2>1
    <1>4. p = RowsOfReplica(z, r)
        <2>1. Len(z) = m
            <3>. HIDE DEF m
            <3>. QED
                BY <1>1, <1>2 DEF Matrix
        <2>7. r \in 0 .. world - 1
            OBVIOUS
        <2>. HIDE DEF world
        <2>2. r \in Nat /\ r + 1 <= world
            BY <1>1, <2>7
        <2>3. (r + 1) * SeqLen <= m
            BY <1>1, <2>2, TimesOrder
        <2>4. (r + 1) * SeqLen \in Nat
            BY <1>1, <2>2, TimesNat
        <2>. DEFINE e == (r + 1) * SeqLen
        <2>. HIDE DEF m, e
        <2>5. (IF e < m THEN e ELSE m) = e
            BY <1>1, <2>3, <2>4 DEF e
        <2>6. ChunkSize(Len(z), world) = SeqLen
            <3>1. (world * SeqLen + (world - 1)) \div world = SeqLen
                <4>1. world - 1 \in 0 .. world - 1
                    BY <1>1
                <4>. QED
                    BY <1>1, <4>1, DivUnique
            <3>2. m + world - 1 = m + (world - 1)
                BY <1>1
            <3>. QED
                BY <2>1, <3>1, <3>2 DEF ChunkSize, m
        <2>. QED
            BY <2>1, <2>5, <2>6 DEF Rows, Chunk, RowsOfReplica, e
    <1>. QED
        BY <1>3, <1>4

\* The places of a replica's rows.
LEMMA ReplicaRow ==
    ASSUME NEW c \in Configs, NEW r \in 0 .. c.dp - 1
    PROVE  \A n \in 1 .. SeqLen : r * SeqLen + n \in 1 .. c.dp * SeqLen
    <1>. DEFINE world == c.dp
                m == world * SeqLen
    <1>1. world \in Nat \ {0} /\ m \in Nat \ {0} /\ m % world = 0 /\ m \div world = SeqLen
        BY ConfigIs
    <1>2. Divides(m, world, r)
        <2>1. r \in 0 .. world - 1
            OBVIOUS
        <2>. HIDE DEF m, world
        <2>. QED
            BY <1>1, <2>1, Pieces
    <1>. QED
        BY <1>1, <1>2 DEF Divides

\* A matrix of as many rows as there are tokens, of known rows.
LEMMA ReplicaSame ==
    ASSUME NEW c \in Configs, NEW k \in Nat, NEW z \in Tokens(c, k), NEW r \in 0 .. c.dp - 1,
           NEW x \in Matrix(SeqLen, k), \A n \in 1 .. SeqLen : x[n] = z[r * SeqLen + n]
    PROVE  RowsOfReplica(z, r) = x
    <1>. DEFINE y == RowsOfReplica(z, r)
    <1>1. y \in Matrix(SeqLen, k) /\ y = Piece(z, SeqLen, r)
        BY ReplicaIs
    <1>2. \A n \in 1 .. SeqLen : y[n] = x[n]
        BY <1>1 DEF Piece
    <1>. HIDE DEF y
    <1>3. y = [n \in 1 .. SeqLen |-> y[n]] /\ x = [n \in 1 .. SeqLen |-> x[n]]
        BY <1>1 DEF Matrix
    <1>4. y = x
        BY <1>2, <1>3
    <1>. QED
        BY <1>4 DEF y

\* Linear works row by row.
LEMMA ReplicaLinear ==
    ASSUME NEW c \in Configs, NEW k \in Nat, NEW z \in Tokens(c, k), NEW r \in 0 .. c.dp - 1,
           NEW outs \in Nat, NEW w \in Matrix(outs, k)
    PROVE  /\ Linear(z, w) \in Tokens(c, outs)
           /\ RowsOfReplica(Linear(z, w), r) = Linear(RowsOfReplica(z, r), w)
    <1>. DEFINE m == c.dp * SeqLen
                x == RowsOfReplica(z, r)
                y == Linear(z, w)
                u == Linear(x, w)
    <1>1. m \in Nat /\ SeqLen \in Nat
        BY ConfigIs
    <1>2. x \in Matrix(SeqLen, k) /\ x = Piece(z, SeqLen, r)
        BY ReplicaIs
    <1>3. \A n \in 1 .. SeqLen : r * SeqLen + n \in 1 .. m
        BY ReplicaRow
    <1>4. y \in Matrix(m, outs)
        <2>1. z \in Matrix(m, k)
            BY DEF Tokens
        <2>. HIDE DEF m
        <2>. QED
            BY <1>1, <2>1, LinearType
    <1>5. \A n \in 1 .. m : \A o \in 1 .. outs : y[n][o] = TotalOn(Terms(z, w, k, n, o), 1 .. k)
        <2>1. z \in Matrix(m, k)
            BY DEF Tokens
        <2>. HIDE DEF m
        <2>. QED
            BY <1>1, <2>1, LinearType
    <1>. HIDE DEF x
    <1>6. u \in Matrix(SeqLen, outs)
        BY <1>1, <1>2, LinearType
    <1>7. \A n \in 1 .. SeqLen : \A o \in 1 .. outs : u[n][o] = TotalOn(Terms(x, w, k, n, o), 1 .. k)
        BY <1>1, <1>2, LinearType
    <1>. HIDE DEF y, u, m
    <1>8. ASSUME NEW n \in 1 .. SeqLen
          PROVE  u[n] = y[r * SeqLen + n]
        <2>. DEFINE j == r * SeqLen + n
        <2>1. j \in 1 .. m
            BY <1>3
        <2>2. x[n] = z[j]
            BY <1>2 DEF Piece
        <2>. HIDE DEF j
        <2>3. \A o \in 1 .. outs : Terms(x, w, k, n, o) = Terms(z, w, k, j, o)
            BY <2>2 DEF Terms
        <2>4. \A o \in 1 .. outs : u[n][o] = y[j][o]
            BY <1>5, <1>7, <2>1, <2>3
        <2>5. u[n] \in [1 .. outs -> Num] /\ y[j] \in [1 .. outs -> Num]
            BY <1>4, <1>6, <2>1 DEF Matrix
        <2>6. u[n] = y[j]
            BY <2>4, <2>5
        <2>. QED
            BY <2>6 DEF j
    <1>9. y \in Tokens(c, outs)
        BY <1>4 DEF Tokens, m
    <1>10. RowsOfReplica(y, r) = u
        BY <1>6, <1>8, <1>9, ReplicaSame
    <1>. QED
        BY <1>9, <1>10 DEF y, u, x

\* The code behaviour: a column-parallel layer takes whole rows and leaves
\* every rank its slice of the features.
LEMMA ColumnLayer ==
    ASSUME NEW c \in Configs, NEW v, NEW k \in Nat, NEW z, WholeIn(c, v, z, k),
           NEW m \in Nat, m % c.tp = 0, NEW w \in Matrix(m, k), NEW u,
           \A r \in 0 .. c.dp - 1 : \A t \in 0 .. c.tp - 1 :
               u[MeshAt(r, t)] = Linear(v[MeshAt(r, t)], Rows(w, c.tp, t))
    PROVE  SliceIn(c, u, Linear(z, w), m)
    <1>. DEFINE y == Linear(z, w)
                tp == c.tp
    <1>1. z \in Tokens(c, k) /\ tp \in Nat \ {0} /\ 0 \in 0 .. c.dp - 1
        BY ConfigIs DEF WholeIn
    <1>2. y \in Tokens(c, m)
        BY <1>1, ReplicaLinear
    <1>3. ASSUME NEW r \in 0 .. c.dp - 1, NEW t \in 0 .. c.tp - 1
          PROVE  u[MeshAt(r, t)] = Columns(RowsOfReplica(y, r), tp, t)
        <2>. DEFINE x == RowsOfReplica(z, r)
        <2>1. v[MeshAt(r, t)] = x
            BY DEF WholeIn
        <2>2. x \in Matrix(SeqLen, k) /\ SeqLen \in Nat
            BY <1>1, ReplicaIs, ConfigIs
        <2>3. RowsOfReplica(y, r) = Linear(x, w)
            BY <1>1, ReplicaLinear
        <2>4. t \in 0 .. tp - 1 /\ m % tp = 0
            OBVIOUS
        <2>5. u[MeshAt(r, t)] = Linear(x, Rows(w, tp, t))
            BY <2>1
        <2>. HIDE DEF x, y, tp
        <2>6. Linear(x, Rows(w, tp, t)) = Columns(Linear(x, w), tp, t)
            BY <1>1, <2>2, <2>4, ColumnParallelSlices
        <2>. QED
            BY <2>3, <2>5, <2>6
    <1>. QED
        BY <1>2, <1>3 DEF SliceIn

\* The code behaviour: a row-parallel layer takes slices of the features and
\* leaves every rank a partial sum.
LEMMA RowLayer ==
    ASSUME NEW c \in Configs, NEW v, NEW m \in Nat, NEW z, SliceIn(c, v, z, m),
           NEW outs \in Nat, NEW w \in Matrix(outs, m), NEW u,
           \A r \in 0 .. c.dp - 1 : \A t \in 0 .. c.tp - 1 :
               u[MeshAt(r, t)] = Linear(v[MeshAt(r, t)], Columns(w, c.tp, t))
    PROVE  PartialIn(c, u, Linear(z, w), outs)
    <1>. DEFINE y == Linear(z, w)
                tp == c.tp
    <1>1. z \in Tokens(c, m) /\ tp \in Nat \ {0} /\ 0 \in 0 .. c.dp - 1 /\ m % tp = 0 /\ SeqLen \in Nat
        BY ConfigIs DEF SliceIn
    <1>2. y \in Tokens(c, outs)
        BY <1>1, ReplicaLinear
    <1>3. ASSUME NEW r \in 0 .. c.dp - 1
          PROVE  /\ PartsOf(c, u, r) \in [0 .. c.tp - 1 -> Matrix(SeqLen, outs)]
                 /\ SumOver(PartsOf(c, u, r)) = RowsOfReplica(y, r)
        <2>. DEFINE x == RowsOfReplica(z, r)
        <2>1. x \in Matrix(SeqLen, m)
            BY <1>1, ReplicaIs
        <2>2. RowsOfReplica(y, r) = Linear(x, w)
            BY <1>1, ReplicaLinear
        <2>3. \A t \in 0 .. c.tp - 1 : u[MeshAt(r, t)] = Linear(Columns(x, tp, t), Columns(w, tp, t))
            BY DEF SliceIn
        <2>4. PartsOf(c, u, r) = [t \in 0 .. tp - 1 |-> Linear(Columns(x, tp, t), Columns(w, tp, t))]
            BY <2>3 DEF PartsOf
        <2>. HIDE DEF x, y
        <2>5. ASSUME NEW t \in 0 .. tp - 1
              PROVE  Linear(Columns(x, tp, t), Columns(w, tp, t)) \in Matrix(SeqLen, outs)
            <3>. DEFINE size == m \div tp
                        a == Columns(x, tp, t)
                        b == Columns(w, tp, t)
            <3>. HIDE DEF tp
            <3>1. a \in Matrix(SeqLen, size) /\ b \in Matrix(outs, size)
                BY <1>1, <2>1, ColumnsAre
            <3>2. size \in Nat
                <4>1. Divides(m, tp, t)
                    BY <1>1, Pieces
                <4>. QED
                    BY <4>1 DEF Divides
            <3>. HIDE DEF size, a, b
            <3>3. Linear(a, b) \in Matrix(SeqLen, outs)
                BY <1>1, <3>1, <3>2, LinearType
            <3>. QED
                BY <3>3 DEF a, b
        <2>6. SumOver([t \in 0 .. tp - 1 |-> Linear(Columns(x, tp, t), Columns(w, tp, t))]) = Linear(x, w)
            <3>. HIDE DEF tp
            <3>. QED
                BY <1>1, <2>1, RowParallelAddsUp
        <2>. QED
            BY <2>2, <2>4, <2>5, <2>6
    <1>. QED
        BY <1>2, <1>3 DEF PartialIn

\* What does not change while the model runs: the mesh, the batch and the
\* weights, of which each device has its slices.
Loaded ==
    /\ config \in Configs
    /\ batch \in [0 .. config.dp - 1 -> Samples]
    /\ weight = [d \in Devices |-> [p \in Params |->
                    ShardOfWeight(p, FullWeight[p], World(d), Rank(d))]]

\* The devices of the mesh.
LEMMA MeshIs ==
    ASSUME NEW r \in DpRanks, NEW t \in TpRanks
    PROVE  /\ MeshAt(r, t) \in Devices /\ MeshAt(r, t) # Single
           /\ MeshAt(r, t)[2] = r
           /\ World(MeshAt(r, t)) = config.tp /\ Rank(MeshAt(r, t)) = t
    <1>1. "mesh" # "single"
        OBVIOUS
    <1>2. MeshAt(r, t) # Single
        BY <1>1 DEF MeshAt, Single
    <1>. QED
        BY <1>2 DEF MeshAt, Single, Devices, MeshDevices, World, Rank

LEMMA MeshOnly ==
    ASSUME NEW d \in MeshDevices
    PROVE  d[2] \in DpRanks /\ d[3] \in TpRanks /\ d = MeshAt(d[2], d[3])
    BY DEF MeshDevices, MeshAt

LEMMA GroupIs ==
    ASSUME NEW r \in DpRanks, NEW t \in TpRanks, NEW f
    PROVE  OfGroup(f, MeshAt(r, t)) = PartsOf(config, f, r)
    <1>1. World(MeshAt(r, t)) = config.tp
        BY MeshIs
    <1>2. \A s : TpPeer(MeshAt(r, t), s) = MeshAt(r, s)
        BY DEF TpPeer, MeshAt
    <1>. QED
        BY <1>1, <1>2 DEF OfGroup, PartsOf

LEMMA SingleIs ==
    /\ Single \in Devices /\ World(Single) = 1 /\ Rank(Single) = 0
    /\ TpPeer(Single, 0) = Single
    BY DEF Single, Devices, World, Rank, TpPeer

\* A group of one holds what there is.
LEMMA RowsOfOne ==
    ASSUME NEW m \in Nat, NEW k \in Nat, NEW w \in Matrix(m, k)
    PROVE  Rows(w, 1, 0) = w
    <1>1. m \div 1 = m /\ m % 1 = 0 /\ 0 \in 0 .. 1 - 1 /\ 1 \in Nat \ {0}
        BY SMT
    <1>2. Rows(w, 1, 0) = Piece(w, m \div 1, 0)
        BY <1>1, RowsAre
    <1>3. Rows(w, 1, 0) = [i \in 1 .. m |-> w[0 * m + i]]
        BY <1>1, <1>2 DEF Piece
    <1>4. \A i \in 1 .. m : 0 * m + i = i
        BY SMT
    <1>5. w = [i \in 1 .. m |-> w[i]]
        BY DEF Matrix
    <1>. QED
        BY <1>3, <1>4, <1>5

LEMMA ColumnsOfOne ==
    ASSUME NEW m \in Nat, NEW k \in Nat, NEW w \in Matrix(m, k)
    PROVE  Columns(w, 1, 0) = w
    <1>1. k \div 1 = k /\ k % 1 = 0 /\ 0 \in 0 .. 1 - 1 /\ 1 \in Nat \ {0}
        BY SMT
    <1>. DEFINE c == Columns(w, 1, 0)
    <1>2. c \in Matrix(m, k \div 1) /\ \A n \in 1 .. m : c[n] = Piece(w[n], k \div 1, 0)
        BY <1>1, ColumnsAre
    <1>. HIDE DEF c
    <1>3. ASSUME NEW n \in 1 .. m
          PROVE  c[n] = w[n]
        <2>1. c[n] = [i \in 1 .. k |-> w[n][0 * k + i]]
            BY <1>1, <1>2 DEF Piece
        <2>2. \A i \in 1 .. k : 0 * k + i = i
            BY SMT
        <2>3. w[n] \in [1 .. k -> Num]
            BY DEF Matrix
        <2>. QED
            BY <2>1, <2>2, <2>3
    <1>4. c = [n \in 1 .. m |-> c[n]] /\ w = [n \in 1 .. m |-> w[n]]
        BY <1>2 DEF Matrix
    <1>5. c = w
        BY <1>3, <1>4
    <1>. QED
        BY <1>5 DEF c

\* The shapes of the weights.
LEMMA Shapes ==
    /\ FullWeight["wte"] \in Matrix(Vocab, Embd) /\ FullWeight["wpe"] \in Matrix(SeqLen, Embd)
    /\ FullWeight["qkv"] \in Matrix(3 * Embd, Embd) /\ FullWeight["qkv_bias"] \in Matrix(3 * Embd, 1)
    /\ FullWeight["fc"] \in Matrix(4 * Embd, Embd) /\ FullWeight["fc_bias"] \in Matrix(4 * Embd, 1)
    /\ FullWeight["attn_proj"] \in Matrix(Embd, Embd) /\ FullWeight["mlp_proj"] \in Matrix(Embd, 4 * Embd)
    /\ FullWeight["head"] \in Matrix(Vocab, Embd)
    /\ \A p \in {"ln1", "ln2", "ln_f", "attn_proj_bias", "mlp_proj_bias"} : FullWeight[p] \in Matrix(Embd, 1)
    BY WeightsAssumption DEF WeightShape, Matrix

LEMMA EmbdIs ==
    /\ Embd \in Nat \ {0} /\ 3 * Embd \in Nat \ {0} /\ 4 * Embd \in Nat \ {0} /\ Vocab \in Nat \ {0}
    /\ SeqLen \in Nat \ {0} /\ HeadDim \in Nat \ {0} /\ Heads \in Nat \ {0}
    <1>1. Embd \in Nat /\ Embd # 0
        BY SizesAssumption, SMT DEF Embd
    <1>. QED
        BY <1>1, SizesAssumption

LEMMA ParamsAre ==
    {"wte", "wpe", "ln1", "qkv", "qkv_bias", "attn_proj", "attn_proj_bias",
     "ln2", "fc", "fc_bias", "mlp_proj", "mlp_proj_bias", "ln_f", "head"} \subseteq Params
    <1>1. \A i \in 1 .. 14 : ParamOrder[i] \in Params
        BY DEF Params, Range, ParamOrder
    <1>. QED
        BY <1>1 DEF ParamOrder

\* The weights of the devices.
LEMMA WeightsOfMesh ==
    ASSUME Loaded, NEW r \in DpRanks, NEW t \in TpRanks
    PROVE  /\ \A p \in {"wte", "qkv", "qkv_bias", "fc", "fc_bias", "head"} :
                weight[MeshAt(r, t)][p] = Rows(FullWeight[p], config.tp, t)
           /\ \A p \in {"attn_proj", "mlp_proj"} :
                weight[MeshAt(r, t)][p] = Columns(FullWeight[p], config.tp, t)
           /\ \A p \in {"wpe", "ln1", "ln2", "ln_f", "attn_proj_bias", "mlp_proj_bias"} :
                weight[MeshAt(r, t)][p] = FullWeight[p]
    <1>1. MeshAt(r, t) \in Devices /\ World(MeshAt(r, t)) = config.tp /\ Rank(MeshAt(r, t)) = t
        BY MeshIs
    <1>. DEFINE d == MeshAt(r, t)
    <1>. HIDE DEF d
    <1>2. \A p \in Params : weight[d][p] = ShardOfWeight(p, FullWeight[p], config.tp, t)
        BY <1>1 DEF Loaded, d
    <1>. QED
        BY <1>2, ParamsAre DEF d, ShardOfWeight, SplitByRow, SplitByColumn

LEMMA WeightsOfSingle ==
    ASSUME Loaded
    PROVE  \A p \in {"wte", "wpe", "ln1", "qkv", "qkv_bias", "attn_proj", "attn_proj_bias",
                     "ln2", "fc", "fc_bias", "mlp_proj", "mlp_proj_bias", "ln_f", "head"} :
               weight[Single][p] = FullWeight[p]
    <1>1. Single \in Devices /\ World(Single) = 1 /\ Rank(Single) = 0
        BY SingleIs
    <1>2. \A p \in Params : weight[Single][p] = ShardOfWeight(p, FullWeight[p], 1, 0)
        BY <1>1 DEF Loaded
    <1>3. \A p \in {"wte", "qkv", "qkv_bias", "fc", "fc_bias", "head"} : Rows(FullWeight[p], 1, 0) = FullWeight[p]
        <2>1. 1 \in Nat
            OBVIOUS
        <2>. QED
            BY <2>1, Shapes, EmbdIs, RowsOfOne
    <1>4. \A p \in {"attn_proj", "mlp_proj"} : Columns(FullWeight[p], 1, 0) = FullWeight[p]
        BY Shapes, EmbdIs, ColumnsOfOne
    <1>. QED
        BY <1>2, <1>3, <1>4, ParamsAre DEF ShardOfWeight, SplitByRow, SplitByColumn

\* The same, element by element.
WholeAre(c, v, z, k) ==
    \A r \in 0 .. c.dp - 1 : \A t \in 0 .. c.tp - 1 :
        /\ v[MeshAt(r, t)] \in Matrix(SeqLen, k)
        /\ \A n \in 1 .. SeqLen : \A i \in 1 .. k :
              v[MeshAt(r, t)][n][i] = z[r * SeqLen + n][i]
SliceAre(c, v, z, k) ==
    \A r \in 0 .. c.dp - 1 : \A t \in 0 .. c.tp - 1 :
        /\ v[MeshAt(r, t)] \in Matrix(SeqLen, k \div c.tp)
        /\ \A n \in 1 .. SeqLen : \A i \in 1 .. k \div c.tp :
              v[MeshAt(r, t)][n][i] = z[r * SeqLen + n][t * (k \div c.tp) + i]

\* A replica's rows, by their elements.
LEMMA ReplicaElements ==
    ASSUME NEW c \in Configs, NEW k \in Nat, NEW z \in Tokens(c, k), NEW r \in 0 .. c.dp - 1,
           NEW x \in Matrix(SeqLen, k)
    PROVE  RowsOfReplica(z, r) = x <=> \A n \in 1 .. SeqLen : \A i \in 1 .. k : x[n][i] = z[r * SeqLen + n][i]
    <1>. DEFINE y == RowsOfReplica(z, r)
    <1>1. y \in Matrix(SeqLen, k) /\ y = Piece(z, SeqLen, r) /\ SeqLen \in Nat
        BY ReplicaIs, ConfigIs
    <1>2. \A n \in 1 .. SeqLen : \A i \in 1 .. k : y[n][i] = z[r * SeqLen + n][i]
        BY <1>1 DEF Piece
    <1>. HIDE DEF y
    <1>3. (\A n \in 1 .. SeqLen : \A i \in 1 .. k : x[n][i] = z[r * SeqLen + n][i]) => x = y
        <2>. SUFFICES ASSUME \A n \in 1 .. SeqLen : \A i \in 1 .. k : x[n][i] = z[r * SeqLen + n][i]
                      PROVE  x = y
            OBVIOUS
        <2>1. \A n \in 1 .. SeqLen : \A i \in 1 .. k : x[n][i] = y[n][i]
            BY <1>2
        <2>. QED
            BY <1>1, <2>1, SameMatrix
    <1>. QED
        BY <1>2, <1>3 DEF y

LEMMA WholeEq ==
    ASSUME NEW c \in Configs, NEW k \in Nat, NEW z \in Tokens(c, k), NEW v
    PROVE  WholeIn(c, v, z, k) <=> WholeAre(c, v, z, k)
    <1>1. ASSUME NEW r \in 0 .. c.dp - 1
          PROVE  RowsOfReplica(z, r) \in Matrix(SeqLen, k)
        BY ReplicaIs
    <1>2. ASSUME NEW r \in 0 .. c.dp - 1, NEW t \in 0 .. c.tp - 1
          PROVE  v[MeshAt(r, t)] = RowsOfReplica(z, r)
                 <=> /\ v[MeshAt(r, t)] \in Matrix(SeqLen, k)
                     /\ \A n \in 1 .. SeqLen : \A i \in 1 .. k :
                           v[MeshAt(r, t)][n][i] = z[r * SeqLen + n][i]
        <2>. DEFINE x == v[MeshAt(r, t)]
        <2>1. CASE x \in Matrix(SeqLen, k)
            <3>. HIDE DEF x
            <3>1. RowsOfReplica(z, r) = x
                  <=> \A n \in 1 .. SeqLen : \A i \in 1 .. k : x[n][i] = z[r * SeqLen + n][i]
                BY <2>1, ReplicaElements
            <3>. QED
                BY <2>1, <3>1 DEF x
        <2>2. CASE x \notin Matrix(SeqLen, k)
            BY <1>1, <2>2
        <2>. QED
            BY <2>1, <2>2
    <1>. QED
        BY <1>2 DEF WholeIn, WholeAre

LEMMA SliceEq ==
    ASSUME NEW c \in Configs, NEW k \in Nat, k % c.tp = 0, NEW z \in Tokens(c, k), NEW v
    PROVE  SliceIn(c, v, z, k) <=> SliceAre(c, v, z, k)
    <1>. DEFINE tp == c.tp
                size == k \div tp
    <1>1. tp \in Nat \ {0} /\ SeqLen \in Nat
        BY ConfigIs
    <1>2. ASSUME NEW r \in 0 .. c.dp - 1, NEW t \in 0 .. c.tp - 1
          PROVE  v[MeshAt(r, t)] = Columns(RowsOfReplica(z, r), tp, t)
                 <=> /\ v[MeshAt(r, t)] \in Matrix(SeqLen, size)
                     /\ \A n \in 1 .. SeqLen : \A i \in 1 .. size :
                           v[MeshAt(r, t)][n][i] = z[r * SeqLen + n][t * size + i]
        <2>. DEFINE x == v[MeshAt(r, t)]
                    y == RowsOfReplica(z, r)
                    s == Columns(y, tp, t)
        <2>1. y \in Matrix(SeqLen, k) /\ y = Piece(z, SeqLen, r)
            BY ReplicaIs
        <2>2. \A n \in 1 .. SeqLen : y[n] = z[r * SeqLen + n]
            BY <2>1 DEF Piece
        <2>3. t \in 0 .. tp - 1 /\ k % tp = 0
            OBVIOUS
        <2>4. s \in Matrix(SeqLen, size) /\ \A n \in 1 .. SeqLen : s[n] = Piece(y[n], size, t)
            <3>. HIDE DEF y, tp
            <3>. QED
                BY <1>1, <2>1, <2>3, ColumnsAre
        <2>5. \A n \in 1 .. SeqLen : \A i \in 1 .. size : s[n][i] = z[r * SeqLen + n][t * size + i]
            <3>. SUFFICES ASSUME NEW n \in 1 .. SeqLen, NEW i \in 1 .. size
                          PROVE  s[n][i] = z[r * SeqLen + n][t * size + i]
                OBVIOUS
            <3>. DEFINE row == y[n]
                        j == r * SeqLen + n
            <3>1. z[j] = row
                BY <2>2
            <3>2. s[n] = Piece(row, size, t)
                BY <2>4
            <3>. HIDE DEF s, row, size, j
            <3>3. s[n][i] = row[t * size + i]
                BY <3>2 DEF Piece
            <3>. QED
                BY <3>1, <3>3 DEF j
        <2>6. size \in Nat
            <3>. HIDE DEF tp
            <3>1. Divides(k, tp, t)
                BY <1>1, <2>3, Pieces
            <3>. QED
                BY <3>1 DEF Divides
        <2>. HIDE DEF x, s, size, y
        <2>7. ASSUME x \in Matrix(SeqLen, size),
                     \A n \in 1 .. SeqLen : \A i \in 1 .. size : x[n][i] = z[r * SeqLen + n][t * size + i]
              PROVE  x = s
            <3>1. \A n \in 1 .. SeqLen : \A i \in 1 .. size : x[n][i] = s[n][i]
                BY <2>5, <2>7
            <3>. QED
                BY <1>1, <2>4, <2>6, <2>7, <3>1, SameMatrix
        <2>8. x = s => /\ x \in Matrix(SeqLen, size)
                       /\ \A n \in 1 .. SeqLen : \A i \in 1 .. size : x[n][i] = z[r * SeqLen + n][t * size + i]
            BY <2>4, <2>5
        <2>. QED
            BY <2>7, <2>8 DEF x, s, y
    <1>3. ASSUME SliceIn(c, v, z, k)
          PROVE  SliceAre(c, v, z, k)
        <2>1. \A r \in 0 .. c.dp - 1 : \A t \in 0 .. c.tp - 1 :
                  v[MeshAt(r, t)] = Columns(RowsOfReplica(z, r), tp, t)
            BY <1>3 DEF SliceIn
        <2>. QED
            BY <1>2, <2>1 DEF SliceAre
    <1>4. ASSUME SliceAre(c, v, z, k)
          PROVE  SliceIn(c, v, z, k)
        <2>1. \A r \in 0 .. c.dp - 1 : \A t \in 0 .. c.tp - 1 :
                  v[MeshAt(r, t)] = Columns(RowsOfReplica(z, r), tp, t)
            <3>. SUFFICES ASSUME NEW r \in 0 .. c.dp - 1, NEW t \in 0 .. c.tp - 1
                          PROVE  v[MeshAt(r, t)] = Columns(RowsOfReplica(z, r), tp, t)
                OBVIOUS
            <3>1. /\ v[MeshAt(r, t)] \in Matrix(SeqLen, size)
                  /\ \A n \in 1 .. SeqLen : \A i \in 1 .. size :
                        v[MeshAt(r, t)][n][i] = z[r * SeqLen + n][t * size + i]
                BY <1>4 DEF SliceAre
            <3>. QED
                BY <1>2, <3>1
        <2>. QED
            BY <2>1 DEF SliceIn
    <1>. QED
        BY <1>3, <1>4

\* Where an element of a slice is in the whole.
LEMMA SliceIndex ==
    ASSUME NEW c \in Configs, NEW k \in Nat, k % c.tp = 0, NEW t \in 0 .. c.tp - 1
    PROVE  /\ k \div c.tp \in Nat /\ k = c.tp * (k \div c.tp)
           /\ \A i \in 1 .. k \div c.tp : t * (k \div c.tp) + i \in 1 .. k
    <1>. DEFINE tp == c.tp
    <1>1. tp \in Nat \ {0} /\ t \in 0 .. tp - 1 /\ k % tp = 0
        BY ConfigIs
    <1>. HIDE DEF tp
    <1>2. Divides(k, tp, t)
        BY <1>1, Pieces
    <1>. QED
        BY <1>2 DEF Divides, tp

-----------------------------------------------------------------------------
(* Each operator of the model, on all devices. *)

\* The functions of one element and its weight.
Normed(x, w) == [n \in DOMAIN x |-> [i \in DOMAIN x[n] |-> (x[n][i] * w[i][1]) % P]]
Positioned(x, w) == [n \in DOMAIN x |-> [i \in DOMAIN x[n] |-> (x[n][i] + w[PosOf(n)][i]) % P]]
Squared(x) == [n \in DOMAIN x |-> [i \in DOMAIN x[n] |-> (x[n][i] * x[n][i]) % P]]

\* Remainders are numbers.
LEMMA Remainders ==
    ASSUME NEW x \in Num, NEW y \in Num
    PROVE  (x + y) % P \in Num /\ (x * y) % P \in Num
    <1>1. x \in Int /\ y \in Int
        BY NumInt
    <1>2. x * y \in Int
        BY <1>1, SMT
    <1>. DEFINE e == x * y
    <1>. HIDE DEF e
    <1>3. e \in Int
        BY <1>2 DEF e
    <1>4. e % P \in Num /\ (x + y) % P \in Num
        BY <1>1, <1>3 DEF Num, P
    <1>. QED
        BY <1>4 DEF e

\* The position of a token in its sequence.
LEMMA PosOfToken ==
    ASSUME NEW r \in Nat
    PROVE  \A n \in 1 .. SeqLen : PosOf(r * SeqLen + n) = n /\ PosOf(n) = n
    <1>. DEFINE l == SeqLen
    <1>1. l \in Nat \ {0}
        BY SizesAssumption
    <1>2. SUFFICES ASSUME NEW n \in 1 .. SeqLen
                   PROVE  PosOf(r * SeqLen + n) = n /\ PosOf(n) = n
        OBVIOUS
    <1>3. n \in 1 .. l
        OBVIOUS
    <1>. HIDE DEF l
    <1>4. n - 1 \in 0 .. l - 1 /\ 0 \in Nat
        BY <1>1, <1>3
    <1>5. (l * r + (n - 1)) % l = n - 1
        BY <1>1, <1>4, DivUnique
    <1>6. (l * 0 + (n - 1)) % l = n - 1
        BY <1>1, <1>4, DivUnique
    <1>7. r * l = l * r /\ l * r \in Nat /\ l * 0 = 0
        BY <1>1, SMT
    <1>. DEFINE q == l * r
    <1>8. (q + (n - 1)) % l = n - 1 /\ (0 + (n - 1)) % l = n - 1
        BY <1>5, <1>6, <1>7
    <1>9. ((r * l + n) - 1) % l = (q + n - 1) % l /\ q \in Nat
        BY <1>7
    <1>. HIDE DEF q
    <1>10. (q + n - 1) % l = n - 1 /\ (n - 1) % l = n - 1
        <2>1. q + (n - 1) = q + n - 1 /\ 0 + (n - 1) = n - 1
            BY <1>3, <1>9
        <2>. QED
            BY <1>8, <2>1
    <1>. QED
        BY <1>3, <1>9, <1>10 DEF PosOf, l

LEMMA NormedIs ==
    ASSUME NEW rows \in Nat, NEW k \in Nat, NEW x \in Matrix(rows, k), NEW w \in Matrix(k, 1)
    PROVE  /\ Normed(x, w) \in Matrix(rows, k)
           /\ \A n \in 1 .. rows : \A i \in 1 .. k : Normed(x, w)[n][i] = (x[n][i] * w[i][1]) % P
    <1>. DEFINE y == Normed(x, w)
    <1>1. DOMAIN x = 1 .. rows /\ \A n \in 1 .. rows : DOMAIN x[n] = 1 .. k
        BY DEF Matrix
    <1>2. y = [n \in 1 .. rows |-> [i \in 1 .. k |-> (x[n][i] * w[i][1]) % P]]
        BY <1>1 DEF Normed
    <1>. HIDE DEF y
    <1>3. ASSUME NEW n \in 1 .. rows, NEW i \in 1 .. k
          PROVE  (x[n][i] * w[i][1]) % P \in Num
        <2>1. x[n][i] \in Num /\ w[i][1] \in Num
            BY DEF Matrix
        <2>. QED
            BY <2>1, Remainders
    <1>4. y \in Matrix(rows, k)
        BY <1>2, <1>3 DEF Matrix
    <1>5. \A n \in 1 .. rows : \A i \in 1 .. k : y[n][i] = (x[n][i] * w[i][1]) % P
        BY <1>2
    <1>. QED
        BY <1>4, <1>5 DEF y

LEMMA AddBiasIs ==
    ASSUME NEW rows \in Nat, NEW k \in Nat, NEW x \in Matrix(rows, k), NEW w \in Matrix(k, 1)
    PROVE  /\ AddBias(x, w) \in Matrix(rows, k)
           /\ \A n \in 1 .. rows : \A i \in 1 .. k : AddBias(x, w)[n][i] = (x[n][i] + w[i][1]) % P
    <1>. DEFINE y == AddBias(x, w)
    <1>1. DOMAIN x = 1 .. rows /\ \A n \in 1 .. rows : DOMAIN x[n] = 1 .. k
        BY DEF Matrix
    <1>2. y = [n \in 1 .. rows |-> [i \in 1 .. k |-> (x[n][i] + w[i][1]) % P]]
        BY <1>1 DEF AddBias
    <1>. HIDE DEF y
    <1>3. ASSUME NEW n \in 1 .. rows, NEW i \in 1 .. k
          PROVE  (x[n][i] + w[i][1]) % P \in Num
        <2>1. x[n][i] \in Num /\ w[i][1] \in Num
            BY DEF Matrix
        <2>. QED
            BY <2>1, Remainders
    <1>4. y \in Matrix(rows, k)
        BY <1>2, <1>3 DEF Matrix
    <1>5. \A n \in 1 .. rows : \A i \in 1 .. k : y[n][i] = (x[n][i] + w[i][1]) % P
        BY <1>2
    <1>. QED
        BY <1>4, <1>5 DEF y

LEMMA SquaredIs ==
    ASSUME NEW rows \in Nat, NEW k \in Nat, NEW x \in Matrix(rows, k)
    PROVE  /\ Squared(x) \in Matrix(rows, k)
           /\ \A n \in 1 .. rows : \A i \in 1 .. k : Squared(x)[n][i] = (x[n][i] * x[n][i]) % P
    <1>. DEFINE y == Squared(x)
    <1>1. DOMAIN x = 1 .. rows /\ \A n \in 1 .. rows : DOMAIN x[n] = 1 .. k
        BY DEF Matrix
    <1>2. y = [n \in 1 .. rows |-> [i \in 1 .. k |-> (x[n][i] * x[n][i]) % P]]
        BY <1>1 DEF Squared
    <1>. HIDE DEF y
    <1>3. ASSUME NEW n \in 1 .. rows, NEW i \in 1 .. k
          PROVE  (x[n][i] * x[n][i]) % P \in Num
        <2>1. x[n][i] \in Num
            BY DEF Matrix
        <2>. QED
            BY <2>1, Remainders
    <1>4. y \in Matrix(rows, k)
        BY <1>2, <1>3 DEF Matrix
    <1>5. \A n \in 1 .. rows : \A i \in 1 .. k : y[n][i] = (x[n][i] * x[n][i]) % P
        BY <1>2
    <1>. QED
        BY <1>4, <1>5 DEF y

LEMMA PlusIs ==
    ASSUME NEW rows \in Nat, NEW k \in Nat, NEW x \in Matrix(rows, k), NEW w \in Matrix(rows, k)
    PROVE  /\ Plus(x, w) \in Matrix(rows, k)
           /\ \A n \in 1 .. rows : \A i \in 1 .. k : Plus(x, w)[n][i] = (x[n][i] + w[n][i]) % P
    <1>. DEFINE y == Plus(x, w)
    <1>1. DOMAIN x = 1 .. rows /\ \A n \in 1 .. rows : DOMAIN x[n] = 1 .. k
        BY DEF Matrix
    <1>2. y = [n \in 1 .. rows |-> [i \in 1 .. k |-> (x[n][i] + w[n][i]) % P]]
        BY <1>1 DEF Plus
    <1>. HIDE DEF y
    <1>3. ASSUME NEW n \in 1 .. rows, NEW i \in 1 .. k
          PROVE  (x[n][i] + w[n][i]) % P \in Num
        <2>1. x[n][i] \in Num /\ w[n][i] \in Num
            BY DEF Matrix
        <2>. QED
            BY <2>1, Remainders
    <1>4. y \in Matrix(rows, k)
        BY <1>2, <1>3 DEF Matrix
    <1>5. \A n \in 1 .. rows : \A i \in 1 .. k : y[n][i] = (x[n][i] + w[n][i]) % P
        BY <1>2
    <1>. QED
        BY <1>4, <1>5 DEF y

LEMMA PositionedIs ==
    ASSUME NEW rows \in Nat, NEW k \in Nat, NEW x \in Matrix(rows, k), NEW w \in Matrix(SeqLen, k)
    PROVE  /\ Positioned(x, w) \in Matrix(rows, k)
           /\ \A n \in 1 .. rows : \A i \in 1 .. k : Positioned(x, w)[n][i] = (x[n][i] + w[PosOf(n)][i]) % P
    <1>. DEFINE y == Positioned(x, w)
    <1>1. DOMAIN x = 1 .. rows /\ \A n \in 1 .. rows : DOMAIN x[n] = 1 .. k
        BY DEF Matrix
    <1>2. y = [n \in 1 .. rows |-> [i \in 1 .. k |-> (x[n][i] + w[PosOf(n)][i]) % P]]
        BY <1>1 DEF Positioned
    <1>. HIDE DEF y
    <1>3. ASSUME NEW n \in 1 .. rows, NEW i \in 1 .. k
          PROVE  (x[n][i] + w[PosOf(n)][i]) % P \in Num
        <2>0. PosOf(n) \in 1 .. SeqLen
            <3>. DEFINE a == n - 1
                        l == SeqLen
            <3>1. a \in Nat /\ l \in Nat \ {0}
                BY SizesAssumption
            <3>. HIDE DEF a, l
            <3>2. a % l \in 0 .. l - 1
                BY <3>1, Division
            <3>. QED
                BY <3>1, <3>2 DEF PosOf, a, l
        <2>1. x[n][i] \in Num /\ w[PosOf(n)][i] \in Num
            BY <2>0 DEF Matrix
        <2>. QED
            BY <2>1, Remainders
    <1>4. y \in Matrix(rows, k)
        BY <1>2, <1>3 DEF Matrix
    <1>5. \A n \in 1 .. rows : \A i \in 1 .. k : y[n][i] = (x[n][i] + w[PosOf(n)][i]) % P
        BY <1>2
    <1>. QED
        BY <1>4, <1>5 DEF y

LEMMA NormWhole ==
    ASSUME NEW c \in Configs, NEW k \in Nat, NEW v, NEW z, WholeIn(c, v, z, k), NEW w \in Matrix(k, 1), NEW u,
           \A r \in 0 .. c.dp - 1 : \A t \in 0 .. c.tp - 1 :
               u[MeshAt(r, t)] = Normed(v[MeshAt(r, t)], w)
    PROVE  WholeIn(c, u, Normed(z, w), k)
    <1>. DEFINE y == Normed(z, w)
                m == c.dp * SeqLen
    <1>1. z \in Tokens(c, k) /\ m \in Nat /\ SeqLen \in Nat
        BY ConfigIs DEF WholeIn
    <1>2. WholeAre(c, v, z, k)
        BY <1>1, WholeEq
    <1>. HIDE DEF m
    <1>3. z \in Matrix(m, k)
        BY <1>1 DEF Tokens, m
    <1>4. y \in Matrix(m, k)
        BY <1>1, <1>3, NormedIs
    <1>5. \A n \in 1 .. m : \A i \in 1 .. k : y[n][i] = (z[n][i] * w[i][1]) % P
        BY <1>1, <1>3, NormedIs
    <1>6. ASSUME NEW r \in 0 .. c.dp - 1, NEW t \in 0 .. c.tp - 1
          PROVE  /\ u[MeshAt(r, t)] \in Matrix(SeqLen, k)
                 /\ \A n \in 1 .. SeqLen : \A i \in 1 .. k :
                       u[MeshAt(r, t)][n][i] = y[r * SeqLen + n][i]
        <2>. DEFINE x == v[MeshAt(r, t)]
                    a == Normed(x, w)
        <2>1. x \in Matrix(SeqLen, k) /\ a = u[MeshAt(r, t)] /\ r \in Nat
            BY <1>2 DEF WholeAre
        <2>2. \A n \in 1 .. SeqLen : \A i \in 1 .. k : x[n][i] = z[r * SeqLen + n][i]
            BY <1>2 DEF WholeAre
        <2>3. \A n \in 1 .. SeqLen : r * SeqLen + n \in 1 .. m
            BY ReplicaRow DEF m
        <2>. HIDE DEF x
        <2>4. a \in Matrix(SeqLen, k)
            BY <1>1, <2>1, NormedIs
        <2>5. \A n \in 1 .. SeqLen : \A i \in 1 .. k : a[n][i] = (x[n][i] * w[i][1]) % P
            BY <1>1, <2>1, NormedIs
        <2>. HIDE DEF a, y
        <2>6. ASSUME NEW n \in 1 .. SeqLen, NEW i \in 1 .. k
              PROVE  a[n][i] = y[r * SeqLen + n][i]
            <3>. DEFINE j == r * SeqLen + n
            <3>1. j \in 1 .. m /\ x[n][i] = z[j][i]
                BY <2>2, <2>3
            <3>. HIDE DEF j
            <3>2. y[j][i] = (z[j][i] * w[i][1]) % P
                BY <1>5, <3>1
            <3>3. a[n][i] = y[j][i]
                BY <2>5, <3>1, <3>2
            <3>. QED
                BY <3>3 DEF j
        <2>. QED
            BY <2>1, <2>4, <2>6
    <1>7. y \in Tokens(c, k) /\ WholeAre(c, u, y, k)
        BY <1>4, <1>6 DEF Tokens, WholeAre, m
    <1>. HIDE DEF y
    <1>8. WholeIn(c, u, y, k)
        BY <1>7, WholeEq
    <1>. QED
        BY <1>8 DEF y

LEMMA BiasWhole ==
    ASSUME NEW c \in Configs, NEW k \in Nat, NEW v, NEW z, WholeIn(c, v, z, k), NEW w \in Matrix(k, 1), NEW u,
           \A r \in 0 .. c.dp - 1 : \A t \in 0 .. c.tp - 1 :
               u[MeshAt(r, t)] = AddBias(v[MeshAt(r, t)], w)
    PROVE  WholeIn(c, u, AddBias(z, w), k)
    <1>. DEFINE y == AddBias(z, w)
                m == c.dp * SeqLen
    <1>1. z \in Tokens(c, k) /\ m \in Nat /\ SeqLen \in Nat
        BY ConfigIs DEF WholeIn
    <1>2. WholeAre(c, v, z, k)
        BY <1>1, WholeEq
    <1>. HIDE DEF m
    <1>3. z \in Matrix(m, k)
        BY <1>1 DEF Tokens, m
    <1>4. y \in Matrix(m, k)
        BY <1>1, <1>3, AddBiasIs
    <1>5. \A n \in 1 .. m : \A i \in 1 .. k : y[n][i] = (z[n][i] + w[i][1]) % P
        BY <1>1, <1>3, AddBiasIs
    <1>6. ASSUME NEW r \in 0 .. c.dp - 1, NEW t \in 0 .. c.tp - 1
          PROVE  /\ u[MeshAt(r, t)] \in Matrix(SeqLen, k)
                 /\ \A n \in 1 .. SeqLen : \A i \in 1 .. k :
                       u[MeshAt(r, t)][n][i] = y[r * SeqLen + n][i]
        <2>. DEFINE x == v[MeshAt(r, t)]
                    a == AddBias(x, w)
        <2>1. x \in Matrix(SeqLen, k) /\ a = u[MeshAt(r, t)] /\ r \in Nat
            BY <1>2 DEF WholeAre
        <2>2. \A n \in 1 .. SeqLen : \A i \in 1 .. k : x[n][i] = z[r * SeqLen + n][i]
            BY <1>2 DEF WholeAre
        <2>3. \A n \in 1 .. SeqLen : r * SeqLen + n \in 1 .. m
            BY ReplicaRow DEF m
        <2>. HIDE DEF x
        <2>4. a \in Matrix(SeqLen, k)
            BY <1>1, <2>1, AddBiasIs
        <2>5. \A n \in 1 .. SeqLen : \A i \in 1 .. k : a[n][i] = (x[n][i] + w[i][1]) % P
            BY <1>1, <2>1, AddBiasIs
        <2>. HIDE DEF a, y
        <2>6. ASSUME NEW n \in 1 .. SeqLen, NEW i \in 1 .. k
              PROVE  a[n][i] = y[r * SeqLen + n][i]
            <3>. DEFINE j == r * SeqLen + n
            <3>1. j \in 1 .. m /\ x[n][i] = z[j][i]
                BY <2>2, <2>3
            <3>. HIDE DEF j
            <3>2. y[j][i] = (z[j][i] + w[i][1]) % P
                BY <1>5, <3>1
            <3>3. a[n][i] = y[j][i]
                BY <2>5, <3>1, <3>2
            <3>. QED
                BY <3>3 DEF j
        <2>. QED
            BY <2>1, <2>4, <2>6
    <1>7. y \in Tokens(c, k) /\ WholeAre(c, u, y, k)
        BY <1>4, <1>6 DEF Tokens, WholeAre, m
    <1>. HIDE DEF y
    <1>8. WholeIn(c, u, y, k)
        BY <1>7, WholeEq
    <1>. QED
        BY <1>8 DEF y

LEMMA ActWhole ==
    ASSUME NEW c \in Configs, NEW k \in Nat, NEW v, NEW z, WholeIn(c, v, z, k), NEW u,
           \A r \in 0 .. c.dp - 1 : \A t \in 0 .. c.tp - 1 :
               u[MeshAt(r, t)] = Squared(v[MeshAt(r, t)])
    PROVE  WholeIn(c, u, Squared(z), k)
    <1>. DEFINE y == Squared(z)
                m == c.dp * SeqLen
    <1>1. z \in Tokens(c, k) /\ m \in Nat /\ SeqLen \in Nat
        BY ConfigIs DEF WholeIn
    <1>2. WholeAre(c, v, z, k)
        BY <1>1, WholeEq
    <1>. HIDE DEF m
    <1>3. z \in Matrix(m, k)
        BY <1>1 DEF Tokens, m
    <1>4. y \in Matrix(m, k)
        BY <1>1, <1>3, SquaredIs
    <1>5. \A n \in 1 .. m : \A i \in 1 .. k : y[n][i] = (z[n][i] * z[n][i]) % P
        BY <1>1, <1>3, SquaredIs
    <1>6. ASSUME NEW r \in 0 .. c.dp - 1, NEW t \in 0 .. c.tp - 1
          PROVE  /\ u[MeshAt(r, t)] \in Matrix(SeqLen, k)
                 /\ \A n \in 1 .. SeqLen : \A i \in 1 .. k :
                       u[MeshAt(r, t)][n][i] = y[r * SeqLen + n][i]
        <2>. DEFINE x == v[MeshAt(r, t)]
                    a == Squared(x)
        <2>1. x \in Matrix(SeqLen, k) /\ a = u[MeshAt(r, t)] /\ r \in Nat
            BY <1>2 DEF WholeAre
        <2>2. \A n \in 1 .. SeqLen : \A i \in 1 .. k : x[n][i] = z[r * SeqLen + n][i]
            BY <1>2 DEF WholeAre
        <2>3. \A n \in 1 .. SeqLen : r * SeqLen + n \in 1 .. m
            BY ReplicaRow DEF m
        <2>. HIDE DEF x
        <2>4. a \in Matrix(SeqLen, k)
            BY <1>1, <2>1, SquaredIs
        <2>5. \A n \in 1 .. SeqLen : \A i \in 1 .. k : a[n][i] = (x[n][i] * x[n][i]) % P
            BY <1>1, <2>1, SquaredIs
        <2>. HIDE DEF a, y
        <2>6. ASSUME NEW n \in 1 .. SeqLen, NEW i \in 1 .. k
              PROVE  a[n][i] = y[r * SeqLen + n][i]
            <3>. DEFINE j == r * SeqLen + n
            <3>1. j \in 1 .. m /\ x[n][i] = z[j][i]
                BY <2>2, <2>3
            <3>. HIDE DEF j
            <3>2. y[j][i] = (z[j][i] * z[j][i]) % P
                BY <1>5, <3>1
            <3>3. a[n][i] = y[j][i]
                BY <2>5, <3>1, <3>2
            <3>. QED
                BY <3>3 DEF j
        <2>. QED
            BY <2>1, <2>4, <2>6
    <1>7. y \in Tokens(c, k) /\ WholeAre(c, u, y, k)
        BY <1>4, <1>6 DEF Tokens, WholeAre, m
    <1>. HIDE DEF y
    <1>8. WholeIn(c, u, y, k)
        BY <1>7, WholeEq
    <1>. QED
        BY <1>8 DEF y

LEMMA PositionWhole ==
    ASSUME NEW c \in Configs, NEW k \in Nat, NEW v, NEW z, WholeIn(c, v, z, k), NEW w \in Matrix(SeqLen, k), NEW u,
           \A r \in 0 .. c.dp - 1 : \A t \in 0 .. c.tp - 1 :
               u[MeshAt(r, t)] = Positioned(v[MeshAt(r, t)], w)
    PROVE  WholeIn(c, u, Positioned(z, w), k)
    <1>. DEFINE y == Positioned(z, w)
                m == c.dp * SeqLen
    <1>1. z \in Tokens(c, k) /\ m \in Nat /\ SeqLen \in Nat
        BY ConfigIs DEF WholeIn
    <1>2. WholeAre(c, v, z, k)
        BY <1>1, WholeEq
    <1>. HIDE DEF m
    <1>3. z \in Matrix(m, k)
        BY <1>1 DEF Tokens, m
    <1>4. y \in Matrix(m, k)
        BY <1>1, <1>3, PositionedIs
    <1>5. \A n \in 1 .. m : \A i \in 1 .. k : y[n][i] = (z[n][i] + w[PosOf(n)][i]) % P
        BY <1>1, <1>3, PositionedIs
    <1>6. ASSUME NEW r \in 0 .. c.dp - 1, NEW t \in 0 .. c.tp - 1
          PROVE  /\ u[MeshAt(r, t)] \in Matrix(SeqLen, k)
                 /\ \A n \in 1 .. SeqLen : \A i \in 1 .. k :
                       u[MeshAt(r, t)][n][i] = y[r * SeqLen + n][i]
        <2>. DEFINE x == v[MeshAt(r, t)]
                    a == Positioned(x, w)
        <2>1. x \in Matrix(SeqLen, k) /\ a = u[MeshAt(r, t)] /\ r \in Nat
            BY <1>2 DEF WholeAre
        <2>2. \A n \in 1 .. SeqLen : \A i \in 1 .. k : x[n][i] = z[r * SeqLen + n][i]
            BY <1>2 DEF WholeAre
        <2>3. \A n \in 1 .. SeqLen : r * SeqLen + n \in 1 .. m
            BY ReplicaRow DEF m
        <2>. HIDE DEF x
        <2>4. a \in Matrix(SeqLen, k)
            BY <1>1, <2>1, PositionedIs
        <2>5. \A n \in 1 .. SeqLen : \A i \in 1 .. k : a[n][i] = (x[n][i] + w[PosOf(n)][i]) % P
            BY <1>1, <2>1, PositionedIs
        <2>. HIDE DEF a, y
        <2>6. ASSUME NEW n \in 1 .. SeqLen, NEW i \in 1 .. k
              PROVE  a[n][i] = y[r * SeqLen + n][i]
            <3>. DEFINE j == r * SeqLen + n
            <3>1. j \in 1 .. m /\ x[n][i] = z[j][i]
                BY <2>2, <2>3
            <3>4. PosOf(j) = n /\ PosOf(n) = n
                BY <2>1, PosOfToken
            <3>. HIDE DEF j
            <3>2. y[j][i] = (z[j][i] + w[PosOf(j)][i]) % P
                BY <1>5, <3>1
            <3>3. a[n][i] = y[j][i]
                BY <2>5, <3>1, <3>2, <3>4
            <3>. QED
                BY <3>3 DEF j
        <2>. QED
            BY <2>1, <2>4, <2>6
    <1>7. y \in Tokens(c, k) /\ WholeAre(c, u, y, k)
        BY <1>4, <1>6 DEF Tokens, WholeAre, m
    <1>. HIDE DEF y
    <1>8. WholeIn(c, u, y, k)
        BY <1>7, WholeEq
    <1>. QED
        BY <1>8 DEF y

LEMMA BiasSlice ==
    ASSUME NEW c \in Configs, NEW k \in Nat, NEW v, NEW z, SliceIn(c, v, z, k), NEW w \in Matrix(k, 1), NEW u,
           \A r \in 0 .. c.dp - 1 : \A t \in 0 .. c.tp - 1 :
               u[MeshAt(r, t)] = AddBias(v[MeshAt(r, t)], Rows(w, c.tp, t))
    PROVE  SliceIn(c, u, AddBias(z, w), k)
    <1>. DEFINE y == AddBias(z, w)
                m == c.dp * SeqLen
                tp == c.tp
                size == k \div tp
    <1>1. z \in Tokens(c, k) /\ m \in Nat /\ SeqLen \in Nat /\ tp \in Nat \ {0} /\ k % tp = 0
        BY ConfigIs DEF SliceIn
    <1>2. SliceAre(c, v, z, k)
        BY <1>1, SliceEq
    <1>3. z \in Matrix(m, k)
        BY <1>1 DEF Tokens, m
    <1>4. y \in Matrix(m, k) /\ \A n \in 1 .. m : \A i \in 1 .. k : y[n][i] = (z[n][i] + w[i][1]) % P
        <2>. HIDE DEF m
        <2>1. y \in Matrix(m, k)
            BY <1>1, <1>3, AddBiasIs
        <2>2. \A n \in 1 .. m : \A i \in 1 .. k : y[n][i] = (z[n][i] + w[i][1]) % P
            BY <1>1, <1>3, AddBiasIs
        <2>. QED
            BY <2>1, <2>2
    <1>. HIDE DEF y
    <1>6. ASSUME NEW r \in 0 .. c.dp - 1, NEW t \in 0 .. c.tp - 1
          PROVE  /\ u[MeshAt(r, t)] \in Matrix(SeqLen, size)
                 /\ \A n \in 1 .. SeqLen : \A i \in 1 .. size :
                       u[MeshAt(r, t)][n][i] = y[r * SeqLen + n][t * size + i]
        <2>. DEFINE x == v[MeshAt(r, t)]
                    b == Rows(w, tp, t)
                    a == AddBias(x, b)
        <2>1. x \in Matrix(SeqLen, size)
            BY <1>2 DEF SliceAre
        <2>2. \A n \in 1 .. SeqLen : \A i \in 1 .. size : x[n][i] = z[r * SeqLen + n][t * size + i]
            BY <1>2 DEF SliceAre
        <2>3. \A n \in 1 .. SeqLen : r * SeqLen + n \in 1 .. m
            BY ReplicaRow
        <2>4. size \in Nat
            BY <1>1, SliceIndex
        <2>5. \A i \in 1 .. size : t * size + i \in 1 .. k
            BY <1>1, SliceIndex
        <2>6. a = u[MeshAt(r, t)]
            OBVIOUS
        <2>7. t \in 0 .. tp - 1
            OBVIOUS
        <2>. HIDE DEF x, m, tp
        <2>10. b \in Matrix(size, 1) /\ b = Piece(w, size, t)
            BY <1>1, <2>7, RowsAre
        <2>. HIDE DEF b
        <2>11. \A i \in 1 .. size : b[i] = w[t * size + i]
            BY <2>10 DEF Piece
        <2>. HIDE DEF size
        <2>8. a \in Matrix(SeqLen, size) /\ \A n \in 1 .. SeqLen : \A i \in 1 .. size : a[n][i] = (x[n][i] + b[i][1]) % P
            <3>1. a \in Matrix(SeqLen, size)
                BY <1>1, <2>1, <2>4, <2>10, AddBiasIs
            <3>2. \A n \in 1 .. SeqLen : \A i \in 1 .. size : a[n][i] = (x[n][i] + b[i][1]) % P
                BY <1>1, <2>1, <2>4, <2>10, AddBiasIs
            <3>. QED
                BY <3>1, <3>2
        <2>. HIDE DEF a
        <2>9. ASSUME NEW n \in 1 .. SeqLen, NEW i \in 1 .. size
              PROVE  a[n][i] = y[r * SeqLen + n][t * size + i]
            <3>. DEFINE j == r * SeqLen + n
                        o == t * size + i
            <3>1. j \in 1 .. m /\ o \in 1 .. k /\ x[n][i] = z[j][o]
                BY <2>2, <2>3, <2>5
            <3>5. b[i] = w[o]
                BY <2>11
            <3>. HIDE DEF j, o
            <3>2. y[j][o] = (z[j][o] + w[o][1]) % P
                BY <1>4, <3>1
            <3>3. a[n][i] = (x[n][i] + b[i][1]) % P
                BY <2>8
            <3>4. a[n][i] = y[j][o]
                BY <3>1, <3>2, <3>3, <3>5
            <3>. QED
                BY <3>4 DEF j, o
        <2>. QED
            BY <2>6, <2>8, <2>9 DEF size, tp
    <1>7. y \in Tokens(c, k) /\ SliceAre(c, u, y, k)
        BY <1>4, <1>6 DEF Tokens, SliceAre, m
    <1>8. SliceIn(c, u, y, k)
        BY <1>1, <1>7, SliceEq
    <1>. QED
        BY <1>8 DEF y

LEMMA ActSlice ==
    ASSUME NEW c \in Configs, NEW k \in Nat, NEW v, NEW z, SliceIn(c, v, z, k), NEW u,
           \A r \in 0 .. c.dp - 1 : \A t \in 0 .. c.tp - 1 :
               u[MeshAt(r, t)] = Squared(v[MeshAt(r, t)])
    PROVE  SliceIn(c, u, Squared(z), k)
    <1>. DEFINE y == Squared(z)
                m == c.dp * SeqLen
                tp == c.tp
                size == k \div tp
    <1>1. z \in Tokens(c, k) /\ m \in Nat /\ SeqLen \in Nat /\ tp \in Nat \ {0} /\ k % tp = 0
        BY ConfigIs DEF SliceIn
    <1>2. SliceAre(c, v, z, k)
        BY <1>1, SliceEq
    <1>3. z \in Matrix(m, k)
        BY <1>1 DEF Tokens, m
    <1>4. y \in Matrix(m, k) /\ \A n \in 1 .. m : \A i \in 1 .. k : y[n][i] = (z[n][i] * z[n][i]) % P
        <2>. HIDE DEF m
        <2>1. y \in Matrix(m, k)
            BY <1>1, <1>3, SquaredIs
        <2>2. \A n \in 1 .. m : \A i \in 1 .. k : y[n][i] = (z[n][i] * z[n][i]) % P
            BY <1>1, <1>3, SquaredIs
        <2>. QED
            BY <2>1, <2>2
    <1>. HIDE DEF y
    <1>6. ASSUME NEW r \in 0 .. c.dp - 1, NEW t \in 0 .. c.tp - 1
          PROVE  /\ u[MeshAt(r, t)] \in Matrix(SeqLen, size)
                 /\ \A n \in 1 .. SeqLen : \A i \in 1 .. size :
                       u[MeshAt(r, t)][n][i] = y[r * SeqLen + n][t * size + i]
        <2>. DEFINE x == v[MeshAt(r, t)]
                    a == Squared(x)
        <2>1. x \in Matrix(SeqLen, size)
            BY <1>2 DEF SliceAre
        <2>2. \A n \in 1 .. SeqLen : \A i \in 1 .. size : x[n][i] = z[r * SeqLen + n][t * size + i]
            BY <1>2 DEF SliceAre
        <2>3. \A n \in 1 .. SeqLen : r * SeqLen + n \in 1 .. m
            BY ReplicaRow
        <2>4. size \in Nat
            BY <1>1, SliceIndex
        <2>5. \A i \in 1 .. size : t * size + i \in 1 .. k
            BY <1>1, SliceIndex
        <2>6. a = u[MeshAt(r, t)]
            OBVIOUS
        <2>7. t \in 0 .. tp - 1
            OBVIOUS
        <2>. HIDE DEF x, m, tp
        <2>. HIDE DEF size
        <2>8. a \in Matrix(SeqLen, size) /\ \A n \in 1 .. SeqLen : \A i \in 1 .. size : a[n][i] = (x[n][i] * x[n][i]) % P
            <3>1. a \in Matrix(SeqLen, size)
                BY <1>1, <2>1, <2>4, SquaredIs
            <3>2. \A n \in 1 .. SeqLen : \A i \in 1 .. size : a[n][i] = (x[n][i] * x[n][i]) % P
                BY <1>1, <2>1, <2>4, SquaredIs
            <3>. QED
                BY <3>1, <3>2
        <2>. HIDE DEF a
        <2>9. ASSUME NEW n \in 1 .. SeqLen, NEW i \in 1 .. size
              PROVE  a[n][i] = y[r * SeqLen + n][t * size + i]
            <3>. DEFINE j == r * SeqLen + n
                        o == t * size + i
            <3>1. j \in 1 .. m /\ o \in 1 .. k /\ x[n][i] = z[j][o]
                BY <2>2, <2>3, <2>5
            <3>. HIDE DEF j, o
            <3>2. y[j][o] = (z[j][o] * z[j][o]) % P
                BY <1>4, <3>1
            <3>3. a[n][i] = (x[n][i] * x[n][i]) % P
                BY <2>8
            <3>4. a[n][i] = y[j][o]
                BY <3>1, <3>2, <3>3
            <3>. QED
                BY <3>4 DEF j, o
        <2>. QED
            BY <2>6, <2>8, <2>9 DEF size, tp
    <1>7. y \in Tokens(c, k) /\ SliceAre(c, u, y, k)
        BY <1>4, <1>6 DEF Tokens, SliceAre, m
    <1>8. SliceIn(c, u, y, k)
        BY <1>1, <1>7, SliceEq
    <1>. QED
        BY <1>8 DEF y

\* The residual branch.
LEMMA JoinWhole ==
    ASSUME NEW c \in Configs, NEW k \in Nat, NEW v, NEW z, WholeIn(c, v, z, k),
           NEW s, NEW b, WholeIn(c, s, b, k), NEW u,
           \A r \in 0 .. c.dp - 1 : \A t \in 0 .. c.tp - 1 :
               u[MeshAt(r, t)] = Plus(s[MeshAt(r, t)], v[MeshAt(r, t)])
    PROVE  WholeIn(c, u, Plus(b, z), k)
    <1>. DEFINE y == Plus(b, z)
                m == c.dp * SeqLen
    <1>1. z \in Tokens(c, k) /\ b \in Tokens(c, k) /\ m \in Nat /\ SeqLen \in Nat
        BY ConfigIs DEF WholeIn
    <1>2. WholeAre(c, v, z, k) /\ WholeAre(c, s, b, k)
        BY <1>1, WholeEq
    <1>. HIDE DEF m
    <1>3. z \in Matrix(m, k) /\ b \in Matrix(m, k)
        BY <1>1 DEF Tokens, m
    <1>4. y \in Matrix(m, k)
        BY <1>1, <1>3, PlusIs
    <1>5. \A n \in 1 .. m : \A i \in 1 .. k : y[n][i] = (b[n][i] + z[n][i]) % P
        BY <1>1, <1>3, PlusIs
    <1>6. ASSUME NEW r \in 0 .. c.dp - 1, NEW t \in 0 .. c.tp - 1
          PROVE  /\ u[MeshAt(r, t)] \in Matrix(SeqLen, k)
                 /\ \A n \in 1 .. SeqLen : \A i \in 1 .. k :
                       u[MeshAt(r, t)][n][i] = y[r * SeqLen + n][i]
        <2>. DEFINE x == v[MeshAt(r, t)]
                    w == s[MeshAt(r, t)]
                    a == Plus(w, x)
        <2>1. x \in Matrix(SeqLen, k) /\ w \in Matrix(SeqLen, k) /\ a = u[MeshAt(r, t)]
            BY <1>2 DEF WholeAre
        <2>2. \A n \in 1 .. SeqLen : \A i \in 1 .. k :
                  x[n][i] = z[r * SeqLen + n][i] /\ w[n][i] = b[r * SeqLen + n][i]
            BY <1>2 DEF WholeAre
        <2>3. \A n \in 1 .. SeqLen : r * SeqLen + n \in 1 .. m
            BY ReplicaRow DEF m
        <2>. HIDE DEF x, w
        <2>4. a \in Matrix(SeqLen, k)
            BY <1>1, <2>1, PlusIs
        <2>5. \A n \in 1 .. SeqLen : \A i \in 1 .. k : a[n][i] = (w[n][i] + x[n][i]) % P
            BY <1>1, <2>1, PlusIs
        <2>. HIDE DEF a, y
        <2>6. ASSUME NEW n \in 1 .. SeqLen, NEW i \in 1 .. k
              PROVE  a[n][i] = y[r * SeqLen + n][i]
            <3>. DEFINE j == r * SeqLen + n
            <3>1. j \in 1 .. m /\ x[n][i] = z[j][i] /\ w[n][i] = b[j][i]
                BY <2>2, <2>3
            <3>. HIDE DEF j
            <3>2. y[j][i] = (b[j][i] + z[j][i]) % P
                BY <1>5, <3>1
            <3>3. a[n][i] = y[j][i]
                BY <2>5, <3>1, <3>2
            <3>. QED
                BY <3>3 DEF j
        <2>. QED
            BY <2>1, <2>4, <2>6
    <1>7. y \in Tokens(c, k) /\ WholeAre(c, u, y, k)
        BY <1>4, <1>6 DEF Tokens, WholeAre, m
    <1>. HIDE DEF y
    <1>8. WholeIn(c, u, y, k)
        BY <1>7, WholeEq
    <1>. QED
        BY <1>8 DEF y

\* A sum over one rank.
LEMMA SumOfOne ==
    ASSUME NEW rows \in Nat, NEW k \in Nat, NEW ts \in [0 .. 0 -> Matrix(rows, k)]
    PROVE  SumOver(ts) = ts[0]
    <1>. DEFINE y == ts[0]
    <1>1. y \in Matrix(rows, k)
        OBVIOUS
    <1>2. ASSUME NEW n \in 1 .. rows, NEW i \in 1 .. k
          PROVE  TotalOn(AtEach(ts, 1, n, i), 0 .. 0) = y[n][i]
        <2>. DEFINE f == AtEach(ts, 1, n, i)
        <2>1. f[0] = y[n][i]
            BY DEF AtEach
        <2>2. y[n][i] \in Num
            BY <1>1 DEF Matrix
        <2>3. y[n][i] \in Int /\ y[n][i] % P = y[n][i]
            BY <2>2 DEF Num, P
        <2>. HIDE DEF f, y
        <2>4. IsFiniteSet(0 .. 0) /\ 0 \in 0 .. 0 /\ \A x \in (0 .. 0) \ {0} : f[x] = 0
            <3>1. IsFiniteSet(0 .. 0)
                <4>1. 0 \in Int
                    OBVIOUS
                <4>. QED
                    BY <4>1, FS_Interval, Zenon
            <3>2. \A x \in 0 .. 0 : x = 0
                BY SMT
            <3>. QED
                BY <3>1, <3>2
        <2>5. TotalOn(f, 0 .. 0) = f[0] % P
            BY <2>1, <2>3, <2>4, TotalOne
        <2>. QED
            BY <2>1, <2>3, <2>5 DEF f
    <1>3. AddUp(ts, y, 1, rows, k)
        BY <1>1, <1>2 DEF AddUp
    <1>. HIDE DEF y
    <1>4. SumOver(ts) = y
        BY <1>3, SumOverAre
    <1>. QED
        BY <1>4 DEF y

\* The code behaviour: all-reducing the partial sums leaves every rank of the
\* tensor group the whole activation, and a group of one has it already.
LEMMA ReduceParts ==
    ASSUME NEW c \in Configs, NEW k \in Nat, NEW v, NEW z, PartialIn(c, v, z, k), NEW u,
           \A r \in 0 .. c.dp - 1 : \A t \in 0 .. c.tp - 1 :
               u[MeshAt(r, t)] = IF c.tp > 1 THEN SumOver(PartsOf(c, v, r)) ELSE v[MeshAt(r, t)]
    PROVE  WholeIn(c, u, z, k)
    <1>1. c.tp \in Nat \ {0} /\ SeqLen \in Nat /\ z \in Tokens(c, k)
        BY ConfigIs DEF PartialIn
    <1>2. ASSUME NEW r \in 0 .. c.dp - 1, NEW t \in 0 .. c.tp - 1
          PROVE  u[MeshAt(r, t)] = RowsOfReplica(z, r)
        <2>. DEFINE ts == PartsOf(c, v, r)
        <2>1. ts \in [0 .. c.tp - 1 -> Matrix(SeqLen, k)] /\ SumOver(ts) = RowsOfReplica(z, r)
            BY DEF PartialIn
        <2>2. ts[t] = v[MeshAt(r, t)]
            BY DEF PartsOf
        <2>. HIDE DEF ts
        <2>3. CASE c.tp > 1
            BY <2>1, <2>3 DEF ts
        <2>4. CASE ~(c.tp > 1)
            <3>1. c.tp = 1
                BY <1>1, <2>4
            <3>2. t = 0 /\ ts \in [0 .. 0 -> Matrix(SeqLen, k)]
                BY <2>1, <3>1
            <3>3. SumOver(ts) = ts[0]
                BY <1>1, <3>2, SumOfOne
            <3>. QED
                BY <2>1, <2>2, <2>4, <3>2, <3>3
        <2>. QED
            BY <2>3, <2>4
    <1>. QED
        BY <1>1, <1>2 DEF WholeIn

\* The code behaviour: gathering the slices leaves every rank the whole
\* activation.
LEMMA GatherSlices ==
    ASSUME NEW c \in Configs, NEW k \in Nat, NEW v, NEW z, SliceIn(c, v, z, k), NEW u,
           \A r \in 0 .. c.dp - 1 : \A t \in 0 .. c.tp - 1 :
               u[MeshAt(r, t)] = IF c.tp = 1 THEN v[MeshAt(r, t)] ELSE Concat(PartsOf(c, v, r), c.tp)
    PROVE  WholeIn(c, u, z, k)
    <1>. DEFINE tp == c.tp
    <1>1. tp \in Nat \ {0} /\ SeqLen \in Nat /\ z \in Tokens(c, k) /\ k % tp = 0
        BY ConfigIs DEF SliceIn
    <1>2. ASSUME NEW r \in 0 .. c.dp - 1, NEW t \in 0 .. c.tp - 1
          PROVE  u[MeshAt(r, t)] = RowsOfReplica(z, r)
        <2>. DEFINE x == RowsOfReplica(z, r)
        <2>1. x \in Matrix(SeqLen, k)
            BY <1>1, ReplicaIs
        <2>2. \A s \in 0 .. c.tp - 1 : v[MeshAt(r, s)] = Columns(x, tp, s)
            BY DEF SliceIn
        <2>3. PartsOf(c, v, r) = [s \in 0 .. tp - 1 |-> Columns(x, tp, s)]
            BY <2>2 DEF PartsOf
        <2>. HIDE DEF x
        <2>4. CASE tp = 1
            <3>1. t = 0 /\ v[MeshAt(r, t)] = Columns(x, 1, 0)
                BY <2>2, <2>4
            <3>2. Columns(x, 1, 0) = x
                BY <1>1, <2>1, ColumnsOfOne
            <3>. QED
                BY <2>4, <3>1, <3>2 DEF x
        <2>5. CASE tp # 1
            <3>1. u[MeshAt(r, t)] = Concat([s \in 0 .. tp - 1 |-> Columns(x, tp, s)], tp)
                BY <2>3, <2>5
            <3>. HIDE DEF tp
            <3>2. Concat([s \in 0 .. tp - 1 |-> Columns(x, tp, s)], tp) = x
                BY <1>1, <2>1, GatherUndoesScatter
            <3>. QED
                BY <3>1, <3>2 DEF x
        <2>. QED
            BY <2>4, <2>5
    <1>. QED
        BY <1>1, <1>2 DEF WholeIn

LEMMA ScatterWhole ==
    ASSUME NEW c \in Configs, NEW k \in Nat, k % c.tp = 0, NEW v, NEW z, WholeIn(c, v, z, k), NEW u,
           \A r \in 0 .. c.dp - 1 : \A t \in 0 .. c.tp - 1 :
               u[MeshAt(r, t)] = Columns(v[MeshAt(r, t)], c.tp, t)
    PROVE  SliceIn(c, u, z, k)
    BY DEF WholeIn, SliceIn

\* The share of the heads and of the features of a rank.
LEMMA Multiple ==
    ASSUME NEW d \in Nat \ {0}, NEW q \in Nat, NEW n, n = d * q
    PROVE  n \in Nat /\ n % d = 0 /\ n \div d = q
    <1>1. 0 \in 0 .. d - 1
        OBVIOUS
    <1>2. (d * q + 0) \div d = q /\ (d * q + 0) % d = 0
        BY <1>1, DivUnique
    <1>3. d * q \in Nat
        BY SMT
    <1>4. d * q + 0 = d * q
        BY <1>3
    <1>. QED
        BY <1>2, <1>3, <1>4

HeadShare(c) == Heads \div c.tp
LEMMA Shares ==
    ASSUME NEW c \in Configs
    PROVE  /\ HeadShare(c) \in Nat /\ Heads = c.tp * HeadShare(c)
           /\ Embd % c.tp = 0 /\ Embd \div c.tp = HeadShare(c) * HeadDim
           /\ (3 * Embd) % c.tp = 0 /\ (3 * Embd) \div c.tp = 3 * (HeadShare(c) * HeadDim)
           /\ (4 * Embd) % c.tp = 0 /\ Vocab % c.tp = 0
    <1>. DEFINE tp == c.tp
                g == HeadShare(c)
                s == g * HeadDim
    <1>1. tp \in Nat \ {0} /\ Heads % tp = 0 /\ Vocab % tp = 0 /\ Heads \in Nat /\ HeadDim \in Nat
        BY ConfigsAssumption, SizesAssumption
    <1>2. g \in Nat /\ Heads = tp * g
        <2>. HIDE DEF tp
        <2>1. Heads \div tp \in Nat /\ Heads = tp * (Heads \div tp) + (Heads % tp)
            BY <1>1, Division
        <2>2. tp * (Heads \div tp) \in Nat
            BY <1>1, <2>1, TimesNat
        <2>. QED
            BY <1>1, <2>1, <2>2 DEF HeadShare, tp
    <1>. HIDE DEF tp, g
    <1>3. s \in Nat
        BY <1>1, <1>2, TimesNat
    <1>4. Embd = tp * s
        <2>1. (tp * g) * HeadDim = tp * (g * HeadDim)
            BY <1>1, <1>2, SMT
        <2>. QED
            BY <1>2, <2>1 DEF Embd
    <1>5. Embd % tp = 0 /\ Embd \div tp = s /\ Embd \in Nat
        BY <1>1, <1>3, <1>4, Multiple
    <1>6. 3 * Embd = tp * (3 * s) /\ 4 * Embd = tp * (4 * s) /\ 3 * s \in Nat /\ 4 * s \in Nat
        <2>. HIDE DEF s
        <2>. QED
            BY <1>1, <1>3, <1>4, SMT
    <1>7. (3 * Embd) % tp = 0 /\ (3 * Embd) \div tp = 3 * s
        <2>. DEFINE q == 3 * s
        <2>. HIDE DEF q
        <2>. QED
            BY <1>1, <1>6, Multiple DEF q
    <1>8. (4 * Embd) % tp = 0
        <2>. DEFINE q == 4 * s
        <2>. HIDE DEF q
        <2>. QED
            BY <1>1, <1>6, Multiple DEF q
    <1>. QED
        BY <1>1, <1>2, <1>5, <1>7, <1>8 DEF tp, g

\* The heads of a slice of the features.
LEMMA HeadsAre ==
    ASSUME NEW rows \in Nat \ {0}, NEW g \in Nat, NEW x \in Matrix(rows, 3 * (g * HeadDim))
    PROVE  HeadsOf(x) = g
    <1>. DEFINE d == 3 * HeadDim
                w == 3 * (g * HeadDim)
    <1>1. HeadDim \in Nat \ {0}
        BY SizesAssumption
    <1>2. d \in Nat \ {0}
        BY <1>1
    <1>3. w = d * g /\ w \in Nat
        BY <1>1, SMT
    <1>. HIDE DEF d, w
    <1>4. w \div d = g
        BY <1>2, <1>3, Multiple
    <1>5. Len(x[1]) = w
        <2>1. x[1] \in [1 .. w -> Num]
            BY DEF Matrix, w
        <2>. QED
            BY <1>3, <2>1
    <1>. QED
        BY <1>4, <1>5 DEF HeadsOf, Width, d

\* Blocks of width w, from the b-th on.
LEMMA BlockIndex ==
    ASSUME NEW g \in Nat, NEW w \in Nat \ {0}, NEW h \in 1 .. g, NEW e \in 1 .. w
    PROVE  (h - 1) * w + e \in 1 .. g * w
    <1>. DEFINE a == (h - 1) * w
                b == g * w
    <1>1. h - 1 \in Nat /\ (h - 1) + 1 <= g
        OBVIOUS
    <1>2. a \in Nat /\ b \in Nat
        BY <1>1, TimesNat
    <1>3. a + w <= b
        <2>1. h * w <= g * w /\ h * w = (h - 1) * w + w
            BY <1>1, SMT
        <2>. QED
            BY <2>1
    <1>. HIDE DEF a, b
    <1>4. a + e \in 1 .. b
        BY <1>2, <1>3
    <1>. QED
        BY <1>4 DEF a, b

LEMMA IndexIs ==
    ASSUME NEW g \in Nat, NEW h \in 1 .. g, NEW which \in 0 .. 2, NEW e \in 1 .. HeadDim, NEW heads
    PROVE  /\ QkvIndex(heads, h, which, e) \in 1 .. 3 * (g * HeadDim)
           /\ \A b \in Nat : QkvIndex(heads, b + h, which, e) = 3 * (b * HeadDim) + QkvIndex(heads, h, which, e)
    <1>. DEFINE w == HeadDim
                j == (h - 1) * 3 + which
    <1>1. w \in Nat \ {0}
        BY SizesAssumption
    <1>2. j + 1 \in 1 .. 3 * g /\ j \in Nat
        BY SMT
    <1>. HIDE DEF w, j
    <1>3. j * w + e \in 1 .. (3 * g) * w
        <2>1. 3 * g \in Nat /\ e \in 1 .. w
            BY DEF w
        <2>. DEFINE n == 3 * g
                    i == j + 1
        <2>. HIDE DEF n, i
        <2>2. (i - 1) * w + e \in 1 .. n * w
            BY <1>1, <1>2, <2>1, BlockIndex DEF n, i
        <2>3. i - 1 = j
            BY <1>2 DEF i
        <2>4. j * w + e \in 1 .. n * w
            BY <2>2, <2>3
        <2>. QED
            BY <2>4 DEF n
    <1>4. (3 * g) * w = 3 * (g * w)
        BY <1>1, <1>2, SMT
    <1>5. QkvIndex(heads, h, which, e) = j * w + e
        BY DEF QkvIndex, j, w
    <1>6. ASSUME NEW b \in Nat
          PROVE  QkvIndex(heads, b + h, which, e) = 3 * (b * w) + QkvIndex(heads, h, which, e)
        <2>1. QkvIndex(heads, b + h, which, e) = ((b + h - 1) * 3 + which) * w + e
            BY DEF QkvIndex, w
        <2>2. (b + h - 1) * 3 + which = 3 * b + j
            BY DEF j
        <2>3. (3 * b + j) * w = 3 * (b * w) + j * w
            BY <1>1, <1>2, SMT
        <2>4. 3 * (b * w) \in Nat /\ j * w \in Nat /\ e \in Nat
            BY <1>1, <1>2, SMT DEF w
        <2>. DEFINE p == 3 * (b * w)
                    q == j * w
        <2>. HIDE DEF p, q
        <2>5. p + q + e = p + (q + e)
            BY <2>4 DEF p, q
        <2>. QED
            BY <1>5, <2>1, <2>2, <2>3, <2>5 DEF p, q
    <1>. QED
        BY <1>3, <1>4, <1>5, <1>6 DEF w

LEMMA HeadOfIs ==
    ASSUME NEW g \in Nat, NEW i \in 1 .. g * HeadDim
    PROVE  /\ HeadOf(i) \in 1 .. g /\ InHead(i) \in 1 .. HeadDim
           /\ \A b \in Nat : HeadOf(b * HeadDim + i) = b + HeadOf(i) /\ InHead(b * HeadDim + i) = InHead(i)
    <1>. DEFINE w == HeadDim
                a == i - 1
                q == a \div w
                s == a % w
    <1>1. w \in Nat \ {0} /\ g * w \in Nat
        BY SizesAssumption, TimesNat
    <1>2. a \in Nat /\ i = a + 1 /\ a < g * w
        BY <1>1
    <1>. HIDE DEF w, a
    <1>3. q \in Nat /\ s \in 0 .. w - 1 /\ a = w * q + s
        BY <1>1, <1>2, Division
    <1>4. HeadOf(i) = q + 1 /\ InHead(i) = s + 1
        BY DEF HeadOf, InHead, a, w
    <1>. HIDE DEF q, s
    <1>5. q + 1 \in 1 .. g
        <2>1. ASSUME q >= g
              PROVE  FALSE
            <3>1. w * q >= g * w
                BY <1>1, <1>3, <2>1, SMT
            <3>2. w * q \in Nat
                BY <1>1, <1>3, TimesNat
            <3>. DEFINE e == w * q
                        f == g * w
            <3>. HIDE DEF e, f
            <3>3. e >= f /\ e \in Nat /\ f \in Nat /\ a = e + s /\ a < f
                BY <1>1, <1>2, <1>3, <3>1, <3>2 DEF e, f
            <3>. QED
                BY <1>3, <3>3
        <2>. QED
            BY <1>3, <2>1
    <1>6. ASSUME NEW b \in Nat
          PROVE  HeadOf(b * w + i) = b + (q + 1) /\ InHead(b * w + i) = s + 1
        <2>. DEFINE e == b * w
        <2>1. e \in Nat
            BY <1>1, TimesNat
        <2>2. w * (b + q) = e + w * q
            BY <1>1, <1>3, SMT
        <2>3. b + q \in Nat /\ w * q \in Nat
            BY <1>1, <1>3, TimesNat
        <2>4. (w * (b + q) + s) \div w = b + q /\ (w * (b + q) + s) % w = s
            <3>. DEFINE f == b + q
            <3>. HIDE DEF f
            <3>. QED
                BY <1>1, <1>3, <2>3, DivUnique DEF f
        <2>. DEFINE k == w * q
        <2>. HIDE DEF e, k
        <2>5. (e + k) + s = (e + i) - 1
            BY <1>2, <1>3, <2>1, <2>3 DEF k
        <2>6. ((e + i) - 1) \div w = b + q /\ ((e + i) - 1) % w = s
            BY <2>2, <2>4, <2>5 DEF k
        <2>7. HeadOf(e + i) = (b + q) + 1 /\ InHead(e + i) = s + 1
            BY <2>6 DEF HeadOf, InHead, w
        <2>8. (b + q) + 1 = b + (q + 1)
            BY <1>3
        <2>. QED
            BY <2>7, <2>8 DEF e
    <1>7. s + 1 \in 1 .. w
        BY <1>1, <1>3
    <1>8. HeadOf(i) \in 1 .. g /\ InHead(i) \in 1 .. HeadDim
        BY <1>4, <1>5, <1>7 DEF w
    <1>9. \A b \in Nat : HeadOf(b * HeadDim + i) = b + HeadOf(i) /\ InHead(b * HeadDim + i) = InHead(i)
        BY <1>4, <1>6 DEF w
    <1>. QED
        BY <1>8, <1>9

\* Matrices of queries, keys and values of g heads.
Qkv(rows, g) == Matrix(rows, 3 * (g * HeadDim))

\* A head's part of a row.
LEMMA PartIs ==
    ASSUME NEW rows \in Nat \ {0}, NEW g \in Nat, NEW x \in Qkv(rows, g), NEW n \in 1 .. rows,
           NEW h \in 1 .. g, NEW which \in 0 .. 2
    PROVE  /\ Part(x, n, h, which) \in [1 .. HeadDim -> Num]
           /\ \A e \in 1 .. HeadDim : Part(x, n, h, which)[e] = x[n][QkvIndex(0, h, which, e)]
    <1>1. ASSUME NEW e \in 1 .. HeadDim
          PROVE  x[n][QkvIndex(0, h, which, e)] \in Num /\ QkvIndex(HeadsOf(x), h, which, e) = QkvIndex(0, h, which, e)
        <2>1. QkvIndex(0, h, which, e) \in 1 .. 3 * (g * HeadDim)
            BY IndexIs
        <2>2. x[n] \in [1 .. 3 * (g * HeadDim) -> Num]
            BY DEF Qkv, Matrix
        <2>3. x[n][QkvIndex(0, h, which, e)] \in Num
            BY <2>1, <2>2
        <2>. QED
            BY <2>3 DEF QkvIndex
    <1>. QED
        BY <1>1 DEF Part

\* What a token's head takes from each earlier token.
ScoreTerms(x, n, m, h) == [e \in 1 .. HeadDim |-> Part(x, n, h, 0)[e] * Part(x, m, h, 1)[e]]
SeenTerms(x, n, h, e) == [m \in 1 .. n |-> Score(x, n, m, h) * Part(x, m, h, 2)[e]]

LEMMA ScoreIs ==
    ASSUME NEW rows \in Nat \ {0}, NEW g \in Nat, NEW x \in Qkv(rows, g), NEW n \in 1 .. rows,
           NEW m \in 1 .. rows, NEW h \in 1 .. g
    PROVE  /\ Score(x, n, m, h) = TotalOn(ScoreTerms(x, n, m, h), 1 .. HeadDim)
           /\ Score(x, n, m, h) \in Num
    <1>. DEFINE u == Part(x, n, h, 0)
                v == Part(x, m, h, 1)
                f == ScoreTerms(x, n, m, h)
    <1>1. HeadDim \in Nat /\ IsFiniteSet(1 .. HeadDim)
        BY SizesAssumption, FS_Interval
    <1>2. u \in [1 .. HeadDim -> Num]
        <2>1. 0 \in 0 .. 2
            OBVIOUS
        <2>. QED
            BY <2>1, PartIs
    <1>3. v \in [1 .. HeadDim -> Num]
        <2>1. 1 \in 0 .. 2
            OBVIOUS
        <2>. QED
            BY <2>1, PartIs
    <1>4. f = [e \in 1 .. HeadDim |-> u[e] * v[e]]
        BY DEF ScoreTerms
    <1>5. Score(x, n, m, h) = Dot(u, v)
        BY DEF Score
    <1>. HIDE DEF u, v, f
    <1>6. \A e \in 1 .. HeadDim : f[e] \in Int
        BY <1>2, <1>3, <1>4, NumTimes
    <1>7. Dot(u, v) = Total(f)
        BY <1>2, <1>4 DEF Dot
    <1>8. Total(f) = TotalOn(f, 1 .. HeadDim)
        BY <1>4, TotalAll
    <1>9. TotalOn(f, 1 .. HeadDim) \in Num
        BY <1>1, <1>6, TotalType
    <1>. QED
        BY <1>5, <1>7, <1>8, <1>9 DEF f

LEMMA SeenTermsInt ==
    ASSUME NEW rows \in Nat \ {0}, NEW g \in Nat, NEW x \in Qkv(rows, g), NEW n \in 1 .. rows,
           NEW h \in 1 .. g, NEW e \in 1 .. HeadDim, NEW m \in 1 .. n
    PROVE  SeenTerms(x, n, h, e)[m] \in Int
    <1>1. m \in 1 .. rows /\ 2 \in 0 .. 2
        OBVIOUS
    <1>2. Score(x, n, m, h) \in Num
        BY <1>1, ScoreIs
    <1>3. Part(x, m, h, 2) \in [1 .. HeadDim -> Num]
        BY <1>1, PartIs
    <1>4. Part(x, m, h, 2)[e] \in Num
        BY <1>3
    <1>. QED
        BY <1>2, <1>4, NumTimes DEF SeenTerms

LEMMA SeenFinite ==
    ASSUME NEW x, NEW n \in Nat
    PROVE  IsFiniteSet(Seen(x, n)) /\ Seen(x, n) \subseteq 1 .. n
    <1>1. IsFiniteSet(1 .. n) /\ Seen(x, n) \subseteq 1 .. n
        BY FS_Interval DEF Seen
    <1>. QED
        BY <1>1, FS_Subset

LEMMA AttendIs ==
    ASSUME NEW rows \in Nat \ {0}, NEW g \in Nat, NEW x \in Qkv(rows, g)
    PROVE  /\ Attend(x) \in Matrix(rows, g * HeadDim)
           /\ \A n \in 1 .. rows : \A i \in 1 .. g * HeadDim :
                 Attend(x)[n][i] = TotalOn(SeenTerms(x, n, HeadOf(i), InHead(i)), Seen(x, n))
    <1>. DEFINE y == Attend(x)
                Value(n, i) == TotalOn(SeenTerms(x, n, HeadOf(i), InHead(i)), Seen(x, n))
    <1>1. HeadsOf(x) = g /\ DOMAIN x = 1 .. rows
        BY HeadsAre DEF Qkv, Matrix
    <1>2. ASSUME NEW n \in 1 .. rows, NEW i \in 1 .. g * HeadDim
          PROVE  /\ Value(n, i) \in Num
                 /\ Value(n, i) = Total([m \in Seen(x, n) |->
                                     Score(x, n, m, HeadOf(i)) * Part(x, m, HeadOf(i), 2)[InHead(i)]])
        <2>. DEFINE h == HeadOf(i)
                    e == InHead(i)
                    f == SeenTerms(x, n, h, e)
        <2>1. h \in 1 .. g /\ e \in 1 .. HeadDim
            BY HeadOfIs
        <2>. HIDE DEF h, e
        <2>2. IsFiniteSet(Seen(x, n)) /\ Seen(x, n) \subseteq 1 .. n
            BY SeenFinite
        <2>3. \A m \in 1 .. n : f[m] \in Int
            BY <2>1, SeenTermsInt
        <2>4. \A m \in 1 .. n : f[m] = Score(x, n, m, h) * Part(x, m, h, 2)[e]
            BY DEF SeenTerms
        <2>. HIDE DEF f
        <2>5. TotalOn(f, Seen(x, n)) \in Num
            BY <2>2, <2>3, TotalType
        <2>6. [m \in Seen(x, n) |-> f[m]] = [m \in Seen(x, n) |-> Score(x, n, m, h) * Part(x, m, h, 2)[e]]
            BY <2>2, <2>4
        <2>. QED
            BY <2>5, <2>6 DEF TotalOn, f, h, e
    <1>3. y = [n \in 1 .. rows |-> [i \in 1 .. g * HeadDim |-> Value(n, i)]]
        BY <1>1, <1>2 DEF Attend
    <1>. HIDE DEF y
    <1>4. y \in Matrix(rows, g * HeadDim)
        BY <1>2, <1>3 DEF Matrix
    <1>5. \A n \in 1 .. rows : \A i \in 1 .. g * HeadDim : y[n][i] = Value(n, i)
        BY <1>3
    <1>. QED
        BY <1>4, <1>5 DEF y

\* x is z from its a-th row and its b-th head on.
Within(x, z, rows, g, a, b) ==
    \A n \in 1 .. rows : \A i \in 1 .. 3 * (g * HeadDim) : x[n][i] = z[a + n][3 * (b * HeadDim) + i]
Fits(rows, g, all, heads, a, b) ==
    /\ a \in Nat /\ b \in Nat
    /\ \A n \in 1 .. rows : a + n \in 1 .. all
    /\ \A h \in 1 .. g : b + h \in 1 .. heads

LEMMA PartWithin ==
    ASSUME NEW rows \in Nat \ {0}, NEW g \in Nat, NEW x \in Qkv(rows, g),
           NEW all \in Nat \ {0}, NEW heads \in Nat, NEW z \in Qkv(all, heads),
           NEW a, NEW b, Fits(rows, g, all, heads, a, b), Within(x, z, rows, g, a, b),
           NEW n \in 1 .. rows, NEW h \in 1 .. g, NEW which \in 0 .. 2
    PROVE  \A e \in 1 .. HeadDim : Part(x, n, h, which)[e] = Part(z, a + n, b + h, which)[e]
    <1>. DEFINE j == a + n
                k == b + h
    <1>1. j \in 1 .. all /\ k \in 1 .. heads /\ b \in Nat
        BY DEF Fits
    <1>2. \A e \in 1 .. HeadDim : Part(x, n, h, which)[e] = x[n][QkvIndex(0, h, which, e)]
        BY PartIs
    <1>3. ASSUME NEW e \in 1 .. HeadDim
          PROVE  x[n][QkvIndex(0, h, which, e)] = z[j][QkvIndex(0, k, which, e)]
        <2>. DEFINE i == QkvIndex(0, h, which, e)
        <2>1. i \in 1 .. 3 * (g * HeadDim) /\ QkvIndex(0, k, which, e) = 3 * (b * HeadDim) + i
            BY <1>1, IndexIs
        <2>. HIDE DEF i
        <2>2. x[n][i] = z[a + n][3 * (b * HeadDim) + i]
            BY <2>1 DEF Within
        <2>. QED
            BY <2>1, <2>2 DEF i
    <1>. HIDE DEF j, k
    <1>4. \A e \in 1 .. HeadDim : Part(z, j, k, which)[e] = z[j][QkvIndex(0, k, which, e)]
        BY <1>1, PartIs
    <1>5. \A e \in 1 .. HeadDim : Part(x, n, h, which)[e] = Part(z, j, k, which)[e]
        BY <1>2, <1>3, <1>4
    <1>. QED
        BY <1>5 DEF j, k

LEMMA ScoreWithin ==
    ASSUME NEW rows \in Nat \ {0}, NEW g \in Nat, NEW x \in Qkv(rows, g),
           NEW all \in Nat \ {0}, NEW heads \in Nat, NEW z \in Qkv(all, heads),
           NEW a, NEW b, Fits(rows, g, all, heads, a, b), Within(x, z, rows, g, a, b),
           NEW n \in 1 .. rows, NEW m \in 1 .. rows, NEW h \in 1 .. g
    PROVE  Score(x, n, m, h) = Score(z, a + n, a + m, b + h)
    <1>. DEFINE j == a + n
                o == a + m
                k == b + h
    <1>1. j \in 1 .. all /\ o \in 1 .. all /\ k \in 1 .. heads
        BY DEF Fits
    <1>2. \A e \in 1 .. HeadDim : Part(x, n, h, 0)[e] = Part(z, j, k, 0)[e]
        <2>1. 0 \in 0 .. 2
            OBVIOUS
        <2>. QED
            BY <2>1, PartWithin
    <1>3. \A e \in 1 .. HeadDim : Part(x, m, h, 1)[e] = Part(z, o, k, 1)[e]
        <2>1. 1 \in 0 .. 2
            OBVIOUS
        <2>. QED
            BY <2>1, PartWithin
    <1>. HIDE DEF j, o, k
    <1>4. ScoreTerms(x, n, m, h) = ScoreTerms(z, j, o, k)
        BY <1>2, <1>3 DEF ScoreTerms
    <1>5. Score(x, n, m, h) = Score(z, j, o, k)
        BY <1>1, <1>4, ScoreIs
    <1>. QED
        BY <1>5 DEF j, o, k

\* A token sees the earlier ones of its own sequence.
LEMMA SeenIs ==
    ASSUME NEW x, NEW r \in Nat, NEW n \in 1 .. SeqLen
    PROVE  Seen(x, r * SeqLen + n) = {r * SeqLen + m : m \in 1 .. n}
    <1>. DEFINE l == SeqLen
                a == r * l
                Place(m) == (m - 1) \div l
    <1>1. l \in Nat \ {0} /\ a \in Nat
        BY SizesAssumption, TimesNat
    <1>. HIDE DEF l
    <1>2. n \in 1 .. l
        BY DEF l
    <1>3. ASSUME NEW m \in 1 .. l
          PROVE  Place(a + m) = r
        <2>1. m - 1 \in 0 .. l - 1
            BY <1>1
        <2>2. (l * r + (m - 1)) \div l = r
            BY <1>1, <2>1, DivUnique
        <2>3. l * r = a
            BY <1>1, SMT
        <2>4. a + (m - 1) = (a + m) - 1
            BY <1>1
        <2>5. (a + (m - 1)) \div l = r
            BY <2>2, <2>3
        <2>. HIDE DEF a
        <2>. QED
            BY <2>4, <2>5
    <1>4. ASSUME NEW m \in 1 .. a + n, Place(m) = r
          PROVE  \E k \in 1 .. n : m = a + k
        <2>. DEFINE b == m - 1
                    q == b \div l
                    s == b % l
        <2>1. b \in Nat /\ m = b + 1 /\ q = r
            BY <1>1, <1>4
        <2>. HIDE DEF b
        <2>2. s \in 0 .. l - 1 /\ b = l * q + s
            BY <1>1, <2>1, Division
        <2>. HIDE DEF q, s
        <2>3. l * q = a
            BY <1>1, <2>1, SMT
        <2>. HIDE DEF a
        <2>4. m = a + (s + 1)
            BY <1>1, <2>1, <2>2, <2>3
        <2>5. s + 1 \in 1 .. n
            BY <1>1, <1>4, <2>2, <2>4
        <2>. QED
            BY <2>4, <2>5
    <1>5. ASSUME NEW m \in 1 .. n
          PROVE  a + m \in 1 .. a + n /\ Place(a + m) = r
        <2>1. m \in 1 .. l
            BY <1>1, <1>2
        <2>2. Place(a + m) = r
            BY <1>3, <2>1
        <2>. HIDE DEF a, Place
        <2>3. a + m \in 1 .. a + n
            BY <1>1
        <2>. QED
            BY <2>2, <2>3
    <1>6. Place(a + n) = r
        BY <1>2, <1>3
    <1>7. Seen(x, a + n) = {m \in 1 .. a + n : Place(m) = r}
        BY <1>6 DEF Seen, SameSeq, l
    <1>. HIDE DEF a, Place
    <1>8. {m \in 1 .. a + n : Place(m) = r} = {a + m : m \in 1 .. n}
        BY <1>4, <1>5
    <1>. QED
        BY <1>7, <1>8 DEF a, l

LEMMA SeenFirst ==
    ASSUME NEW x, NEW n \in 1 .. SeqLen
    PROVE  Seen(x, n) = 1 .. n
    <1>1. Seen(x, 0 * SeqLen + n) = {0 * SeqLen + m : m \in 1 .. n}
        BY SeenIs
    <1>2. SeqLen \in Nat
        BY SizesAssumption
    <1>3. 0 * SeqLen = 0 /\ n \in Nat
        BY <1>2, SMT
    <1>4. 0 * SeqLen + n = n /\ \A m \in 1 .. n : 0 * SeqLen + m = m
        BY <1>3
    <1>5. {0 * SeqLen + m : m \in 1 .. n} = 1 .. n
        BY <1>4
    <1>. QED
        BY <1>1, <1>4, <1>5

\* The code behaviour: attention works head by head, so that a rank that holds
\* the queries, keys and values of its own heads computes its slice of the
\* whole result, for its own sequences only.
LEMMA AttendSlice ==
    ASSUME NEW c \in Configs, NEW v, NEW z, SliceIn(c, v, z, 3 * Embd), NEW u,
           \A r \in 0 .. c.dp - 1 : \A t \in 0 .. c.tp - 1 :
               u[MeshAt(r, t)] = Attend(v[MeshAt(r, t)])
    PROVE  SliceIn(c, u, Attend(z), Embd)
    <1>. DEFINE g == HeadShare(c)
                tp == c.tp
                m == c.dp * SeqLen
                k == 3 * Embd
                y == Attend(z)
    <1>1. /\ g \in Nat /\ Heads = tp * g
          /\ Embd % tp = 0 /\ Embd \div tp = g * HeadDim
          /\ k % tp = 0 /\ k \div tp = 3 * (g * HeadDim)
        BY Shares
    <1>2. z \in Tokens(c, k)
        BY DEF SliceIn
    <1>3. m \in Nat \ {0} /\ SeqLen \in Nat \ {0} /\ tp \in Nat \ {0} /\ Heads \in Nat /\ k \in Nat /\ Embd \in Nat
        BY ConfigIs, EmbdIs
    <1>4. z \in Qkv(m, Heads)
        BY <1>2 DEF Tokens, Qkv, Embd
    <1>5. SliceAre(c, v, z, k)
        <2>. HIDE DEF k
        <2>. QED
            BY <1>1, <1>2, <1>3, SliceEq DEF k
    <1>. HIDE DEF g, m, k, y
    <1>6. y \in Matrix(m, Embd)
        BY <1>3, <1>4, AttendIs DEF y, Embd
    <1>7. \A n \in 1 .. m : \A i \in 1 .. Embd :
              y[n][i] = TotalOn(SeenTerms(z, n, HeadOf(i), InHead(i)), Seen(z, n))
        BY <1>3, <1>4, AttendIs DEF y, Embd
    <1>8. ASSUME NEW r \in 0 .. c.dp - 1, NEW t \in 0 .. c.tp - 1
          PROVE  /\ u[MeshAt(r, t)] \in Matrix(SeqLen, g * HeadDim)
                 /\ \A n \in 1 .. SeqLen : \A i \in 1 .. g * HeadDim :
                       u[MeshAt(r, t)][n][i] = y[r * SeqLen + n][t * (g * HeadDim) + i]
        <2>. DEFINE x == v[MeshAt(r, t)]
                    a == r * SeqLen
                    b == t * g
                    o == Attend(x)
        <2>1. x \in Qkv(SeqLen, g) /\ o = u[MeshAt(r, t)]
            BY <1>1, <1>5 DEF SliceAre, Qkv, k
        <2>2. \A n \in 1 .. SeqLen : \A i \in 1 .. 3 * (g * HeadDim) :
                  x[n][i] = z[a + n][t * (3 * (g * HeadDim)) + i]
            BY <1>1, <1>5 DEF SliceAre, k
        <2>3. t * (3 * (g * HeadDim)) = 3 * (b * HeadDim) /\ t * (g * HeadDim) = b * HeadDim
            <3>1. t \in Nat /\ g \in Nat /\ HeadDim \in Nat
                BY <1>1, SizesAssumption
            <3>. QED
                BY <3>1, SMT
        <2>4. Fits(SeqLen, g, m, Heads, a, b)
            <3>1. \A n \in 1 .. SeqLen : a + n \in 1 .. m
                BY ReplicaRow DEF m
            <3>2. a \in Nat /\ b \in Nat
                BY <1>1, <1>3, TimesNat
            <3>3. ASSUME NEW h \in 1 .. g
                  PROVE  b + h \in 1 .. Heads
                <4>1. t \in Nat /\ t + 1 <= tp
                    BY <1>3
                <4>2. (t + 1) * g <= tp * g
                    BY <1>1, <1>3, <4>1, TimesOrder
                <4>3. (t + 1) * g = b + g
                    BY <1>1, <4>1, SMT
                <4>. HIDE DEF b
                <4>. QED
                    BY <1>1, <1>3, <3>2, <4>2, <4>3
            <3>. QED
                BY <3>1, <3>2, <3>3 DEF Fits
        <2>5. Within(x, z, SeqLen, g, a, b)
            BY <2>2, <2>3 DEF Within
        <2>6. t * (g * HeadDim) = b * HeadDim /\ a \in Nat /\ b \in Nat
            BY <2>3, <2>4 DEF Fits
        <2>. HIDE DEF x, b, o
        <2>7. o \in Matrix(SeqLen, g * HeadDim)
            BY <1>1, <1>3, <2>1, AttendIs DEF o
        <2>8. \A n \in 1 .. SeqLen : \A i \in 1 .. g * HeadDim :
                  o[n][i] = TotalOn(SeenTerms(x, n, HeadOf(i), InHead(i)), Seen(x, n))
            BY <1>1, <1>3, <2>1, AttendIs DEF o
        <2>9. ASSUME NEW n \in 1 .. SeqLen, NEW i \in 1 .. g * HeadDim
              PROVE  o[n][i] = y[a + n][b * HeadDim + i]
            <3>. DEFINE h == HeadOf(i)
                        e == InHead(i)
                        f == SeenTerms(x, n, h, e)
                        j == a + n
                        w == SeenTerms(z, j, b + h, e)
            <3>1. h \in 1 .. g /\ e \in 1 .. HeadDim
                BY <1>1, HeadOfIs
            <3>2. HeadOf(b * HeadDim + i) = b + h /\ InHead(b * HeadDim + i) = e
                BY <1>1, <2>6, HeadOfIs
            <3>3. j \in 1 .. m /\ b + h \in 1 .. Heads
                BY <2>4, <3>1 DEF Fits
            <3>4. b * HeadDim + i \in 1 .. Embd
                BY <1>1, <1>3, <2>6, SliceIndex
            <3>5. o[n][i] = TotalOn(f, Seen(x, n))
                BY <2>8
            <3>6. y[j][b * HeadDim + i] = TotalOn(w, Seen(z, j))
                BY <1>7, <3>2, <3>3, <3>4
            <3>7. Seen(x, n) = 1 .. n /\ Seen(z, j) = {a + p : p \in 1 .. n}
                BY <2>6, SeenIs, SeenFirst
            <3>. HIDE DEF h, e, a
            <3>8. ASSUME NEW p \in 1 .. n
                  PROVE  w[a + p] \in Int /\ f[p] = w[a + p]
                <4>1. p \in 1 .. SeqLen /\ a + p \in 1 .. j
                    BY <1>3, <2>6
                <4>2. Score(x, n, p, h) = Score(z, a + n, a + p, b + h)
                    BY <1>1, <1>3, <1>4, <2>1, <2>4, <2>5, <3>1, <4>1, ScoreWithin
                <4>3. Part(x, p, h, 2)[e] = Part(z, a + p, b + h, 2)[e]
                    <5>1. 2 \in 0 .. 2
                        OBVIOUS
                    <5>. QED
                        BY <1>1, <1>3, <1>4, <2>1, <2>4, <2>5, <3>1, <4>1, <5>1, PartWithin
                <4>4. f[p] = Score(x, n, p, h) * Part(x, p, h, 2)[e]
                    BY DEF SeenTerms
                <4>5. w[a + p] = Score(z, j, a + p, b + h) * Part(z, a + p, b + h, 2)[e]
                    BY <4>1 DEF SeenTerms
                <4>. DEFINE q == a + p
                            hh == b + h
                <4>. HIDE DEF q, hh, j
                <4>6. SeenTerms(z, j, hh, e)[q] \in Int
                    BY <1>3, <1>4, <3>1, <3>3, <4>1, SeenTermsInt DEF q, hh
                <4>. QED
                    BY <4>2, <4>3, <4>4, <4>5, <4>6 DEF q, hh, j
            <3>9. TotalOn(f, 1 .. n) = TotalOn(w, {a + p : p \in 1 .. n})
                <4>. DEFINE B == 1 .. n
                            A == {a + p : p \in B}
                            bij == [p \in B |-> a + p]
                <4>1. IsFiniteSet(B)
                    BY FS_Interval
                <4>2. IsFiniteSet(A)
                    <5>1. j \in Nat
                        BY <3>3
                    <5>2. IsFiniteSet(Seen(z, j))
                        BY <5>1, SeenFinite
                    <5>. QED
                        BY <3>7, <5>2
                <4>3. \A p, q \in B : bij[p] = bij[q] => p = q
                    BY <2>6
                <4>4. A = {bij[p] : p \in B}
                    OBVIOUS
                <4>5. \A p \in B : w[bij[p]] \in Int /\ f[p] = w[bij[p]]
                    BY <3>8
                <4>. HIDE DEF A, B, bij, f, w
                <4>6. TotalOn(f, B) = TotalOn(w, A)
                    BY <4>1, <4>2, <4>3, <4>4, <4>5, TotalImage
                <4>. QED
                    BY <4>6 DEF A, B
            <3>. QED
                BY <3>5, <3>6, <3>7, <3>9
        <2>. QED
            BY <2>1, <2>6, <2>7, <2>9
    <1>9. y \in Tokens(c, Embd) /\ SliceAre(c, u, y, Embd)
        BY <1>1, <1>6, <1>8 DEF Tokens, SliceAre, m
    <1>10. SliceIn(c, u, y, Embd)
        BY <1>1, <1>3, <1>9, SliceEq
    <1>. QED
        BY <1>10 DEF y

\* The rows of a batch, one sequence after the other.
OneByOne(n, f) == FlattenSeq([i \in 1 .. n |-> f[i - 1]])
RowByRow(s, f, dp) == \A r \in 0 .. dp - 1 : \A n \in 1 .. SeqLen : s[r * SeqLen + n] = f[r][n]

LEMMA BatchRows ==
    ASSUME NEW c \in Configs, NEW S, NEW f \in [0 .. c.dp - 1 -> [1 .. SeqLen -> S]]
    PROVE  /\ HasLength(OneByOne(c.dp, f), c.dp * SeqLen)
           /\ RowByRow(OneByOne(c.dp, f), f, c.dp)
    <1>. DEFINE dp == c.dp
                m == dp * SeqLen
                s == [j \in 1 .. m |-> f[(j - 1) \div SeqLen][PosOf(j)]]
                h == [i \in 1 .. dp |-> f[i - 1]]
    <1>1. dp \in Nat \ {0} /\ SeqLen \in Nat \ {0} /\ m \in Nat
        BY ConfigIs
    <1>2. ASSUME NEW r \in 0 .. dp - 1
          PROVE  Piece(s, SeqLen, r) = f[r] /\ \A n \in 1 .. SeqLen : s[r * SeqLen + n] = f[r][n]
        <2>1. r \in Nat
            BY <1>1
        <2>2. ASSUME NEW n \in 1 .. SeqLen
              PROVE  s[r * SeqLen + n] = f[r][n]
            <3>. DEFINE j == r * SeqLen + n
                        a == r * SeqLen
            <3>1. j \in 1 .. m
                BY ReplicaRow
            <3>2. PosOf(j) = n
                BY <2>1, PosOfToken
            <3>3. (j - 1) \div SeqLen = r
                <4>. DEFINE l == SeqLen
                <4>1. l \in Nat \ {0} /\ n \in 1 .. l /\ a \in Nat
                    BY <1>1, <2>1, TimesNat
                <4>2. l * r = a
                    BY <1>1, <2>1, SMT
                <4>. HIDE DEF l
                <4>3. n - 1 \in 0 .. l - 1
                    BY <4>1
                <4>4. (l * r + (n - 1)) \div l = r
                    BY <2>1, <4>1, <4>3, DivUnique
                <4>. HIDE DEF a
                <4>5. (a + n) - 1 = a + (n - 1)
                    BY <4>1
                <4>. QED
                    BY <4>2, <4>4, <4>5 DEF l, a
            <3>. HIDE DEF j
            <3>. QED
                BY <3>1, <3>2, <3>3 DEF j
        <2>. HIDE DEF s
        <2>3. f[r] = [n \in 1 .. SeqLen |-> f[r][n]]
            OBVIOUS
        <2>4. Piece(s, SeqLen, r) = f[r]
            BY <2>2, <2>3 DEF Piece
        <2>. QED
            BY <2>2, <2>4
    <1>3. HasLength(s, m) /\ HasLength(h, dp)
        BY DEF HasLength
    <1>4. \A i \in 1 .. dp : h[i] = Piece(s, SeqLen, i - 1)
        <2>1. \A i \in 1 .. dp : i - 1 \in 0 .. dp - 1
            BY <1>1
        <2>2. \A i \in 1 .. dp : h[i] = f[i - 1]
            OBVIOUS
        <2>. HIDE DEF s, h
        <2>. QED
            BY <1>2, <2>1, <2>2
    <1>5. m = dp * SeqLen
        OBVIOUS
    <1>. HIDE DEF s, h, m, dp
    <1>6. FlattenSeq(h) = s
        BY <1>1, <1>3, <1>4, <1>5, FlattenPieces
    <1>. QED
        BY <1>2, <1>3, <1>6 DEF h, m, dp, OneByOne, RowByRow

\* The tokens and targets of the devices.
LEMMA SamplesAre ==
    ASSUME Loaded, NEW r \in DpRanks
    PROVE  batch[r].ids \in [1 .. SeqLen -> 0 .. Vocab - 1] /\ batch[r].targets \in [1 .. SeqLen -> 0 .. Vocab - 1]
    BY SamplesAssumption DEF Loaded, DpRanks

LEMMA FlattenOnce ==
    ASSUME NEW S, NEW s \in [1 .. SeqLen -> S]
    PROVE  FlattenSeq([i \in 1 .. 1 |-> s]) = s
    <1>1. SeqLen \in Nat /\ 1 \in Nat /\ SeqLen = 1 * SeqLen
        BY SizesAssumption
    <1>. DEFINE f == [i \in 1 .. 1 |-> s]
    <1>2. HasLength(s, SeqLen) /\ HasLength(f, 1)
        BY DEF HasLength
    <1>3. \A i \in 1 .. 1 : f[i] = Piece(s, SeqLen, i - 1)
        <2>1. \A n \in 1 .. SeqLen : 0 * SeqLen + n = n
            BY <1>1
        <2>2. s = [n \in 1 .. SeqLen |-> s[n]]
            OBVIOUS
        <2>3. Piece(s, SeqLen, 0) = s
            BY <2>1, <2>2 DEF Piece
        <2>4. \A i \in 1 .. 1 : i - 1 = 0
            OBVIOUS
        <2>. QED
            BY <2>3, <2>4
    <1>. HIDE DEF f
    <1>4. FlattenSeq(f) = s
        BY <1>1, <1>2, <1>3, FlattenPieces
    <1>. QED
        BY <1>4 DEF f

LEMMA TokensOfMesh ==
    ASSUME Loaded, NEW r \in DpRanks, NEW t \in TpRanks
    PROVE  IdsOf(MeshAt(r, t)) = batch[r].ids /\ TargetsOf(MeshAt(r, t)) = batch[r].targets
    <1>1. MySamples(MeshAt(r, t)) = <<batch[r]>>
        BY MeshIs DEF MySamples
    <1>2. IdsOf(MeshAt(r, t)) = FlattenSeq([i \in 1 .. 1 |-> batch[r].ids])
        <2>1. [i \in DOMAIN <<batch[r]>> |-> <<batch[r]>>[i].ids] = [i \in 1 .. 1 |-> batch[r].ids]
            OBVIOUS
        <2>. QED
            BY <1>1, <2>1 DEF IdsOf
    <1>3. TargetsOf(MeshAt(r, t)) = FlattenSeq([i \in 1 .. 1 |-> batch[r].targets])
        <2>1. [i \in DOMAIN <<batch[r]>> |-> <<batch[r]>>[i].targets] = [i \in 1 .. 1 |-> batch[r].targets]
            OBVIOUS
        <2>. QED
            BY <1>1, <2>1 DEF TargetsOf
    <1>4. batch[r].ids \in [1 .. SeqLen -> 0 .. Vocab - 1] /\ batch[r].targets \in [1 .. SeqLen -> 0 .. Vocab - 1]
        BY SamplesAre
    <1>. QED
        BY <1>2, <1>3, <1>4, FlattenOnce

LEMMA TokensOfSingle ==
    ASSUME Loaded
    PROVE  /\ IdsOf(Single) \in [1 .. config.dp * SeqLen -> 0 .. Vocab - 1]
           /\ TargetsOf(Single) \in [1 .. config.dp * SeqLen -> 0 .. Vocab - 1]
           /\ \A r \in DpRanks : \A n \in 1 .. SeqLen :
                 /\ IdsOf(Single)[r * SeqLen + n] = batch[r].ids[n]
                 /\ TargetsOf(Single)[r * SeqLen + n] = batch[r].targets[n]
    <1>. DEFINE dp == config.dp
                m == dp * SeqLen
                V == 0 .. Vocab - 1
                ids == [r \in 0 .. dp - 1 |-> batch[r].ids]
                targets == [r \in 0 .. dp - 1 |-> batch[r].targets]
    <1>1. config \in Configs /\ dp \in Nat \ {0} /\ SeqLen \in Nat \ {0}
        BY ConfigIs DEF Loaded
    <1>2. ids \in [0 .. dp - 1 -> [1 .. SeqLen -> V]] /\ targets \in [0 .. dp - 1 -> [1 .. SeqLen -> V]]
        BY SamplesAre DEF DpRanks
    <1>3. MySamples(Single) = [i \in 1 .. dp |-> batch[i - 1]]
        BY DEF MySamples
    <1>4. IdsOf(Single) = FlattenSeq([i \in 1 .. dp |-> ids[i - 1]])
        <2>1. [i \in 1 .. dp |-> batch[i - 1].ids] = [i \in 1 .. dp |-> ids[i - 1]]
            BY <1>1
        <2>. QED
            BY <1>3, <2>1 DEF IdsOf
    <1>5. TargetsOf(Single) = FlattenSeq([i \in 1 .. dp |-> targets[i - 1]])
        <2>1. [i \in 1 .. dp |-> batch[i - 1].targets] = [i \in 1 .. dp |-> targets[i - 1]]
            BY <1>1
        <2>. QED
            BY <1>3, <2>1 DEF TargetsOf
    <1>6. HasLength(IdsOf(Single), m) /\ \A r \in 0 .. dp - 1 : \A n \in 1 .. SeqLen :
              IdsOf(Single)[r * SeqLen + n] = ids[r][n]
        <2>. DEFINE c == config
        <2>1. c \in Configs /\ ids \in [0 .. c.dp - 1 -> [1 .. SeqLen -> V]]
            BY <1>1, <1>2
        <2>2. IdsOf(Single) = OneByOne(c.dp, ids)
            BY <1>4 DEF OneByOne
        <2>. HIDE DEF ids, V, c
        <2>3. HasLength(OneByOne(c.dp, ids), c.dp * SeqLen)
            BY <2>1, BatchRows
        <2>4. RowByRow(OneByOne(c.dp, ids), ids, c.dp)
            BY <2>1, BatchRows
        <2>5. HasLength(IdsOf(Single), m)
            BY <2>2, <2>3 DEF c
        <2>6. \A r \in 0 .. dp - 1 : \A n \in 1 .. SeqLen : IdsOf(Single)[r * SeqLen + n] = ids[r][n]
            BY <2>2, <2>4 DEF c, RowByRow
        <2>. QED
            BY <2>5, <2>6
    <1>7. HasLength(TargetsOf(Single), m) /\ \A r \in 0 .. dp - 1 : \A n \in 1 .. SeqLen :
              TargetsOf(Single)[r * SeqLen + n] = targets[r][n]
        <2>. DEFINE c == config
        <2>1. c \in Configs /\ targets \in [0 .. c.dp - 1 -> [1 .. SeqLen -> V]]
            BY <1>1, <1>2
        <2>2. TargetsOf(Single) = OneByOne(c.dp, targets)
            BY <1>5 DEF OneByOne
        <2>. HIDE DEF targets, V, c
        <2>3. HasLength(OneByOne(c.dp, targets), c.dp * SeqLen)
            BY <2>1, BatchRows
        <2>4. RowByRow(OneByOne(c.dp, targets), targets, c.dp)
            BY <2>1, BatchRows
        <2>5. HasLength(TargetsOf(Single), m)
            BY <2>2, <2>3 DEF c
        <2>6. \A r \in 0 .. dp - 1 : \A n \in 1 .. SeqLen : TargetsOf(Single)[r * SeqLen + n] = targets[r][n]
            BY <2>2, <2>4 DEF c, RowByRow
        <2>. QED
            BY <2>5, <2>6
    <1>8. ASSUME NEW j \in 1 .. m
          PROVE  \E r \in 0 .. dp - 1 : \E n \in 1 .. SeqLen : j = r * SeqLen + n
        <2>. DEFINE l == SeqLen
                    a == j - 1
                    q == a \div l
                    s == a % l
        <2>1. a \in Nat /\ l \in Nat \ {0} /\ j = a + 1 /\ m = dp * l /\ a < m
            BY <1>1, ConfigIs
        <2>. HIDE DEF l, a, m
        <2>2. q \in Nat /\ s \in 0 .. l - 1 /\ a = l * q + s
            BY <2>1, Division
        <2>. HIDE DEF q, s
        <2>3. q < dp
            <3>1. ASSUME q >= dp
                  PROVE  FALSE
                <4>1. dp * l <= q * l /\ q * l \in Nat /\ l * q = q * l
                    BY <1>1, <2>1, <2>2, <3>1, TimesOrder, TimesNat, SMT
                <4>. DEFINE e == q * l
                <4>. HIDE DEF e
                <4>2. m <= e /\ a = e + s /\ e \in Nat
                    BY <2>1, <2>2, <4>1 DEF e
                <4>3. m \in Nat
                    BY <1>1, ConfigIs DEF m
                <4>. QED
                    BY <2>1, <2>2, <4>2, <4>3
            <3>. QED
                BY <1>1, <2>2, <3>1
        <2>4. l * q = q * l /\ q * l \in Nat
            BY <2>1, <2>2, SMT
        <2>5. j = q * l + (s + 1)
            <3>. DEFINE e == q * l
            <3>. HIDE DEF e
            <3>1. a = e + s /\ e \in Nat
                BY <2>2, <2>4 DEF e
            <3>2. j = e + (s + 1)
                BY <2>1, <2>2, <3>1
            <3>. QED
                BY <3>2 DEF e
        <2>6. q \in 0 .. dp - 1 /\ s + 1 \in 1 .. l
            BY <1>1, <2>1, <2>2, <2>3
        <2>. QED
            BY <2>5, <2>6 DEF l
    <1>9. ASSUME NEW j \in 1 .. m
          PROVE  IdsOf(Single)[j] \in V /\ TargetsOf(Single)[j] \in V
        <2>1. PICK r \in 0 .. dp - 1 : \E n \in 1 .. SeqLen : j = r * SeqLen + n
            BY <1>8
        <2>2. PICK n \in 1 .. SeqLen : j = r * SeqLen + n
            BY <2>1
        <2>3. IdsOf(Single)[j] = ids[r][n] /\ TargetsOf(Single)[j] = targets[r][n]
            BY <1>6, <1>7, <2>2
        <2>. HIDE DEF ids, targets, V
        <2>. QED
            BY <1>2, <2>3
    <1>10. IdsOf(Single) \in [1 .. m -> V] /\ TargetsOf(Single) \in [1 .. m -> V]
        <2>1. IdsOf(Single) = [j \in 1 .. m |-> IdsOf(Single)[j]] /\ TargetsOf(Single) = [j \in 1 .. m |-> TargetsOf(Single)[j]]
            BY <1>6, <1>7 DEF HasLength
        <2>. HIDE DEF m, V
        <2>2. [j \in 1 .. m |-> IdsOf(Single)[j]] \in [1 .. m -> V] /\ [j \in 1 .. m |-> TargetsOf(Single)[j]] \in [1 .. m -> V]
            BY <1>9
        <2>. QED
            BY <2>1, <2>2
    <1>. QED
        BY <1>6, <1>7, <1>10 DEF DpRanks

\* Which rank owns an id, and where.
VocabShare(c) == Vocab \div c.tp
Owner(c, id) == id \div VocabShare(c)

LEMMA OwnerIs ==
    ASSUME Loaded, NEW r \in DpRanks, NEW t \in TpRanks, NEW id \in 0 .. Vocab - 1
    PROVE  /\ Owner(config, id) \in TpRanks
           /\ Owns(MeshAt(r, t), id) <=> t = Owner(config, id)
           /\ t = Owner(config, id) =>
                 /\ LocalIndex(MeshAt(r, t), id) \in 1 .. VocabShare(config)
                 /\ t * VocabShare(config) + LocalIndex(MeshAt(r, t), id) = id + 1
    <1>. DEFINE tp == config.tp
                size == VocabShare(config)
                d == MeshAt(r, t)
                q == id \div size
                s == id % size
                e == t * size
    <1>1. config \in Configs /\ tp \in Nat \ {0} /\ Vocab % tp = 0 /\ Vocab \in Nat \ {0} /\ id \in Nat /\ t \in Nat /\ t < tp
        BY ConfigsAssumption, EmbdIs DEF Loaded, TpRanks
    <1>2. size \in Nat /\ Vocab = tp * size
        <2>1. Vocab \div tp \in Nat /\ Vocab = tp * (Vocab \div tp) + (Vocab % tp)
            <3>. HIDE DEF tp
            <3>. QED
                BY <1>1, Division
        <2>2. tp * (Vocab \div tp) \in Nat
            BY <1>1, <2>1, TimesNat
        <2>. QED
            BY <1>1, <2>1, <2>2 DEF VocabShare
    <1>3. PerPartition(d) = size /\ VocabStart(d) = e
        BY MeshIs DEF PerPartition, VocabStart, VocabShare
    <1>. HIDE DEF tp, size
    <1>4. size # 0
        BY <1>1, <1>2, SMT
    <1>5. e \in Nat /\ q \in Nat /\ s \in 0 .. size - 1 /\ id = size * q + s
        <2>1. e \in Nat
            BY <1>1, <1>2, TimesNat
        <2>. HIDE DEF e
        <2>. QED
            BY <1>1, <1>2, <1>4, <2>1, Division
    <1>. HIDE DEF q, s
    <1>6. q < tp
        <2>1. ASSUME q >= tp
              PROVE  FALSE
            <3>1. tp * size <= q * size /\ q * size \in Nat /\ size * q = q * size
                BY <1>1, <1>2, <1>5, <2>1, TimesOrder, TimesNat, SMT
            <3>. DEFINE f == q * size
            <3>. HIDE DEF f
            <3>2. Vocab <= f /\ id = f + s /\ f \in Nat
                BY <1>2, <1>5, <3>1 DEF f
            <3>. QED
                BY <1>1, <1>5, <3>2
        <2>. QED
            BY <1>1, <1>5, <2>1
    <1>7. t = q => id >= e /\ id < e + size /\ id - e = s
        <2>1. t = q => e = size * q
            BY <1>1, <1>2, <1>5, SMT
        <2>. HIDE DEF e
        <2>. QED
            BY <1>1, <1>2, <1>5, <2>1
    <1>8. id >= e /\ id < e + size => t = q
        <2>. SUFFICES ASSUME id >= e, id < e + size
                      PROVE  t = q
            OBVIOUS
        <2>1. id - e \in 0 .. size - 1 /\ id = e + (id - e)
            BY <1>1, <1>2, <1>5
        <2>2. (size * t + (id - e)) \div size = t
            BY <1>1, <1>2, <1>4, <2>1, DivUnique
        <2>3. size * t = e
            BY <1>1, <1>2, SMT
        <2>4. (e + (id - e)) \div size = t
            BY <2>2, <2>3
        <2>. QED
            BY <2>1, <2>4 DEF q
    <1>. HIDE DEF e, d
    <1>9. Owns(d, id) <=> t = q
        BY <1>3, <1>7, <1>8 DEF Owns
    <1>10. t = q => LocalIndex(d, id) = 1 + s
        BY <1>1, <1>2, <1>3, <1>5, <1>7 DEF LocalIndex
    <1>11. t = q => 1 + s \in 1 .. size /\ e + (1 + s) = id + 1
        BY <1>1, <1>2, <1>5, <1>7
    <1>12. q \in TpRanks /\ q = Owner(config, id)
        BY <1>1, <1>5, <1>6 DEF TpRanks, Owner, q, size, tp
    <1>. QED
        BY <1>9, <1>10, <1>11, <1>12 DEF e, d, size

\* The code behaviour: each rank of a tensor group looks up the tokens it owns
\* and takes nothing for the others: together they have every token's row.
LEMMA LookupParts ==
    ASSUME Loaded, NEW u, \A d \in Devices : u[d] = Lookup(d)
    PROVE  PartialIn(config, u, u[Single], Embd)
    <1>. DEFINE c == config
                tp == config.tp
                m == config.dp * SeqLen
                size == VocabShare(config)
                wte == FullWeight["wte"]
                z == u[Single]
                ids == IdsOf(Single)
                V == 0 .. Vocab - 1
    <1>1. /\ c \in Configs /\ tp \in Nat \ {0} /\ m \in Nat /\ SeqLen \in Nat /\ Vocab % tp = 0
          /\ Embd \in Nat /\ Vocab \in Nat /\ 0 \in Nat
        BY ConfigIs, ConfigsAssumption, EmbdIs DEF Loaded
    <1>2. wte \in Matrix(Vocab, Embd)
        BY Shapes
    <1>3. ids \in [1 .. m -> V]
        BY TokensOfSingle
    <1>4. \A i \in V : wte[i + 1] \in [1 .. Embd -> Num]
        BY <1>1, <1>2 DEF Matrix
    <1>5. z = [n \in 1 .. m |-> wte[ids[n] + 1]]
        <2>1. weight[Single]["wte"] = wte
            BY WeightsOfSingle
        <2>2. z = Lookup(Single)
            BY SingleIs
        <2>3. DOMAIN ids = 1 .. m
            BY <1>3
        <2>4. \A id : LookupRow(Single, id) = wte[id + 1]
            BY <2>1, SingleIs DEF LookupRow
        <2>. QED
            BY <2>2, <2>3, <2>4 DEF Lookup
    <1>. HIDE DEF z
    <1>6. z \in Tokens(c, Embd)
        <2>. HIDE DEF m, wte, ids, V
        <2>1. z \in Matrix(m, Embd)
            BY <1>3, <1>4, <1>5 DEF Matrix
        <2>. QED
            BY <2>1 DEF Tokens, m
    <1>7. ASSUME NEW r \in DpRanks
          PROVE  /\ PartsOf(c, u, r) \in [0 .. tp - 1 -> Matrix(SeqLen, Embd)]
                 /\ SumOver(PartsOf(c, u, r)) = RowsOfReplica(z, r)
        <2>. DEFINE ts == PartsOf(c, u, r)
                    x == RowsOfReplica(z, r)
                    mine == batch[r].ids
        <2>1. r \in 0 .. c.dp - 1 /\ mine \in [1 .. SeqLen -> V]
            BY SamplesAre DEF DpRanks
        <2>2. x \in Matrix(SeqLen, Embd) /\ x = Piece(z, SeqLen, r)
            BY <1>1, <1>6, <2>1, ReplicaIs
        <2>3. ASSUME NEW n \in 1 .. SeqLen
              PROVE  x[n] = wte[mine[n] + 1]
            <3>. DEFINE j == r * SeqLen + n
            <3>1. j \in 1 .. m /\ ids[j] = mine[n]
                BY <1>1, <2>1, ReplicaRow, TokensOfSingle
            <3>2. x[n] = z[j]
                BY <2>2 DEF Piece
            <3>. HIDE DEF j, ids, x, wte, mine
            <3>. QED
                BY <1>5, <3>1, <3>2
        <2>4. ASSUME NEW t \in TpRanks
              PROVE  ts[t] = [n \in 1 .. SeqLen |-> LookupRow(MeshAt(r, t), mine[n])]
            <3>1. ts[t] = Lookup(MeshAt(r, t))
                BY MeshIs DEF PartsOf, TpRanks
            <3>2. IdsOf(MeshAt(r, t)) = mine
                BY TokensOfMesh
            <3>3. DOMAIN mine = 1 .. SeqLen
                BY <2>1
            <3>. QED
                BY <3>1, <3>2, <3>3 DEF Lookup
        <2>5. CASE tp = 1
            <3>1. 0 \in TpRanks /\ TpRanks = 0 .. 0
                BY <2>5 DEF TpRanks
            <3>2. weight[MeshAt(r, 0)]["wte"] = wte
                <4>1. weight[MeshAt(r, 0)]["wte"] = Rows(wte, 1, 0)
                    BY <2>5, <3>1, WeightsOfMesh
                <4>2. Rows(wte, 1, 0) = wte
                    BY <1>1, <1>2, RowsOfOne
                <4>. QED
                    BY <4>1, <4>2
            <3>3. \A id : LookupRow(MeshAt(r, 0), id) = wte[id + 1]
                BY <2>5, <3>1, <3>2, MeshIs DEF LookupRow
            <3>4. ts[0] = [n \in 1 .. SeqLen |-> wte[mine[n] + 1]]
                <4>. HIDE DEF ts, mine, wte
                <4>1. ts[0] = [n \in 1 .. SeqLen |-> LookupRow(MeshAt(r, 0), mine[n])]
                    BY <2>4, <3>1
                <4>. QED
                    BY <3>3, <4>1
            <3>5. x = [n \in 1 .. SeqLen |-> x[n]]
                BY <2>2 DEF Matrix
            <3>. HIDE DEF x, mine, wte
            <3>6. x = ts[0]
                BY <2>3, <3>4, <3>5
            <3>7. ts \in [0 .. 0 -> Matrix(SeqLen, Embd)]
                <4>1. ts = [t \in 0 .. 0 |-> ts[t]]
                    BY <2>5 DEF PartsOf
                <4>. HIDE DEF ts
                <4>2. \A t \in 0 .. 0 : t = 0
                    BY SMT
                <4>3. \A t \in 0 .. 0 : ts[t] \in Matrix(SeqLen, Embd)
                    BY <2>2, <3>6, <4>2
                <4>. QED
                    BY <4>1, <4>3
            <3>. HIDE DEF ts
            <3>8. SumOver(ts) = ts[0]
                BY <1>1, <3>7, SumOfOne
            <3>. QED
                BY <2>5, <3>6, <3>7, <3>8 DEF ts, x
        <2>6. CASE tp # 1
            <3>1. size \in Nat /\ Vocab \div tp = size
                <4>1. 0 \in 0 .. tp - 1
                    BY <1>1
                <4>. HIDE DEF tp
                <4>2. Divides(Vocab, tp, 0)
                    BY <1>1, <4>1, Pieces
                <4>3. Vocab \div tp \in Nat
                    BY <4>2 DEF Divides
                <4>4. size = Vocab \div tp
                    BY DEF VocabShare, tp
                <4>. QED
                    BY <4>3, <4>4
            <3>2. ASSUME NEW t \in TpRanks, NEW n \in 1 .. SeqLen
                  PROVE  ts[t][n] = IF t = Owner(c, mine[n]) THEN wte[mine[n] + 1] ELSE Zeros(Embd)
                <4>. DEFINE d == MeshAt(r, t)
                            id == mine[n]
                            w == Rows(wte, tp, t)
                <4>1. id \in V /\ ts[t][n] = LookupRow(d, id)
                    BY <2>1, <2>4
                <4>2. World(d) # 1 /\ weight[d]["wte"] = w
                    BY <2>6, MeshIs, WeightsOfMesh
                <4>3. t \in 0 .. tp - 1
                    BY DEF TpRanks
                <4>4. w = Piece(wte, size, t)
                    <5>. HIDE DEF tp, wte, size
                    <5>1. w = Piece(wte, Vocab \div tp, t)
                        BY <1>1, <1>2, <4>3, RowsAre
                    <5>. QED
                        BY <3>1, <5>1
                <4>. HIDE DEF id, mine
                <4>5. Owns(d, id) <=> t = Owner(c, id)
                    BY <4>1, OwnerIs
                <4>6. CASE t = Owner(c, id)
                    <5>1. LocalIndex(d, id) \in 1 .. size /\ t * size + LocalIndex(d, id) = id + 1
                        BY <4>1, <4>6, OwnerIs
                    <5>2. LookupRow(d, id) = w[LocalIndex(d, id)]
                        BY <4>2, <4>5, <4>6 DEF LookupRow
                    <5>. DEFINE i == LocalIndex(d, id)
                    <5>. HIDE DEF i, w, wte, size, d
                    <5>3. w[i] = wte[t * size + i]
                        BY <4>4, <5>1 DEF Piece, i
                    <5>. QED
                        BY <4>1, <4>6, <5>1, <5>2, <5>3 DEF i, id
                <4>7. CASE t # Owner(c, id)
                    BY <4>1, <4>2, <4>5, <4>7 DEF LookupRow, id
                <4>. QED
                    BY <4>6, <4>7 DEF id
            <3>3. ASSUME NEW t \in TpRanks
                  PROVE  ts[t] \in Matrix(SeqLen, Embd)
                <4>1. ASSUME NEW n \in 1 .. SeqLen
                      PROVE  ts[t][n] \in [1 .. Embd -> Num]
                    <5>1. Zeros(Embd) \in [1 .. Embd -> Num]
                        BY DEF Zeros, Num, P
                    <5>2. mine[n] \in V
                        BY <2>1
                    <5>. HIDE DEF mine, ts, wte
                    <5>. QED
                        BY <1>4, <3>2, <5>1, <5>2
                <4>2. ts[t] = [n \in 1 .. SeqLen |-> ts[t][n]]
                    BY <2>4
                <4>. HIDE DEF ts
                <4>. QED
                    BY <4>1, <4>2 DEF Matrix
            <3>4. ts \in [0 .. tp - 1 -> Matrix(SeqLen, Embd)]
                <4>1. ts = [t \in 0 .. tp - 1 |-> ts[t]]
                    BY DEF PartsOf
                <4>. HIDE DEF ts
                <4>. QED
                    BY <3>3, <4>1 DEF TpRanks
            <3>5. ASSUME NEW n \in 1 .. SeqLen, NEW i \in 1 .. Embd
                  PROVE  TotalOn(AtEach(ts, tp, n, i), 0 .. tp - 1) = x[n][i]
                <4>. DEFINE f == AtEach(ts, tp, n, i)
                            id == mine[n]
                            o == Owner(c, id)
                <4>1. id \in V
                    BY <2>1
                <4>2. o \in 0 .. tp - 1
                    <5>1. 0 \in TpRanks
                        BY <1>1 DEF TpRanks
                    <5>. HIDE DEF id
                    <5>. QED
                        BY <4>1, <5>1, OwnerIs DEF TpRanks
                <4>3. \A t \in 0 .. tp - 1 : f[t] = ts[t][n][i]
                    BY DEF AtEach
                <4>4. x[n][i] = wte[id + 1][i] /\ x[n][i] \in Num
                    BY <2>2, <2>3 DEF Matrix
                <4>. HIDE DEF f, id, o, ts, x, wte, mine
                <4>5. f[o] = x[n][i]
                    BY <3>2, <4>2, <4>3, <4>4 DEF TpRanks, id, o
                <4>6. \A t \in (0 .. tp - 1) \ {o} : f[t] = 0
                    <5>1. \A t \in (0 .. tp - 1) \ {o} : ts[t][n] = Zeros(Embd)
                        BY <3>2 DEF TpRanks, id, o
                    <5>2. Zeros(Embd)[i] = 0
                        BY DEF Zeros
                    <5>. QED
                        BY <4>3, <5>1, <5>2
                <4>7. x[n][i] \in Int /\ x[n][i] % P = x[n][i]
                    BY <4>4 DEF Num, P
                <4>8. IsFiniteSet(0 .. tp - 1)
                    BY <1>1, FS_Interval
                <4>. HIDE DEF tp
                <4>9. TotalOn(f, 0 .. tp - 1) = f[o] % P
                    BY <4>2, <4>5, <4>6, <4>7, <4>8, TotalOne
                <4>. QED
                    BY <4>5, <4>7, <4>9 DEF f
            <3>6. AddUp(ts, x, tp, SeqLen, Embd)
                BY <2>2, <3>4, <3>5 DEF AddUp
            <3>. HIDE DEF ts, x, tp
            <3>7. SumOver(ts) = x
                BY <1>1, <3>6, SumOverAre
            <3>. QED
                BY <3>4, <3>7 DEF ts, x
        <2>. QED
            BY <2>5, <2>6
    <1>. QED
        BY <1>6, <1>7 DEF PartialIn, DpRanks, z

-----------------------------------------------------------------------------
(* The tape, as a chain of operators. *)

\* How an operator finds the activation held, and how it leaves it: partial
\* sums, the whole activation, the input of a column-parallel layer, slices
\* of queries, keys and values, of attention's result, of the hidden layer,
\* the whole hidden layer, slices of the logits.
Turns ==
    {<<Op("lookup", "wte", "none"), "start", "parts">>,
     <<Plain("reduce"), "parts", "whole">>,
     <<Op("position", "wpe", "none"), "whole", "whole">>,
     <<Op("norm", "ln1", "none"), "whole", "whole">>,
     <<Op("norm", "ln2", "none"), "whole", "whole">>,
     <<Op("norm", "ln_f", "none"), "whole", "whole">>,
     <<Op("bias", "attn_proj_bias", "none"), "whole", "whole">>,
     <<Op("bias", "mlp_proj_bias", "none"), "whole", "whole">>,
     <<Plain("copy"), "whole", "shared">>,
     <<Op("linear", "qkv", "qkv_bias"), "shared", "qkv">>,
     <<Op("linear", "fc", "fc_bias"), "shared", "hidden">>,
     <<Op("linear", "head", "none"), "shared", "logits">>,
     <<Plain("attend"), "qkv", "heads">>,
     <<Op("linear", "attn_proj", "none"), "heads", "parts">>,
     <<Op("linear", "mlp_proj", "none"), "hidden", "parts">>,
     <<Plain("act"), "hidden", "hidden">>,
     <<Plain("act"), "gathered", "gathered">>,
     <<Plain("gather"), "hidden", "gathered">>,
     <<Plain("scatter"), "gathered", "hidden">>,
     <<Plain("loss"), "logits", "end">>}

Operators == {turn[1] : turn \in Turns} \cup {Plain("fork"), Plain("join")}
Held == {"start", "parts", "whole", "shared", "qkv", "heads", "hidden", "gathered", "logits", "end"}
Places == Held \X BOOLEAN

\* An operator between two places of a model: what is held, and whether this
\* is inside a residual branch.
Moves(o, a, b) ==
    \/ a[2] = b[2] /\ <<o, a[1], b[1]>> \in Turns
    \/ o = Plain("fork") /\ a = <<"whole", FALSE>> /\ b = <<"whole", TRUE>>
    \/ o = Plain("join") /\ a = <<"whole", TRUE>> /\ b = <<"whole", FALSE>>

\* The operators that lead from a place to another, through the places of p.
Along(s, p, a, b) ==
    /\ p \in [1 .. Len(s) + 1 -> Places]
    /\ p[1] = a /\ p[Len(s) + 1] = b
    /\ \A i \in 1 .. Len(s) : Moves(s[i], p[i], p[i + 1])
Chain(a, b) == {s \in Seq(Operators) : \E p : Along(s, p, a, b)}

LEMMA MovesOperator ==
    ASSUME NEW o, NEW a, NEW b, Moves(o, a, b)
    PROVE  o \in Operators
    <1>1. ASSUME <<o, a[1], b[1]>> \in Turns
          PROVE  o \in Operators
        <2>1. \E turn \in Turns : o = turn[1]
            BY <1>1
        <2>. QED
            BY <2>1 DEF Operators
    <1>. QED
        BY <1>1 DEF Moves, Operators

LEMMA ChainOne ==
    ASSUME NEW o, NEW a \in Places, NEW b \in Places, Moves(o, a, b)
    PROVE  <<o>> \in Chain(a, b)
    <1>1. o \in Operators
        BY MovesOperator
    <1>. DEFINE s == <<o>>
                p == <<a, b>>
    <1>2. s \in Seq(Operators) /\ Len(s) = 1 /\ s[1] = o
        BY <1>1
    <1>3. p \in [1 .. 2 -> Places] /\ p[1] = a /\ p[2] = b
        OBVIOUS
    <1>. HIDE DEF s, p
    <1>4. Along(s, p, a, b)
        BY <1>2, <1>3 DEF Along
    <1>5. s \in Chain(a, b)
        BY <1>2, <1>4 DEF Chain
    <1>. QED
        BY <1>5 DEF s

LEMMA ChainTwo ==
    ASSUME NEW o, NEW q, NEW a \in Places, NEW b \in Places, NEW c \in Places,
           Moves(o, a, b), Moves(q, b, c)
    PROVE  <<o, q>> \in Chain(a, c)
    <1>1. o \in Operators /\ q \in Operators
        BY MovesOperator
    <1>. DEFINE s == <<o, q>>
                p == <<a, b, c>>
    <1>2. s \in Seq(Operators) /\ Len(s) = 2 /\ s[1] = o /\ s[2] = q
        BY <1>1
    <1>3. p \in [1 .. 3 -> Places] /\ p[1] = a /\ p[2] = b /\ p[3] = c
        OBVIOUS
    <1>. HIDE DEF s, p
    <1>4. Along(s, p, a, c)
        <2>1. \A i \in 1 .. 2 : i = 1 \/ i = 2
            OBVIOUS
        <2>. QED
            BY <1>2, <1>3, <2>1 DEF Along
    <1>5. s \in Chain(a, c)
        BY <1>2, <1>4 DEF Chain
    <1>. QED
        BY <1>5 DEF s

\* Layers one after the other.
LEMMA ChainJoined ==
    ASSUME NEW a, NEW b, NEW c, NEW s \in Chain(a, b), NEW u \in Chain(b, c)
    PROVE  s \o u \in Chain(a, c)
    <1>. DEFINE n == Len(s)
                m == Len(u)
                w == s \o u
    <1>1. s \in Seq(Operators) /\ u \in Seq(Operators)
        BY DEF Chain
    <1>2. PICK p : Along(s, p, a, b)
        BY DEF Chain
    <1>3. PICK q : Along(u, q, b, c)
        BY DEF Chain
    <1>4. /\ n \in Nat /\ m \in Nat /\ w \in Seq(Operators) /\ Len(w) = n + m
          /\ \A i \in 1 .. n : w[i] = s[i]
          /\ \A i \in 1 .. m : w[n + i] = u[i]
        BY <1>1
    <1>5. /\ p \in [1 .. n + 1 -> Places] /\ p[1] = a /\ p[n + 1] = b
          /\ \A i \in 1 .. n : Moves(s[i], p[i], p[i + 1])
        BY <1>2 DEF Along
    <1>6. /\ q \in [1 .. m + 1 -> Places] /\ q[1] = b /\ q[m + 1] = c
          /\ \A i \in 1 .. m : Moves(u[i], q[i], q[i + 1])
        BY <1>3 DEF Along
    <1>. DEFINE x == [i \in 1 .. n + m + 1 |-> IF i <= n THEN p[i] ELSE q[i - n]]
    <1>. HIDE DEF n, m, w
    <1>7. x \in [1 .. n + m + 1 -> Places] /\ x[n + m + 1] = c
        BY <1>4, <1>5, <1>6
    <1>8. x[1] = a
        BY <1>4, <1>5, <1>6
    <1>9. /\ \A i \in 1 .. n + 1 : x[i] = p[i]
          /\ \A i \in 1 .. m + 1 : x[n + i] = q[i]
        <2>1. ASSUME NEW i \in 1 .. n + 1
              PROVE  x[i] = p[i]
            BY <1>4, <1>5, <1>6
        <2>2. ASSUME NEW i \in 1 .. m + 1
              PROVE  x[n + i] = q[i]
            BY <1>4
        <2>. QED
            BY <2>1, <2>2
    <1>. HIDE DEF x
    <1>10. ASSUME NEW i \in 1 .. n + m
           PROVE  Moves(w[i], x[i], x[i + 1])
        <2>1. CASE i <= n
            <3>1. i \in 1 .. n /\ i \in 1 .. n + 1 /\ i + 1 \in 1 .. n + 1
                BY <1>4, <2>1
            <3>. QED
                BY <1>4, <1>5, <1>9, <3>1
        <2>2. CASE i > n
            <3>. DEFINE j == i - n
            <3>1. j \in 1 .. m /\ j \in 1 .. m + 1 /\ j + 1 \in 1 .. m + 1 /\ n + j = i /\ n + (j + 1) = i + 1
                BY <1>4, <2>2
            <3>. HIDE DEF j
            <3>2. w[n + j] = u[j] /\ x[n + j] = q[j] /\ x[n + (j + 1)] = q[j + 1]
                BY <1>4, <1>9, <3>1
            <3>. QED
                BY <1>6, <3>1, <3>2
        <2>. QED
            BY <1>4, <2>1, <2>2
    <1>11. Along(w, x, a, c)
        BY <1>4, <1>7, <1>8, <1>10 DEF Along
    <1>12. w \in Chain(a, c)
        BY <1>4, <1>11 DEF Chain
    <1>. QED
        BY <1>12 DEF w

\* The layers of the model, as chains.
LEMMA PlacesAre ==
    ASSUME NEW h \in Held, NEW b \in BOOLEAN
    PROVE  <<h, b>> \in Places
    BY DEF Places

LEMMA TurnMoves ==
    ASSUME NEW o, NEW h, NEW k, <<o, h, k>> \in Turns, NEW b \in BOOLEAN
    PROVE  Moves(o, <<h, b>>, <<k, b>>)
    BY DEF Moves

LEMMA ChainThree ==
    ASSUME NEW o, NEW q, NEW l, NEW a \in Places, NEW b \in Places, NEW c \in Places, NEW e \in Places,
           Moves(o, a, b), Moves(q, b, c), Moves(l, c, e)
    PROVE  <<o, q, l>> \in Chain(a, e)
    <1>1. o \in Operators /\ q \in Operators /\ l \in Operators
        BY MovesOperator
    <1>. DEFINE s == <<o, q, l>>
                p == <<a, b, c, e>>
    <1>2. s \in Seq(Operators) /\ Len(s) = 3 /\ s[1] = o /\ s[2] = q /\ s[3] = l
        BY <1>1
    <1>3. p \in [1 .. 4 -> Places] /\ p[1] = a /\ p[2] = b /\ p[3] = c /\ p[4] = e
        OBVIOUS
    <1>. HIDE DEF s, p
    <1>4. Along(s, p, a, e)
        <2>1. \A i \in 1 .. 3 : i = 1 \/ i = 2 \/ i = 3
            OBVIOUS
        <2>. QED
            BY <1>2, <1>3, <2>1 DEF Along
    <1>5. s \in Chain(a, e)
        BY <1>2, <1>4 DEF Chain
    <1>. QED
        BY <1>5 DEF s

LEMMA HeldAre ==
    /\ "start" \in Held /\ "parts" \in Held /\ "whole" \in Held /\ "shared" \in Held /\ "qkv" \in Held
    /\ "heads" \in Held /\ "hidden" \in Held /\ "gathered" \in Held /\ "logits" \in Held /\ "end" \in Held
    BY DEF Held

LEMMA EmbeddingChain == Embedding \in Chain(<<"start", FALSE>>, <<"whole", FALSE>>)
    <1>. DEFINE o == Op("lookup", "wte", "none")
                q == Plain("reduce")
                l == Op("position", "wpe", "none")
    <1>1. <<o, "start", "parts">> \in Turns /\ <<q, "parts", "whole">> \in Turns /\ <<l, "whole", "whole">> \in Turns
        BY DEF Turns
    <1>. HIDE DEF o, q, l
    <1>2. Moves(o, <<"start", FALSE>>, <<"parts", FALSE>>)
        BY <1>1, TurnMoves
    <1>3. Moves(q, <<"parts", FALSE>>, <<"whole", FALSE>>)
        BY <1>1, TurnMoves
    <1>4. Moves(l, <<"whole", FALSE>>, <<"whole", FALSE>>)
        BY <1>1, TurnMoves
    <1>5. <<"start", FALSE>> \in Places /\ <<"parts", FALSE>> \in Places /\ <<"whole", FALSE>> \in Places
        BY HeldAre, PlacesAre
    <1>6. <<o, q, l>> \in Chain(<<"start", FALSE>>, <<"whole", FALSE>>)
        BY <1>2, <1>3, <1>4, <1>5, ChainThree
    <1>. QED
        BY <1>6 DEF o, q, l, Embedding

\* A column-parallel layer that leaves slices as h.
LEMMA ColumnParallelChain ==
    ASSUME NEW name, NEW bias, NEW h \in Held, <<Op("linear", name, bias), "shared", h>> \in Turns, NEW b \in BOOLEAN
    PROVE  ColumnParallel(name, bias) \in Chain(<<"whole", b>>, <<h, b>>)
    <1>. DEFINE o == Plain("copy")
                q == Op("linear", name, bias)
    <1>1. <<o, "whole", "shared">> \in Turns
        BY DEF Turns
    <1>2. <<q, "shared", h>> \in Turns
        OBVIOUS
    <1>. HIDE DEF o, q
    <1>3. Moves(o, <<"whole", b>>, <<"shared", b>>) /\ Moves(q, <<"shared", b>>, <<h, b>>)
        BY <1>1, <1>2, TurnMoves
    <1>4. <<"whole", b>> \in Places /\ <<"shared", b>> \in Places /\ <<h, b>> \in Places
        BY HeldAre, PlacesAre
    <1>5. <<o, q>> \in Chain(<<"whole", b>>, <<h, b>>)
        BY <1>3, <1>4, ChainTwo
    <1>. QED
        BY <1>5 DEF o, q, ColumnParallel

\* A row-parallel layer of slices held as h.
LEMMA RowParallelChain ==
    ASSUME NEW name, NEW bias, NEW h \in Held, <<Op("linear", name, "none"), h, "parts">> \in Turns,
           <<Op("bias", bias, "none"), "whole", "whole">> \in Turns, NEW b \in BOOLEAN
    PROVE  RowParallel(name, bias) \in Chain(<<h, b>>, <<"whole", b>>)
    <1>. DEFINE o == Op("linear", name, "none")
                q == Plain("reduce")
                l == Op("bias", bias, "none")
    <1>1. <<q, "parts", "whole">> \in Turns
        BY DEF Turns
    <1>2. <<o, h, "parts">> \in Turns /\ <<l, "whole", "whole">> \in Turns
        OBVIOUS
    <1>. HIDE DEF o, q, l
    <1>3. /\ Moves(o, <<h, b>>, <<"parts", b>>) /\ Moves(q, <<"parts", b>>, <<"whole", b>>)
          /\ Moves(l, <<"whole", b>>, <<"whole", b>>)
        BY <1>1, <1>2, TurnMoves
    <1>4. <<"whole", b>> \in Places /\ <<"parts", b>> \in Places /\ <<h, b>> \in Places
        BY HeldAre, PlacesAre
    <1>5. <<o, q, l>> \in Chain(<<h, b>>, <<"whole", b>>)
        BY <1>3, <1>4, ChainThree
    <1>. QED
        BY <1>5 DEF o, q, l, RowParallel

\* One operator.
LEMMA TurnChain ==
    ASSUME NEW o, NEW h \in Held, NEW k \in Held, <<o, h, k>> \in Turns, NEW b \in BOOLEAN
    PROVE  <<o>> \in Chain(<<h, b>>, <<k, b>>)
    <1>1. Moves(o, <<h, b>>, <<k, b>>)
        BY TurnMoves
    <1>2. <<h, b>> \in Places /\ <<k, b>> \in Places
        BY PlacesAre
    <1>. QED
        BY <1>1, <1>2, ChainOne

LEMMA AttentionChain == CausalSelfAttention \in Chain(<<"whole", TRUE>>, <<"whole", TRUE>>)
    <1>1. ColumnParallel("qkv", "qkv_bias") \in Chain(<<"whole", TRUE>>, <<"qkv", TRUE>>)
        <2>1. <<Op("linear", "qkv", "qkv_bias"), "shared", "qkv">> \in Turns
            BY DEF Turns
        <2>. QED
            BY <2>1, HeldAre, ColumnParallelChain
    <1>2. <<Plain("attend")>> \in Chain(<<"qkv", TRUE>>, <<"heads", TRUE>>)
        <2>1. <<Plain("attend"), "qkv", "heads">> \in Turns
            BY DEF Turns
        <2>. QED
            BY <2>1, HeldAre, TurnChain
    <1>3. RowParallel("attn_proj", "attn_proj_bias") \in Chain(<<"heads", TRUE>>, <<"whole", TRUE>>)
        <2>1. <<Op("linear", "attn_proj", "none"), "heads", "parts">> \in Turns
            BY DEF Turns
        <2>2. <<Op("bias", "attn_proj_bias", "none"), "whole", "whole">> \in Turns
            BY DEF Turns
        <2>. QED
            BY <2>1, <2>2, HeldAre, RowParallelChain
    <1>. DEFINE x == ColumnParallel("qkv", "qkv_bias")
                y == <<Plain("attend")>>
                w == RowParallel("attn_proj", "attn_proj_bias")
    <1>. HIDE DEF x, y, w
    <1>4. x \o y \in Chain(<<"whole", TRUE>>, <<"heads", TRUE>>)
        BY <1>1, <1>2, ChainJoined DEF x, y
    <1>5. x \o y \o w \in Chain(<<"whole", TRUE>>, <<"whole", TRUE>>)
        BY <1>3, <1>4, ChainJoined DEF w
    <1>. QED
        BY <1>5 DEF x, y, w, CausalSelfAttention

LEMMA MLPChain ==
    ASSUME config.gathered \in BOOLEAN
    PROVE  MLP \in Chain(<<"whole", TRUE>>, <<"whole", TRUE>>)
    <1>. DEFINE x == ColumnParallel("fc", "fc_bias")
                y == IF config.gathered THEN <<Plain("gather"), Plain("act"), Plain("scatter")>> ELSE <<Plain("act")>>
                w == RowParallel("mlp_proj", "mlp_proj_bias")
    <1>1. x \in Chain(<<"whole", TRUE>>, <<"hidden", TRUE>>)
        <2>1. <<Op("linear", "fc", "fc_bias"), "shared", "hidden">> \in Turns
            BY DEF Turns
        <2>. QED
            BY <2>1, HeldAre, ColumnParallelChain
    <1>2. y \in Chain(<<"hidden", TRUE>>, <<"hidden", TRUE>>)
        <2>1. CASE config.gathered
            <3>. DEFINE o == Plain("gather")
                        q == Plain("act")
                        l == Plain("scatter")
            <3>1. /\ <<o, "hidden", "gathered">> \in Turns /\ <<q, "gathered", "gathered">> \in Turns
                  /\ <<l, "gathered", "hidden">> \in Turns
                BY DEF Turns
            <3>. HIDE DEF o, q, l
            <3>2. /\ Moves(o, <<"hidden", TRUE>>, <<"gathered", TRUE>>)
                  /\ Moves(q, <<"gathered", TRUE>>, <<"gathered", TRUE>>)
                  /\ Moves(l, <<"gathered", TRUE>>, <<"hidden", TRUE>>)
                BY <3>1, TurnMoves
            <3>3. <<"hidden", TRUE>> \in Places /\ <<"gathered", TRUE>> \in Places
                BY HeldAre, PlacesAre
            <3>4. <<o, q, l>> \in Chain(<<"hidden", TRUE>>, <<"hidden", TRUE>>)
                BY <3>2, <3>3, ChainThree
            <3>. QED
                BY <3>4, <2>1 DEF o, q, l
        <2>2. CASE ~config.gathered
            <3>1. <<Plain("act"), "hidden", "hidden">> \in Turns
                BY DEF Turns
            <3>2. <<Plain("act")>> \in Chain(<<"hidden", TRUE>>, <<"hidden", TRUE>>)
                BY <3>1, HeldAre, TurnChain
            <3>. QED
                BY <2>2, <3>2
        <2>. QED
            BY <2>1, <2>2
    <1>3. w \in Chain(<<"hidden", TRUE>>, <<"whole", TRUE>>)
        <2>1. <<Op("linear", "mlp_proj", "none"), "hidden", "parts">> \in Turns
            BY DEF Turns
        <2>2. <<Op("bias", "mlp_proj_bias", "none"), "whole", "whole">> \in Turns
            BY DEF Turns
        <2>. QED
            BY <2>1, <2>2, HeldAre, RowParallelChain
    <1>6. MLP = x \o y \o w
        BY DEF MLP
    <1>. HIDE DEF x, y, w
    <1>4. x \o y \in Chain(<<"whole", TRUE>>, <<"hidden", TRUE>>)
        BY <1>1, <1>2, ChainJoined
    <1>5. x \o y \o w \in Chain(<<"whole", TRUE>>, <<"whole", TRUE>>)
        BY <1>3, <1>4, ChainJoined
    <1>. QED
        BY <1>5, <1>6

\* A normalisation and a module, around which the activation is added.
LEMMA ResidualChain ==
    ASSUME NEW name, NEW ops \in Chain(<<"whole", TRUE>>, <<"whole", TRUE>>),
           <<Op("norm", name, "none"), "whole", "whole">> \in Turns
    PROVE  Residual(<<Op("norm", name, "none")>> \o ops) \in Chain(<<"whole", FALSE>>, <<"whole", FALSE>>)
    <1>. DEFINE n == <<Op("norm", name, "none")>>
                f == <<Plain("fork")>>
                j == <<Plain("join")>>
    <1>1. n \in Chain(<<"whole", TRUE>>, <<"whole", TRUE>>)
        BY HeldAre, TurnChain
    <1>2. n \o ops \in Chain(<<"whole", TRUE>>, <<"whole", TRUE>>)
        <2>. HIDE DEF n
        <2>. QED
            BY <1>1, ChainJoined
    <1>3. <<"whole", TRUE>> \in Places /\ <<"whole", FALSE>> \in Places
        BY HeldAre, PlacesAre
    <1>4. Moves(Plain("fork"), <<"whole", FALSE>>, <<"whole", TRUE>>)
        BY DEF Moves
    <1>5. Moves(Plain("join"), <<"whole", TRUE>>, <<"whole", FALSE>>)
        BY DEF Moves
    <1>6. f \in Chain(<<"whole", FALSE>>, <<"whole", TRUE>>)
        BY <1>3, <1>4, ChainOne
    <1>7. j \in Chain(<<"whole", TRUE>>, <<"whole", FALSE>>)
        BY <1>3, <1>5, ChainOne
    <1>8. Residual(n \o ops) = f \o (n \o ops) \o j
        BY DEF Residual
    <1>. DEFINE m == n \o ops
    <1>. HIDE DEF m, f, j
    <1>9. m \in Chain(<<"whole", TRUE>>, <<"whole", TRUE>>)
        BY <1>2 DEF m
    <1>10. f \o m \in Chain(<<"whole", FALSE>>, <<"whole", TRUE>>)
        BY <1>6, <1>9, ChainJoined
    <1>11. f \o m \o j \in Chain(<<"whole", FALSE>>, <<"whole", FALSE>>)
        BY <1>7, <1>10, ChainJoined
    <1>. QED
        BY <1>8, <1>11 DEF m

LEMMA BlockChain ==
    ASSUME config.gathered \in BOOLEAN
    PROVE  Block \in Chain(<<"whole", FALSE>>, <<"whole", FALSE>>)
    <1>1. <<Op("norm", "ln1", "none"), "whole", "whole">> \in Turns
        BY DEF Turns
    <1>2. <<Op("norm", "ln2", "none"), "whole", "whole">> \in Turns
        BY DEF Turns
    <1>. DEFINE x == Residual(<<Op("norm", "ln1", "none")>> \o CausalSelfAttention)
                y == Residual(<<Op("norm", "ln2", "none")>> \o MLP)
    <1>3. x \in Chain(<<"whole", FALSE>>, <<"whole", FALSE>>)
        BY <1>1, AttentionChain, ResidualChain
    <1>4. y \in Chain(<<"whole", FALSE>>, <<"whole", FALSE>>)
        BY <1>2, MLPChain, ResidualChain
    <1>5. Block = x \o y
        BY DEF Block
    <1>. HIDE DEF x, y
    <1>. QED
        BY <1>3, <1>4, <1>5, ChainJoined

LEMMA HeadChain == LMHead \in Chain(<<"whole", FALSE>>, <<"logits", FALSE>>)
    <1>1. <<Op("norm", "ln_f", "none"), "whole", "whole">> \in Turns
        BY DEF Turns
    <1>2. <<Op("linear", "head", "none"), "shared", "logits">> \in Turns
        BY DEF Turns
    <1>. DEFINE x == <<Op("norm", "ln_f", "none")>>
                y == ColumnParallel("head", "none")
    <1>3. x \in Chain(<<"whole", FALSE>>, <<"whole", FALSE>>)
        BY <1>1, HeldAre, TurnChain
    <1>4. y \in Chain(<<"whole", FALSE>>, <<"logits", FALSE>>)
        BY <1>2, HeldAre, ColumnParallelChain
    <1>5. LMHead = x \o y
        BY DEF LMHead
    <1>. HIDE DEF x, y
    <1>. QED
        BY <1>3, <1>4, <1>5, ChainJoined

\* The whole model, from the tokens to the loss.
LEMMA TapeChain ==
    ASSUME config.gathered \in BOOLEAN
    PROVE  Tape \in Chain(<<"start", FALSE>>, <<"end", FALSE>>)
    <1>1. <<Plain("loss"), "logits", "end">> \in Turns
        BY DEF Turns
    <1>. DEFINE l == <<Plain("loss")>>
    <1>2. l \in Chain(<<"logits", FALSE>>, <<"end", FALSE>>)
        BY <1>1, HeldAre, TurnChain
    <1>3. Tape = Embedding \o Block \o LMHead \o l
        BY DEF Tape
    <1>. HIDE DEF l
    <1>4. Embedding \o Block \in Chain(<<"start", FALSE>>, <<"whole", FALSE>>)
        BY EmbeddingChain, BlockChain, ChainJoined
    <1>5. Embedding \o Block \o LMHead \in Chain(<<"start", FALSE>>, <<"logits", FALSE>>)
        BY <1>4, HeadChain, ChainJoined
    <1>6. Embedding \o Block \o LMHead \o l \in Chain(<<"start", FALSE>>, <<"end", FALSE>>)
        BY <1>2, <1>5, ChainJoined
    <1>. QED
        BY <1>3, <1>6

LEMMA TurnKinds ==
    ASSUME NEW o, NEW h, NEW k, <<o, h, k>> \in Turns
    PROVE  /\ o.kind = "loss" <=> k = "end"
           /\ k = "end" => h = "logits"
           /\ h # "end" /\ k # "start"
           /\ k = "logits" => o = Op("linear", "head", "none") /\ h = "shared"
           /\ o.kind # "fork" /\ o.kind # "join"
    BY DEF Turns, Op, Plain

\* What an operator of the tape finds and leaves.
LEMMA MoveKinds ==
    ASSUME NEW o, NEW a, NEW b, Moves(o, a, b)
    PROVE  /\ o.kind = "loss" <=> b[1] = "end"
           /\ b[1] = "end" => a[1] = "logits"
           /\ a[1] # "end" /\ b[1] # "start"
           /\ b[1] = "logits" => o = Op("linear", "head", "none") /\ a[1] = "shared"
           /\ o.kind = "fork" => a = <<"whole", FALSE>>
           /\ o.kind = "join" => b = <<"whole", FALSE>>
           /\ o.kind \notin {"fork", "join"} => a[2] = b[2] /\ <<o, a[1], b[1]>> \in Turns
           /\ o.kind = "fork" => o = Plain("fork") /\ b = <<"whole", TRUE>>
           /\ o.kind = "join" => o = Plain("join") /\ a = <<"whole", TRUE>>
    <1>1. CASE a[2] = b[2] /\ <<o, a[1], b[1]>> \in Turns
        BY <1>1, TurnKinds
    <1>2. CASE o = Plain("fork") /\ a = <<"whole", FALSE>> /\ b = <<"whole", TRUE>>
        <2>1. o.kind = "fork"
            BY <1>2 DEF Plain, Op
        <2>2. a[1] = "whole" /\ b[1] = "whole"
            BY <1>2
        <2>. QED
            BY <1>2, <2>1, <2>2
    <1>3. CASE o = Plain("join") /\ a = <<"whole", TRUE>> /\ b = <<"whole", FALSE>>
        <2>1. o.kind = "join"
            BY <1>3 DEF Plain, Op
        <2>2. a[1] = "whole" /\ b[1] = "whole"
            BY <1>3
        <2>. QED
            BY <1>3, <2>1, <2>2
    <1>. QED
        BY <1>1, <1>2, <1>3 DEF Moves

LEMMA MoveBack ==
    ASSUME NEW o, NEW a, NEW b, Moves(o, a, b)
    PROVE  /\ b[1] = "end" => a[1] = "logits"
           /\ b[1] = "logits" => a[1] = "shared"
    BY MoveKinds

\* The places the activation passes through.
PathOf(tape) == CHOOSE p : Along(tape, p, <<"start", FALSE>>, <<"end", FALSE>>)
Path == PathOf(Tape)

LEMMA PathIs ==
    ASSUME config.gathered \in BOOLEAN
    PROVE  /\ Tape \in Seq(Operators) /\ Length \in Nat /\ Length > 2
           /\ Path \in [1 .. Length + 1 -> Places]
           /\ Path[1] = <<"start", FALSE>> /\ Path[Length + 1] = <<"end", FALSE>>
           /\ \A i \in 1 .. Length : Moves(Tape[i], Path[i], Path[i + 1])
    <1>1. Tape \in Seq(Operators) /\ \E p : Along(Tape, p, <<"start", FALSE>>, <<"end", FALSE>>)
        BY TapeChain DEF Chain
    <1>2. Along(Tape, Path, <<"start", FALSE>>, <<"end", FALSE>>)
        BY <1>1 DEF Path, PathOf
    <1>3. Length = Len(Tape) /\ Length \in Nat
        BY <1>1 DEF Length
    <1>4. /\ Path \in [1 .. Length + 1 -> Places]
          /\ Path[1] = <<"start", FALSE>> /\ Path[Length + 1] = <<"end", FALSE>>
          /\ \A i \in 1 .. Length : Moves(Tape[i], Path[i], Path[i + 1])
        BY <1>2, <1>3 DEF Along
    <1>10. Path[1][1] = "start" /\ Path[Length + 1][1] = "end"
        <2>1. <<"start", FALSE>>[1] = "start" /\ <<"end", FALSE>>[1] = "end"
            OBVIOUS
        <2>. HIDE DEF Path
        <2>. QED
            BY <1>4, <2>1
    <1>5. Length > 0
        BY <1>3, <1>10
    <1>6. Path[Length][1] = "logits"
        <2>2. Length \in 1 .. Length
            BY <1>3, <1>5
        <2>1. Moves(Tape[Length], Path[Length], Path[Length + 1])
            BY <1>4, <2>2
        <2>. QED
            BY <1>10, <2>1, MoveKinds
    <1>7. Length > 1
        BY <1>3, <1>5, <1>6, <1>10
    <1>8. Path[Length - 1][1] = "shared"
        <2>. DEFINE j == Length - 1
        <2>1. j \in 1 .. Length /\ j + 1 = Length
            BY <1>3, <1>7
        <2>. HIDE DEF j
        <2>2. Moves(Tape[j], Path[j], Path[j + 1])
            BY <1>4, <2>1
        <2>3. Moves(Tape[j], Path[j], Path[Length])
            BY <2>1, <2>2
        <2>4. Path[j][1] = "shared"
            BY <1>6, <2>3, MoveBack
        <2>. QED
            BY <2>4 DEF j
    <1>9. Length > 2
        BY <1>3, <1>7, <1>8, <1>10
    <1>. QED
        BY <1>1, <1>3, <1>4, <1>9

\* The loss is the last operator and no other.
LEMMA LossLast ==
    ASSUME config.gathered \in BOOLEAN, NEW i \in 1 .. Length
    PROVE  Tape[i].kind = "loss" <=> i = Length
    <1>1. Moves(Tape[i], Path[i], Path[i + 1])
        BY PathIs
    <1>2. Path[Length + 1][1] = "end"
        <2>1. <<"end", FALSE>>[1] = "end"
            OBVIOUS
        <2>2. Path[Length + 1] = <<"end", FALSE>>
            BY PathIs
        <2>. QED
            BY <2>1, <2>2
    <1>4. Length \in Nat
        BY PathIs
    <1>3. ASSUME i # Length
          PROVE  Path[i + 1][1] # "end"
        <2>. DEFINE j == i + 1
        <2>1. j \in 1 .. Length
            BY <1>3, PathIs
        <2>2. Moves(Tape[j], Path[j], Path[j + 1])
            BY <2>1, PathIs
        <2>. QED
            BY <2>2, MoveKinds
    <1>5. Tape[i].kind = "loss" <=> Path[i + 1][1] = "end"
        BY <1>1, MoveKinds
    <1>. QED
        BY <1>2, <1>3, <1>4, <1>5

-----------------------------------------------------------------------------
(* What each operator leaves, of what it finds. *)

\* What each operator computes.
LEMMA ForwardIs ==
    ASSUME NEW d
    PROVE  /\ Current.kind = "lookup" => ForwardOf(d) = Lookup(d)
           /\ Current.kind = "position" => ForwardOf(d) = Positioned(value[d], weight[d]["wpe"])
           /\ Current.kind \in {"fork", "copy"} => ForwardOf(d) = value[d]
           /\ Current.kind = "join" => ForwardOf(d) = Plus(skip[d], value[d])
           /\ Current.kind = "norm" => ForwardOf(d) = Normed(value[d], weight[d][Current.name])
           /\ Current.kind = "bias" => ForwardOf(d) = AddBias(value[d], weight[d][Current.name])
           /\ Current.kind = "attend" => ForwardOf(d) = Attend(value[d])
           /\ Current.kind = "act" => ForwardOf(d) = Squared(value[d])
           /\ Current.kind = "reduce" => ForwardOf(d) = AllReduce(value, d)
           /\ Current.kind = "gather" => ForwardOf(d) = GatherLastDim(value, d)
           /\ Current.kind = "scatter" => ForwardOf(d) = SplitLastDim(value[d], d)
    BY DEF ForwardOf, Positioned, Normed, Squared

LEMMA ForwardLinear ==
    ASSUME NEW d, Current.kind = "linear"
    PROVE  /\ Current.bias = "none" => ForwardOf(d) = Linear(value[d], weight[d][Current.name])
           /\ Current.bias # "none" =>
                 ForwardOf(d) = AddBias(Linear(value[d], weight[d][Current.name]), weight[d][Current.bias])
    BY DEF ForwardOf

\* What a group of one computes.
LEMMA ForwardSingle ==
    /\ Current.kind = "reduce" => ForwardOf(Single) = value[Single]
    /\ Current.kind = "gather" => ForwardOf(Single) = value[Single]
    /\ Current.kind = "scatter" => ForwardOf(Single) = Columns(value[Single], 1, 0)
    BY ForwardIs, SingleIs DEF AllReduce, GatherLastDim, SplitLastDim

\* What a rank of a tensor group computes.
LEMMA ForwardMesh ==
    ASSUME NEW r \in DpRanks, NEW t \in TpRanks
    PROVE  /\ Current.kind = "reduce" => ForwardOf(MeshAt(r, t)) =
                 (IF config.tp > 1 THEN SumOver(PartsOf(config, value, r)) ELSE value[MeshAt(r, t)])
           /\ Current.kind = "gather" => ForwardOf(MeshAt(r, t)) =
                 (IF config.tp = 1 THEN value[MeshAt(r, t)] ELSE Concat(PartsOf(config, value, r), config.tp))
           /\ Current.kind = "scatter" => ForwardOf(MeshAt(r, t)) = Columns(value[MeshAt(r, t)], config.tp, t)
    <1>. DEFINE d == MeshAt(r, t)
    <1>1. World(d) = config.tp /\ Rank(d) = t
        BY MeshIs
    <1>2. OfGroup(value, d) = PartsOf(config, value, r)
        BY GroupIs
    <1>. HIDE DEF d
    <1>3. /\ Current.kind = "reduce" => ForwardOf(d) =
                 (IF config.tp > 1 THEN SumOver(PartsOf(config, value, r)) ELSE value[d])
          /\ Current.kind = "gather" => ForwardOf(d) =
                 (IF config.tp = 1 THEN value[d] ELSE Concat(PartsOf(config, value, r), config.tp))
          /\ Current.kind = "scatter" => ForwardOf(d) = Columns(value[d], config.tp, t)
        BY <1>1, <1>2, ForwardIs DEF AllReduce, GatherLastDim, SplitLastDim
    <1>. QED
        BY <1>3 DEF d

\* The activation, as it is held.
Holds(h, v) ==
    /\ h = "parts" => PartialIn(config, v, v[Single], Embd)
    /\ h \in {"whole", "shared"} => WholeIn(config, v, v[Single], Embd)
    /\ h = "qkv" => SliceIn(config, v, v[Single], 3 * Embd)
    /\ h = "heads" => SliceIn(config, v, v[Single], Embd)
    /\ h = "hidden" => SliceIn(config, v, v[Single], 4 * Embd)
    /\ h = "gathered" => WholeIn(config, v, v[Single], 4 * Embd)
    /\ h = "logits" => SliceIn(config, v, v[Single], Vocab)

\* One operator forward, on all devices.
Outputs(u) == \A d \in Devices : u[d] = ForwardOf(d)

LEMMA OutputsAre ==
    ASSUME NEW u, Outputs(u)
    PROVE  /\ u[Single] = ForwardOf(Single)
           /\ \A r \in DpRanks : \A t \in TpRanks : u[MeshAt(r, t)] = ForwardOf(MeshAt(r, t))
    BY SingleIs, MeshIs DEF Outputs

LEMMA ApplyNorm ==
    ASSUME Loaded, NEW u, Outputs(u), Holds("whole", value),
           NEW name \in {"ln1", "ln2", "ln_f"}, Current = Op("norm", name, "none")
    PROVE  Holds("whole", u)
    <1>1. Current.kind = "norm" /\ Current.name = name
        BY DEF Op
    <1>2. WholeIn(config, value, value[Single], Embd)
        BY DEF Holds
    <1>. DEFINE w == FullWeight[name]
    <1>3. w \in Matrix(Embd, 1)
        BY Shapes
    <1>4. u[Single] = Normed(value[Single], w)
        BY <1>1, OutputsAre, ForwardIs, WeightsOfSingle
    <1>5. \A r \in DpRanks : \A t \in TpRanks : u[MeshAt(r, t)] = Normed(value[MeshAt(r, t)], w)
        BY <1>1, OutputsAre, ForwardIs, WeightsOfMesh
    <1>6. config \in Configs /\ Embd \in Nat
        BY EmbdIs DEF Loaded
    <1>. HIDE DEF w
    <1>7. WholeIn(config, u, Normed(value[Single], w), Embd)
        BY <1>2, <1>3, <1>5, <1>6, NormWhole DEF DpRanks, TpRanks
    <1>. QED
        BY <1>4, <1>7 DEF Holds

LEMMA ApplyPosition ==
    ASSUME Loaded, NEW u, Outputs(u), Holds("whole", value),
           Current = Op("position", "wpe", "none")
    PROVE  Holds("whole", u)
    <1>1. Current.kind = "position"
        BY DEF Op, Plain
    <1>2. WholeIn(config, value, value[Single], Embd)
        BY DEF Holds
    <1>. DEFINE w == FullWeight["wpe"]
    <1>3. w \in Matrix(SeqLen, Embd)
        BY Shapes
    <1>4. u[Single] = Positioned(value[Single], w)
        BY <1>1, OutputsAre, ForwardIs, WeightsOfSingle
    <1>5. \A r \in DpRanks : \A t \in TpRanks : u[MeshAt(r, t)] = Positioned(value[MeshAt(r, t)], w)
        BY <1>1, OutputsAre, ForwardIs, WeightsOfMesh
    <1>6. config \in Configs /\ Embd \in Nat
        BY EmbdIs DEF Loaded
    <1>. HIDE DEF w
    <1>7. WholeIn(config, u, Positioned(value[Single], w), Embd)
        BY <1>2, <1>3, <1>5, <1>6, PositionWhole DEF DpRanks, TpRanks
    <1>. QED
        BY <1>4, <1>7 DEF Holds

LEMMA ApplyBias ==
    ASSUME Loaded, NEW u, Outputs(u), Holds("whole", value),
           NEW name \in {"attn_proj_bias", "mlp_proj_bias"}, Current = Op("bias", name, "none")
    PROVE  Holds("whole", u)
    <1>1. Current.kind = "bias" /\ Current.name = name
        BY DEF Op, Plain
    <1>2. WholeIn(config, value, value[Single], Embd)
        BY DEF Holds
    <1>. DEFINE w == FullWeight[name]
    <1>3. w \in Matrix(Embd, 1)
        BY Shapes
    <1>4. u[Single] = AddBias(value[Single], w)
        BY <1>1, OutputsAre, ForwardIs, WeightsOfSingle
    <1>5. \A r \in DpRanks : \A t \in TpRanks : u[MeshAt(r, t)] = AddBias(value[MeshAt(r, t)], w)
        BY <1>1, OutputsAre, ForwardIs, WeightsOfMesh
    <1>6. config \in Configs /\ Embd \in Nat
        BY EmbdIs DEF Loaded
    <1>. HIDE DEF w
    <1>7. WholeIn(config, u, AddBias(value[Single], w), Embd)
        BY <1>2, <1>3, <1>5, <1>6, BiasWhole DEF DpRanks, TpRanks
    <1>. QED
        BY <1>4, <1>7 DEF Holds

LEMMA ApplyReduce ==
    ASSUME Loaded, NEW u, Outputs(u), Holds("parts", value),
           Current = Plain("reduce")
    PROVE  Holds("whole", u)
    <1>1. Current.kind = "reduce"
        BY DEF Op, Plain
    <1>2. PartialIn(config, value, value[Single], Embd)
        BY DEF Holds
    <1>4. u[Single] = value[Single]
        BY <1>1, OutputsAre, ForwardSingle
    <1>5. \A r \in DpRanks : \A t \in TpRanks : u[MeshAt(r, t)] = (IF config.tp > 1 THEN SumOver(PartsOf(config, value, r)) ELSE value[MeshAt(r, t)])
        BY <1>1, OutputsAre, ForwardMesh
    <1>6. config \in Configs /\ Embd \in Nat
        BY EmbdIs DEF Loaded
    <1>7. WholeIn(config, u, value[Single], Embd)
        BY <1>2, <1>5, <1>6, ReduceParts DEF DpRanks, TpRanks
    <1>. QED
        BY <1>4, <1>7 DEF Holds

LEMMA ApplyGather ==
    ASSUME Loaded, NEW u, Outputs(u), Holds("hidden", value),
           Current = Plain("gather")
    PROVE  Holds("gathered", u)
    <1>1. Current.kind = "gather"
        BY DEF Op, Plain
    <1>2. SliceIn(config, value, value[Single], 4 * Embd)
        BY DEF Holds
    <1>4. u[Single] = value[Single]
        BY <1>1, OutputsAre, ForwardSingle
    <1>5. \A r \in DpRanks : \A t \in TpRanks : u[MeshAt(r, t)] = (IF config.tp = 1 THEN value[MeshAt(r, t)] ELSE Concat(PartsOf(config, value, r), config.tp))
        BY <1>1, OutputsAre, ForwardMesh
    <1>6. config \in Configs /\ 4 * Embd \in Nat
        BY EmbdIs DEF Loaded
    <1>7. WholeIn(config, u, value[Single], 4 * Embd)
        BY <1>2, <1>5, <1>6, GatherSlices DEF DpRanks, TpRanks
    <1>. QED
        BY <1>4, <1>7 DEF Holds

LEMMA ApplyAttend ==
    ASSUME Loaded, NEW u, Outputs(u), Holds("qkv", value),
           Current = Plain("attend")
    PROVE  Holds("heads", u)
    <1>1. Current.kind = "attend"
        BY DEF Op, Plain
    <1>2. SliceIn(config, value, value[Single], 3 * Embd)
        BY DEF Holds
    <1>4. u[Single] = Attend(value[Single])
        BY <1>1, OutputsAre, ForwardIs
    <1>5. \A r \in DpRanks : \A t \in TpRanks : u[MeshAt(r, t)] = Attend(value[MeshAt(r, t)])
        BY <1>1, OutputsAre, ForwardIs
    <1>6. config \in Configs /\ 3 * Embd \in Nat
        BY EmbdIs DEF Loaded
    <1>7. SliceIn(config, u, Attend(value[Single]), Embd)
        BY <1>2, <1>5, <1>6, AttendSlice DEF DpRanks, TpRanks
    <1>. QED
        BY <1>4, <1>7 DEF Holds

LEMMA ApplyActSlice ==
    ASSUME Loaded, NEW u, Outputs(u), Holds("hidden", value),
           Current = Plain("act")
    PROVE  Holds("hidden", u)
    <1>1. Current.kind = "act"
        BY DEF Op, Plain
    <1>2. SliceIn(config, value, value[Single], 4 * Embd)
        BY DEF Holds
    <1>4. u[Single] = Squared(value[Single])
        BY <1>1, OutputsAre, ForwardIs
    <1>5. \A r \in DpRanks : \A t \in TpRanks : u[MeshAt(r, t)] = Squared(value[MeshAt(r, t)])
        BY <1>1, OutputsAre, ForwardIs
    <1>6. config \in Configs /\ 4 * Embd \in Nat
        BY EmbdIs DEF Loaded
    <1>7. SliceIn(config, u, Squared(value[Single]), 4 * Embd)
        BY <1>2, <1>5, <1>6, ActSlice DEF DpRanks, TpRanks
    <1>. QED
        BY <1>4, <1>7 DEF Holds

LEMMA ApplyActWhole ==
    ASSUME Loaded, NEW u, Outputs(u), Holds("gathered", value),
           Current = Plain("act")
    PROVE  Holds("gathered", u)
    <1>1. Current.kind = "act"
        BY DEF Op, Plain
    <1>2. WholeIn(config, value, value[Single], 4 * Embd)
        BY DEF Holds
    <1>4. u[Single] = Squared(value[Single])
        BY <1>1, OutputsAre, ForwardIs
    <1>5. \A r \in DpRanks : \A t \in TpRanks : u[MeshAt(r, t)] = Squared(value[MeshAt(r, t)])
        BY <1>1, OutputsAre, ForwardIs
    <1>6. config \in Configs /\ 4 * Embd \in Nat
        BY EmbdIs DEF Loaded
    <1>7. WholeIn(config, u, Squared(value[Single]), 4 * Embd)
        BY <1>2, <1>5, <1>6, ActWhole DEF DpRanks, TpRanks
    <1>. QED
        BY <1>4, <1>7 DEF Holds

LEMMA ApplyRowAttention ==
    ASSUME Loaded, NEW u, Outputs(u), Holds("heads", value),
           Current = Op("linear", "attn_proj", "none")
    PROVE  Holds("parts", u)
    <1>1. Current.kind = "linear" /\ Current.name = "attn_proj" /\ Current.bias = "none"
        BY DEF Op, Plain
    <1>2. SliceIn(config, value, value[Single], Embd)
        BY DEF Holds
    <1>. DEFINE w == FullWeight["attn_proj"]
    <1>3. w \in Matrix(Embd, Embd)
        BY Shapes
    <1>4. u[Single] = Linear(value[Single], w)
        BY <1>1, OutputsAre, ForwardLinear, WeightsOfSingle
    <1>5. \A r \in DpRanks : \A t \in TpRanks : u[MeshAt(r, t)] = Linear(value[MeshAt(r, t)], Columns(w, config.tp, t))
        BY <1>1, OutputsAre, ForwardLinear, WeightsOfMesh
    <1>6. config \in Configs /\ Embd \in Nat /\ Embd \in Nat
        BY EmbdIs DEF Loaded
    <1>. HIDE DEF w
    <1>7. PartialIn(config, u, Linear(value[Single], w), Embd)
        BY <1>2, <1>3, <1>5, <1>6, RowLayer DEF DpRanks, TpRanks
    <1>. QED
        BY <1>4, <1>7 DEF Holds

LEMMA ApplyRowMLP ==
    ASSUME Loaded, NEW u, Outputs(u), Holds("hidden", value),
           Current = Op("linear", "mlp_proj", "none")
    PROVE  Holds("parts", u)
    <1>1. Current.kind = "linear" /\ Current.name = "mlp_proj" /\ Current.bias = "none"
        BY DEF Op, Plain
    <1>2. SliceIn(config, value, value[Single], 4 * Embd)
        BY DEF Holds
    <1>. DEFINE w == FullWeight["mlp_proj"]
    <1>3. w \in Matrix(Embd, 4 * Embd)
        BY Shapes
    <1>4. u[Single] = Linear(value[Single], w)
        BY <1>1, OutputsAre, ForwardLinear, WeightsOfSingle
    <1>5. \A r \in DpRanks : \A t \in TpRanks : u[MeshAt(r, t)] = Linear(value[MeshAt(r, t)], Columns(w, config.tp, t))
        BY <1>1, OutputsAre, ForwardLinear, WeightsOfMesh
    <1>6. config \in Configs /\ Embd \in Nat /\ 4 * Embd \in Nat
        BY EmbdIs DEF Loaded
    <1>. HIDE DEF w
    <1>7. PartialIn(config, u, Linear(value[Single], w), Embd)
        BY <1>2, <1>3, <1>5, <1>6, RowLayer DEF DpRanks, TpRanks
    <1>. QED
        BY <1>4, <1>7 DEF Holds

LEMMA ApplyLookup ==
    ASSUME Loaded, NEW u, Outputs(u), Current = Op("lookup", "wte", "none")
    PROVE  Holds("parts", u)
    <1>1. Current.kind = "lookup"
        BY DEF Op
    <1>2. \A d \in Devices : u[d] = Lookup(d)
        BY <1>1, ForwardIs DEF Outputs
    <1>3. PartialIn(config, u, u[Single], Embd)
        BY <1>2, LookupParts
    <1>. QED
        BY <1>3 DEF Holds

\* What is passed on is held as it was.
LEMMA WholeAgain ==
    ASSUME Loaded, NEW u, NEW v, WholeIn(config, v, v[Single], Embd), u[Single] = v[Single],
           \A r \in DpRanks : \A t \in TpRanks : u[MeshAt(r, t)] = v[MeshAt(r, t)]
    PROVE  WholeIn(config, u, u[Single], Embd)
    BY DEF WholeIn, DpRanks, TpRanks

LEMMA ApplyPassed ==
    ASSUME Loaded, NEW u, Outputs(u), Holds("whole", value), Current.kind \in {"copy", "fork"}
    PROVE  Holds("whole", u) /\ Holds("shared", u)
    <1>1. u[Single] = value[Single]
        BY OutputsAre, ForwardIs
    <1>2. \A r \in DpRanks : \A t \in TpRanks : u[MeshAt(r, t)] = value[MeshAt(r, t)]
        BY OutputsAre, ForwardIs
    <1>3. WholeIn(config, u, u[Single], Embd)
        BY <1>1, <1>2, WholeAgain DEF Holds
    <1>. QED
        BY <1>3 DEF Holds

LEMMA ApplyJoin ==
    ASSUME Loaded, NEW u, Outputs(u), Holds("whole", value), Holds("whole", skip), Current = Plain("join")
    PROVE  Holds("whole", u)
    <1>1. Current.kind = "join"
        BY DEF Plain, Op
    <1>2. WholeIn(config, value, value[Single], Embd) /\ WholeIn(config, skip, skip[Single], Embd)
        BY DEF Holds
    <1>4. u[Single] = Plus(skip[Single], value[Single])
        BY <1>1, OutputsAre, ForwardIs
    <1>5. \A r \in DpRanks : \A t \in TpRanks : u[MeshAt(r, t)] = Plus(skip[MeshAt(r, t)], value[MeshAt(r, t)])
        BY <1>1, OutputsAre, ForwardIs
    <1>6. config \in Configs /\ Embd \in Nat
        BY EmbdIs DEF Loaded
    <1>7. WholeIn(config, u, Plus(skip[Single], value[Single]), Embd)
        BY <1>2, <1>5, <1>6, JoinWhole DEF DpRanks, TpRanks
    <1>. QED
        BY <1>4, <1>7 DEF Holds

\* A column-parallel layer on the mesh.
LEMMA ColumnOnMesh ==
    ASSUME Loaded, NEW v, NEW u, NEW z, NEW k \in Nat, WholeIn(config, v, z, k),
           NEW m \in Nat, m % config.tp = 0, NEW w \in Matrix(m, k),
           \A r \in DpRanks : \A t \in TpRanks : u[MeshAt(r, t)] = Linear(v[MeshAt(r, t)], Rows(w, config.tp, t))
    PROVE  SliceIn(config, u, Linear(z, w), m)
    <1>. DEFINE c == config
    <1>1. c \in Configs /\ m % c.tp = 0 /\ WholeIn(c, v, z, k)
        BY DEF Loaded
    <1>2. \A r \in 0 .. c.dp - 1 : \A t \in 0 .. c.tp - 1 :
              u[MeshAt(r, t)] = Linear(v[MeshAt(r, t)], Rows(w, c.tp, t))
        BY DEF DpRanks, TpRanks
    <1>. HIDE DEF c
    <1>3. SliceIn(c, u, Linear(z, w), m)
        BY <1>1, <1>2, ColumnLayer
    <1>. QED
        BY <1>3 DEF c

LEMMA ApplyScatter ==
    ASSUME Loaded, NEW u, Outputs(u), Holds("gathered", value), Current = Plain("scatter")
    PROVE  Holds("hidden", u)
    <1>1. Current.kind = "scatter"
        BY DEF Plain, Op
    <1>. DEFINE k == 4 * Embd
                m == config.dp * SeqLen
                z == value[Single]
    <1>2. WholeIn(config, value, z, k)
        BY DEF Holds
    <1>3. config \in Configs /\ k \in Nat /\ k % config.tp = 0 /\ m \in Nat
        BY EmbdIs, Shares, ConfigIs DEF Loaded
    <1>4. u[Single] = Columns(z, 1, 0)
        BY <1>1, OutputsAre, ForwardSingle
    <1>5. \A r \in DpRanks : \A t \in TpRanks : u[MeshAt(r, t)] = Columns(value[MeshAt(r, t)], config.tp, t)
        BY <1>1, OutputsAre, ForwardMesh
    <1>6. z \in Matrix(m, k)
        BY <1>2 DEF WholeIn, Tokens
    <1>. HIDE DEF k, m, z
    <1>7. u[Single] = z
        BY <1>3, <1>4, <1>6, ColumnsOfOne
    <1>8. SliceIn(config, u, z, k)
        BY <1>2, <1>3, <1>5, ScatterWhole DEF DpRanks, TpRanks
    <1>. QED
        BY <1>7, <1>8 DEF Holds, k

LEMMA ApplyQkv ==
    ASSUME Loaded, NEW u, Outputs(u), Holds("shared", value), Current = Op("linear", "qkv", "qkv_bias")
    PROVE  Holds("qkv", u)
    <1>1. Current.kind = "linear" /\ Current.name = "qkv" /\ Current.bias = "qkv_bias"
        BY DEF Op
    <1>. DEFINE k == 3 * Embd
                z == value[Single]
                w == FullWeight["qkv"]
                b == FullWeight["qkv_bias"]
                y == [d \in Devices |-> Linear(value[d], weight[d]["qkv"])]
    <1>2. WholeIn(config, value, z, Embd)
        BY DEF Holds
    <1>3. config \in Configs /\ k \in Nat /\ k % config.tp = 0 /\ Embd \in Nat
        BY EmbdIs, Shares DEF Loaded
    <1>4. w \in Matrix(k, Embd) /\ b \in Matrix(k, 1)
        BY Shapes
    <1>5. u[Single] = AddBias(Linear(z, w), b)
        BY <1>1, OutputsAre, ForwardLinear, WeightsOfSingle
    <1>6. ASSUME NEW r \in DpRanks, NEW t \in TpRanks
          PROVE  /\ y[MeshAt(r, t)] = Linear(value[MeshAt(r, t)], Rows(w, config.tp, t))
                 /\ u[MeshAt(r, t)] = AddBias(y[MeshAt(r, t)], Rows(b, config.tp, t))
        <2>. DEFINE d == MeshAt(r, t)
        <2>1. d \in Devices
            BY MeshIs
        <2>2. weight[d]["qkv"] = Rows(w, config.tp, t) /\ weight[d]["qkv_bias"] = Rows(b, config.tp, t)
            BY WeightsOfMesh
        <2>3. u[d] = AddBias(Linear(value[d], weight[d]["qkv"]), weight[d]["qkv_bias"])
            BY <1>1, OutputsAre, ForwardLinear
        <2>. HIDE DEF d, w, b
        <2>. QED
            BY <2>1, <2>2, <2>3 DEF d
    <1>. DEFINE e == Embd
    <1>. HIDE DEF k, z, w, b, y, e
    <1>9. e \in Nat /\ w \in Matrix(k, e) /\ WholeIn(config, value, z, e)
        BY <1>2, <1>3, <1>4 DEF e
    <1>7. SliceIn(config, y, Linear(z, w), k)
        BY <1>3, <1>6, <1>9, ColumnOnMesh
    <1>8. SliceIn(config, u, AddBias(Linear(z, w), b), k)
        BY <1>3, <1>4, <1>6, <1>7, BiasSlice DEF DpRanks, TpRanks
    <1>. QED
        BY <1>5, <1>8 DEF Holds, k

LEMMA ApplyHidden ==
    ASSUME Loaded, NEW u, Outputs(u), Holds("shared", value), Current = Op("linear", "fc", "fc_bias")
    PROVE  Holds("hidden", u)
    <1>1. Current.kind = "linear" /\ Current.name = "fc" /\ Current.bias = "fc_bias"
        BY DEF Op
    <1>. DEFINE k == 4 * Embd
                z == value[Single]
                w == FullWeight["fc"]
                b == FullWeight["fc_bias"]
                y == [d \in Devices |-> Linear(value[d], weight[d]["fc"])]
    <1>2. WholeIn(config, value, z, Embd)
        BY DEF Holds
    <1>3. config \in Configs /\ k \in Nat /\ k % config.tp = 0 /\ Embd \in Nat
        BY EmbdIs, Shares DEF Loaded
    <1>4. w \in Matrix(k, Embd) /\ b \in Matrix(k, 1)
        BY Shapes
    <1>5. u[Single] = AddBias(Linear(z, w), b)
        BY <1>1, OutputsAre, ForwardLinear, WeightsOfSingle
    <1>6. ASSUME NEW r \in DpRanks, NEW t \in TpRanks
          PROVE  /\ y[MeshAt(r, t)] = Linear(value[MeshAt(r, t)], Rows(w, config.tp, t))
                 /\ u[MeshAt(r, t)] = AddBias(y[MeshAt(r, t)], Rows(b, config.tp, t))
        <2>. DEFINE d == MeshAt(r, t)
        <2>1. d \in Devices
            BY MeshIs
        <2>2. weight[d]["fc"] = Rows(w, config.tp, t) /\ weight[d]["fc_bias"] = Rows(b, config.tp, t)
            BY WeightsOfMesh
        <2>3. u[d] = AddBias(Linear(value[d], weight[d]["fc"]), weight[d]["fc_bias"])
            BY <1>1, OutputsAre, ForwardLinear
        <2>. HIDE DEF d, w, b
        <2>. QED
            BY <2>1, <2>2, <2>3 DEF d
    <1>. DEFINE e == Embd
    <1>. HIDE DEF k, z, w, b, y, e
    <1>9. e \in Nat /\ w \in Matrix(k, e) /\ WholeIn(config, value, z, e)
        BY <1>2, <1>3, <1>4 DEF e
    <1>7. SliceIn(config, y, Linear(z, w), k)
        BY <1>3, <1>6, <1>9, ColumnOnMesh
    <1>8. SliceIn(config, u, AddBias(Linear(z, w), b), k)
        BY <1>3, <1>4, <1>6, <1>7, BiasSlice DEF DpRanks, TpRanks
    <1>. QED
        BY <1>5, <1>8 DEF Holds, k

LEMMA ApplyHead ==
    ASSUME Loaded, NEW u, Outputs(u), Holds("shared", value), Current = Op("linear", "head", "none")
    PROVE  Holds("logits", u) /\ u[Single] = Linear(value[Single], FullWeight["head"])
    <1>1. Current.kind = "linear" /\ Current.name = "head" /\ Current.bias = "none"
        BY DEF Op
    <1>. DEFINE z == value[Single]
                w == FullWeight["head"]
    <1>2. WholeIn(config, value, z, Embd)
        BY DEF Holds
    <1>3. config \in Configs /\ Vocab \in Nat /\ Vocab % config.tp = 0 /\ Embd \in Nat
        BY EmbdIs, Shares DEF Loaded
    <1>4. w \in Matrix(Vocab, Embd)
        BY Shapes
    <1>5. u[Single] = Linear(z, w)
        BY <1>1, OutputsAre, ForwardLinear, WeightsOfSingle
    <1>6. \A r \in DpRanks : \A t \in TpRanks :
              u[MeshAt(r, t)] = Linear(value[MeshAt(r, t)], Rows(w, config.tp, t))
        BY <1>1, OutputsAre, ForwardLinear, WeightsOfMesh
    <1>. DEFINE e == Embd
    <1>. HIDE DEF z, w, e
    <1>9. e \in Nat /\ w \in Matrix(Vocab, e) /\ WholeIn(config, value, z, e)
        BY <1>2, <1>3, <1>4 DEF e
    <1>7. SliceIn(config, u, Linear(z, w), Vocab)
        BY <1>3, <1>6, <1>9, ColumnOnMesh
    <1>8. Holds("logits", u)
        BY <1>5, <1>7 DEF Holds
    <1>. QED
        BY <1>5, <1>8 DEF z, w

\* An operator, from what it finds to what it leaves.
LEMMA ApplyTurn ==
    ASSUME Loaded, NEW u, Outputs(u), NEW h, NEW k, <<Current, h, k>> \in Turns, Holds(h, value)
    PROVE  /\ Holds(k, u)
           /\ k = "logits" => u[Single] = Linear(value[Single], FullWeight["head"])
    <1>. DEFINE o == Current
    <1>1. \/ o = Op("lookup", "wte", "none") /\ h = "start" /\ k = "parts"
          \/ o = Plain("reduce") /\ h = "parts" /\ k = "whole"
          \/ o = Op("position", "wpe", "none") /\ h = "whole" /\ k = "whole"
          \/ (\E name \in {"ln1", "ln2", "ln_f"} : o = Op("norm", name, "none")) /\ h = "whole" /\ k = "whole"
          \/ (\E name \in {"attn_proj_bias", "mlp_proj_bias"} : o = Op("bias", name, "none")) /\ h = "whole" /\ k = "whole"
          \/ o = Plain("copy") /\ h = "whole" /\ k = "shared"
          \/ o = Op("linear", "qkv", "qkv_bias") /\ h = "shared" /\ k = "qkv"
          \/ o = Op("linear", "fc", "fc_bias") /\ h = "shared" /\ k = "hidden"
          \/ o = Op("linear", "head", "none") /\ h = "shared" /\ k = "logits"
          \/ o = Plain("attend") /\ h = "qkv" /\ k = "heads"
          \/ o = Op("linear", "attn_proj", "none") /\ h = "heads" /\ k = "parts"
          \/ o = Op("linear", "mlp_proj", "none") /\ h = "hidden" /\ k = "parts"
          \/ o = Plain("act") /\ h = "hidden" /\ k = "hidden"
          \/ o = Plain("act") /\ h = "gathered" /\ k = "gathered"
          \/ o = Plain("gather") /\ h = "hidden" /\ k = "gathered"
          \/ o = Plain("scatter") /\ h = "gathered" /\ k = "hidden"
          \/ o = Plain("loss") /\ h = "logits" /\ k = "end"
        <2>. HIDE DEF o
        <2>1. <<o, h, k>> \in Turns
            BY DEF o
        <2>. QED
            BY <2>1 DEF Turns
    <1>2. CASE o = Op("lookup", "wte", "none") /\ h = "start" /\ k = "parts"
        BY <1>2, ApplyLookup
    <1>3. CASE o = Plain("reduce") /\ h = "parts" /\ k = "whole"
        BY <1>3, ApplyReduce
    <1>4. CASE o = Op("position", "wpe", "none") /\ h = "whole" /\ k = "whole"
        BY <1>4, ApplyPosition
    <1>5. CASE (\E name \in {"ln1", "ln2", "ln_f"} : o = Op("norm", name, "none")) /\ h = "whole" /\ k = "whole"
        BY <1>5, ApplyNorm
    <1>6. CASE (\E name \in {"attn_proj_bias", "mlp_proj_bias"} : o = Op("bias", name, "none")) /\ h = "whole" /\ k = "whole"
        BY <1>6, ApplyBias
    <1>7. CASE o = Plain("copy") /\ h = "whole" /\ k = "shared"
        <2>1. Current.kind = "copy"
            BY <1>7 DEF Plain, Op
        <2>. QED
            BY <1>7, <2>1, ApplyPassed
    <1>8. CASE o = Op("linear", "qkv", "qkv_bias") /\ h = "shared" /\ k = "qkv"
        BY <1>8, ApplyQkv
    <1>9. CASE o = Op("linear", "fc", "fc_bias") /\ h = "shared" /\ k = "hidden"
        BY <1>9, ApplyHidden
    <1>10. CASE o = Op("linear", "head", "none") /\ h = "shared" /\ k = "logits"
        BY <1>10, ApplyHead
    <1>11. CASE o = Plain("attend") /\ h = "qkv" /\ k = "heads"
        BY <1>11, ApplyAttend
    <1>12. CASE o = Op("linear", "attn_proj", "none") /\ h = "heads" /\ k = "parts"
        BY <1>12, ApplyRowAttention
    <1>13. CASE o = Op("linear", "mlp_proj", "none") /\ h = "hidden" /\ k = "parts"
        BY <1>13, ApplyRowMLP
    <1>14. CASE o = Plain("act") /\ h = "hidden" /\ k = "hidden"
        BY <1>14, ApplyActSlice
    <1>15. CASE o = Plain("act") /\ h = "gathered" /\ k = "gathered"
        BY <1>15, ApplyActWhole
    <1>16. CASE o = Plain("gather") /\ h = "hidden" /\ k = "gathered"
        BY <1>16, ApplyGather
    <1>17. CASE o = Plain("scatter") /\ h = "gathered" /\ k = "hidden"
        BY <1>17, ApplyScatter
    <1>18. CASE o = Plain("loss") /\ h = "logits" /\ k = "end"
        BY <1>18 DEF Holds
    <1>. QED
        BY <1>1, <1>2, <1>3, <1>4, <1>5, <1>6, <1>7, <1>8, <1>9, <1>10, <1>11, <1>12, <1>13, <1>14, <1>15, <1>16, <1>17, <1>18

-----------------------------------------------------------------------------
(* The exponential of sums, and the reciprocal. *)

\* The table of powers, up to a point.
PowersTo(n) == {f \in [0 .. n -> Num] : \A i \in 0 .. n : f[i] = IF i = 0 THEN 1 ELSE (Generator * f[i - 1]) % P}

LEMMA PowersExist == \A n \in 0 .. P - 2 : PowersTo(n) # {}
    <1>. DEFINE C == {n \in 0 .. P - 2 : PowersTo(n) # {}}
    <1>1. P - 2 \in Nat
        BY DEF P
    <1>2. 0 \in C
        <2>. DEFINE f == [i \in 0 .. 0 |-> 1]
        <2>1. f \in PowersTo(0)
            BY DEF PowersTo, Num, P
        <2>. QED
            BY <1>1, <2>1
    <1>3. ASSUME NEW n \in 0 .. (P - 2) - 1, n \in C
          PROVE  n + 1 \in C
        <2>1. PICK f : f \in PowersTo(n)
            BY <1>3
        <2>. DEFINE h == [i \in 0 .. n + 1 |-> IF i <= n THEN f[i] ELSE (Generator * f[n]) % P]
        <2>2. n \in Nat /\ n + 1 \in 0 .. P - 2
            BY <1>1, <1>3
        <2>3. f \in [0 .. n -> Num] /\ \A i \in 0 .. n : f[i] = IF i = 0 THEN 1 ELSE (Generator * f[i - 1]) % P
            BY <2>1 DEF PowersTo
        <2>4. (Generator * f[n]) % P \in Num
            <3>2. n \in 0 .. n
                BY <2>2
            <3>3. f[n] \in Num
                BY <2>3, <3>2
            <3>1. f[n] \in Int
                BY <3>3 DEF Num, P
            <3>. QED
                BY <3>1 DEF Num, P, Generator
        <2>5. h \in [0 .. n + 1 -> Num]
            BY <2>2, <2>3, <2>4
        <2>6. ASSUME NEW i \in 0 .. n + 1
              PROVE  h[i] = IF i = 0 THEN 1 ELSE (Generator * h[i - 1]) % P
            <3>1. CASE i <= n
                <4>1. i \in 0 .. n /\ (i # 0 => i - 1 \in 0 .. n + 1 /\ i - 1 <= n)
                    BY <2>2, <3>1
                <4>. QED
                    BY <2>2, <2>3, <3>1, <4>1
            <3>2. CASE i = n + 1
                <4>1. n \in 0 .. n + 1 /\ i - 1 = n /\ i # 0 /\ ~(i <= n) /\ h[n] = f[n]
                    BY <2>2, <3>2
                <4>. QED
                    BY <4>1
            <3>. QED
                BY <2>2, <3>1, <3>2
        <2>7. h \in PowersTo(n + 1)
            <3>. HIDE DEF h
            <3>. QED
                BY <2>2, <2>5, <2>6 DEF PowersTo
        <2>. QED
            BY <2>2, <2>7
    <1>4. \A n \in 0 .. P - 2 : n \in C
        <2>. DEFINE m == P - 2
        <2>. HIDE DEF C
        <2>1. m \in Nat /\ 0 \in C /\ \A i \in 0 .. m - 1 : i \in C => i + 1 \in C
            BY <1>1, <1>2, <1>3
        <2>. HIDE DEF m
        <2>2. \A i \in 0 .. m : i \in C
            BY <2>1, InductionTo
        <2>. QED
            BY <2>2 DEF m
    <1>. QED
        BY <1>4

LEMMA PowersAre ==
    /\ PowerTable \in [0 .. P - 2 -> Num]
    /\ PowerTable[0] = 1
    /\ \A i \in 0 .. P - 3 : PowerTable[i + 1] = (2 * PowerTable[i]) % P
    <1>1. P - 2 \in 0 .. P - 2
        BY DEF P
    <1>2. PICK f : f \in PowersTo(P - 2)
        BY <1>1, PowersExist
    <1>3. f = [n \in 0 .. P - 2 |-> IF n = 0 THEN 1 ELSE (Generator * f[n - 1]) % P]
        BY <1>2 DEF PowersTo
    <1>4. PowerTable = [n \in 0 .. P - 2 |-> IF n = 0 THEN 1 ELSE (Generator * PowerTable[n - 1]) % P]
        BY <1>3 DEF PowerTable
    <1>. DEFINE T == PowerTable
    <1>. HIDE DEF PowerTable
    <1>5. T = [n \in 0 .. 99 |-> IF n = 0 THEN 1 ELSE (2 * T[n - 1]) % 101]
        BY <1>4 DEF P, Generator
    <1>. HIDE DEF T
    <1>6. T[0] = 1
        BY <1>5
    <1>7. ASSUME NEW i \in 0 .. 98
          PROVE  T[i + 1] = (2 * T[i]) % 101
        <2>1. i + 1 \in 0 .. 99 /\ i + 1 # 0 /\ (i + 1) - 1 = i
            OBVIOUS
        <2>. QED
            BY <1>5, <2>1
    <1>. DEFINE C == {i \in 0 .. 99 : T[i] \in 0 .. 100}
    <1>8. 0 \in C
        BY <1>6
    <1>9. ASSUME NEW i \in 0 .. 98, i \in C
          PROVE  i + 1 \in C
        <2>1. T[i] \in Int
            BY <1>9
        <2>2. (2 * T[i]) % 101 \in 0 .. 100
            BY <2>1
        <2>. QED
            BY <1>7, <2>2
    <1>10. \A i \in 0 .. 99 : i \in C
        <2>. DEFINE m == 99
        <2>. HIDE DEF C
        <2>1. m \in Nat /\ 0 \in C /\ \A i \in 0 .. m - 1 : i \in C => i + 1 \in C
            BY <1>8, <1>9
        <2>. HIDE DEF m
        <2>2. \A i \in 0 .. m : i \in C
            BY <2>1, InductionTo
        <2>. QED
            BY <2>2 DEF m
    <1>11. T \in [0 .. 99 -> 0 .. 100]
        BY <1>5, <1>10
    <1>12. P = 101 /\ P - 2 = 99 /\ P - 3 = 98 /\ Num = 0 .. 100
        BY DEF P, Num
    <1>. QED
        BY <1>6, <1>7, <1>11, <1>12 DEF T

\* A power of a sum.
LEMMA PowerSum ==
    ASSUME NEW j \in 0 .. 99
    PROVE  \A i \in 0 .. 99 - j : PowerTable[i + j] = (PowerTable[i] * PowerTable[j]) % P
    <1>. DEFINE m == 99 - j
                T == PowerTable
                C == {i \in 0 .. m : T[i + j] = (T[i] * T[j]) % P}
    <1>1. m \in Nat
        OBVIOUS
    <1>2. T[0] = 1 /\ (\A i \in 0 .. 99 : T[i] \in 0 .. 100) /\ \A i \in 0 .. 98 : T[i + 1] = (2 * T[i]) % P
        <2>1. P = 101 /\ P - 2 = 99 /\ P - 3 = 98 /\ Num = 0 .. 100
            BY DEF P, Num
        <2>. QED
            BY <2>1, PowersAre
    <1>. HIDE DEF T
    <1>3. 0 \in C
        <2>1. T[j] \in 0 .. 100 /\ 0 + j = j
            BY <1>2
        <2>2. (1 * T[j]) % P = T[j]
            BY <2>1 DEF P
        <2>. QED
            BY <1>1, <1>2, <2>1, <2>2
    <1>4. ASSUME NEW i \in 0 .. m - 1, i \in C
          PROVE  i + 1 \in C
        <2>1. i \in 0 .. 98 /\ i + j \in 0 .. 98 /\ i \in 0 .. 99 /\ (i + 1) + j = (i + j) + 1 /\ i + 1 \in 0 .. m
            OBVIOUS
        <2>. DEFINE a == T[i]
                    b == T[j]
        <2>2. a \in Int /\ b \in Int
            <3>1. a \in 0 .. 100
                BY <1>2, <2>1
            <3>2. b \in 0 .. 100
                BY <1>2
            <3>. QED
                BY <3>1, <3>2
        <2>3. T[i + j] = (a * b) % P
            BY <1>4
        <2>4. T[(i + j) + 1] = (2 * ((a * b) % P)) % P
            <3>1. T[(i + j) + 1] = (2 * T[i + j]) % P
                BY <1>2, <2>1
            <3>. QED
                BY <2>3, <3>1
        <2>5. T[i + 1] = (2 * a) % P
            BY <1>2, <2>1
        <2>. HIDE DEF a, b, m
        <2>6. (2 * ((a * b) % P)) % P = (2 * (a * b)) % P
            <3>1. a * b \in Int
                BY <2>2
            <3>. QED
                BY <3>1, ModTimes
        <2>7. (((2 * a) % P) * b) % P = ((2 * a) * b) % P
            <3>1. 2 * a \in Int
                BY <2>2
            <3>. QED
                BY <2>2, <3>1, ModTimes
        <2>8. (2 * a) * b = 2 * (a * b)
            BY <2>2, SMT
        <2>9. T[(i + 1) + j] = (T[i + 1] * b) % P
            BY <2>1, <2>4, <2>5, <2>6, <2>7, <2>8
        <2>. QED
            BY <2>1, <2>9 DEF b
    <1>5. \A i \in 0 .. m : i \in C
        <2>. HIDE DEF C, m
        <2>. QED
            BY <1>1, <1>3, <1>4, InductionTo
    <1>. QED
        BY <1>5 DEF T

\* Of two powers in the table, one too.
InTable(i, j, k) == i \in 0 .. 99 /\ j \in 0 .. 99 /\ k \in 0 .. 99 /\ k = i + j
LEMMA PowerAt ==
    ASSUME NEW i, NEW j, NEW k, InTable(i, j, k)
    PROVE  PowerTable[k] = (PowerTable[i] * PowerTable[j]) % 101
    <1>1. j \in 0 .. 99 /\ i \in 0 .. 99 - j /\ k = i + j
        BY DEF InTable
    <1>. QED
        BY <1>1, PowerSum DEF P

\* The powers return to 1.
LEMMA PowerLast == PowerTable[99] = 51 /\ PowerTable[0] = 1
    <1>. DEFINE T == PowerTable
    <1>1. T[0] = 1 /\ \A i \in 0 .. 98 : T[i + 1] = (2 * T[i]) % 101
        <2>1. P = 101 /\ P - 3 = 98
            BY DEF P
        <2>. QED
            BY <2>1, PowersAre
    <1>2. \A i, j, k : InTable(i, j, k) => T[k] = (T[i] * T[j]) % 101
        BY PowerAt
    <1>. HIDE DEF T
    <1>3. T[0 + 1] = (2 * T[0]) % 101 /\ T[1 + 1] = (2 * T[1]) % 101 /\ T[2 + 1] = (2 * T[2]) % 101
          /\ T[3 + 1] = (2 * T[3]) % 101 /\ T[4 + 1] = (2 * T[4]) % 101
        BY <1>1
    <1>4. T[1] = 2 /\ T[2] = 4 /\ T[3] = 8 /\ T[4] = 16 /\ T[5] = 32
        BY <1>1, <1>3
    <1>5. T[10] = (T[5] * T[5]) % 101
        <2>1. InTable(5, 5, 10)
            BY DEF InTable
        <2>. QED
            BY <1>2, <2>1
    <1>6. T[10] = 14
        BY <1>4, <1>5
    <1>7. T[20] = (T[10] * T[10]) % 101
        <2>1. InTable(10, 10, 20)
            BY DEF InTable
        <2>. QED
            BY <1>2, <2>1
    <1>8. T[20] = 95
        BY <1>6, <1>7
    <1>9. T[24] = (T[20] * T[4]) % 101
        <2>1. InTable(20, 4, 24)
            BY DEF InTable
        <2>. QED
            BY <1>2, <2>1
    <1>10. T[24] = 5
        BY <1>4, <1>8, <1>9
    <1>11. T[24 + 1] = (2 * T[24]) % 101
        BY <1>1
    <1>12. T[25] = 10
        BY <1>10, <1>11
    <1>13. T[49] = (T[25] * T[24]) % 101
        <2>1. InTable(25, 24, 49)
            BY DEF InTable
        <2>. QED
            BY <1>2, <2>1
    <1>14. T[49] = 50
        BY <1>10, <1>12, <1>13
    <1>15. T[50] = (T[25] * T[25]) % 101
        <2>1. InTable(25, 25, 50)
            BY DEF InTable
        <2>. QED
            BY <1>2, <2>1
    <1>16. T[50] = 100
        BY <1>12, <1>15
    <1>17. T[99] = (T[50] * T[49]) % 101
        <2>1. InTable(50, 49, 99)
            BY DEF InTable
        <2>. QED
            BY <1>2, <2>1
    <1>18. T[99] = 51
        BY <1>14, <1>16, <1>17
    <1>. QED
        BY <1>1, <1>18 DEF T

LEMMA ExpType ==
    ASSUME NEW a \in Int
    PROVE  Exp(a) \in Num /\ a % 100 \in 0 .. 99 /\ Exp(a) = PowerTable[a % 100]
    <1>1. a % 100 \in 0 .. 99
        BY SMT
    <1>2. P - 1 = 100 /\ P - 2 = 99
        BY DEF P
    <1>3. PowerTable[a % 100] \in Num
        BY <1>1, <1>2, PowersAre
    <1>. QED
        BY <1>1, <1>2, <1>3 DEF Exp

LEMMA ExpZero == Exp(0) = 1
    <1>1. 0 % 100 = 0
        BY SMT
    <1>2. PowerTable[0] = 1
        BY PowersAre
    <1>. QED
        BY <1>1, <1>2, ExpType

\* Exp turns sums into products.
LEMMA ExpSum ==
    ASSUME NEW a \in Int, NEW b \in Int
    PROVE  Exp(a + b) = (Exp(a) * Exp(b)) % P
    <1>. DEFINE i == a % 100
                j == b % 100
                T == PowerTable
    <1>1. i \in 0 .. 99 /\ j \in 0 .. 99 /\ Exp(a) = T[i] /\ Exp(b) = T[j]
        BY ExpType
    <1>2. (a + b) % 100 = IF i + j <= 99 THEN i + j ELSE i + j - 100
        BY SMT
    <1>3. \A l \in 0 .. 99 : T[l] \in Int
        <2>1. P - 2 = 99 /\ \A x \in Num : x \in Int
            BY DEF P, Num
        <2>. QED
            BY <2>1, PowersAre
    <1>4. Exp(a + b) = T[(a + b) % 100]
        BY ExpType
    <1>. HIDE DEF i, j, T
    <1>5. CASE i + j <= 99
        <2>1. InTable(i, j, i + j)
            BY <1>1, <1>5 DEF InTable
        <2>2. T[i + j] = (T[i] * T[j]) % 101
            BY <2>1, PowerAt DEF T
        <2>. QED
            BY <1>1, <1>2, <1>4, <1>5, <2>2 DEF P
    <1>6. CASE ~(i + j <= 99)
        <2>. DEFINE k == i + j - 100
                    l == 99 - i
        <2>1. k \in 0 .. 98 /\ l \in 0 .. 99 /\ j = (k + 1) + l /\ 99 = i + l
            BY <1>1, <1>6
        <2>. HIDE DEF k, l
        <2>2. InTable(i, l, 99) /\ InTable(k + 1, l, j)
            BY <1>1, <2>1 DEF InTable
        <2>3. (T[i] * T[l]) % 101 = 51
            BY <2>2, PowerAt, PowerLast DEF T
        <2>4. T[j] = (T[k + 1] * T[l]) % 101
            BY <2>2, PowerAt DEF T
        <2>5. T[k + 1] = (2 * T[k]) % 101
            <3>1. P - 3 = 98 /\ P = 101
                BY DEF P
            <3>. QED
                BY <2>1, <3>1, PowersAre DEF T
        <2>. DEFINE x == T[i]
                    y == T[l]
                    z == T[k]
        <2>6. x \in Int /\ y \in Int /\ z \in Int /\ z = z % 101
            <3>1. k \in 0 .. 99
                BY <2>1
            <3>2. T[k] \in 0 .. 100
                <4>1. P - 2 = 99 /\ Num = 0 .. 100
                    BY DEF P, Num
                <4>. QED
                    BY <3>1, <4>1, PowersAre DEF T
            <3>. QED
                BY <1>1, <1>3, <2>1, <3>1, <3>2
        <2>. HIDE DEF x, y, z
        <2>7. (x * T[j]) % 101 = z
            <3>1. T[j] = (((2 * z) % 101) * y) % 101
                BY <2>4, <2>5 DEF z, y
            <3>2. (((2 * z) % 101) * y) % 101 = ((2 * z) * y) % 101
                <4>1. 2 * z \in Int
                    BY <2>6
                <4>. QED
                    BY <2>6, <4>1, ModTimes DEF P
            <3>3. (x * (((2 * z) * y) % 101)) % 101 = (x * ((2 * z) * y)) % 101
                <4>1. (2 * z) * y \in Int
                    BY <2>6, SMT
                <4>. QED
                    BY <2>6, <4>1, ModTimes DEF P
            <3>4. x * ((2 * z) * y) = (2 * z) * (x * y)
                BY <2>6, SMT
            <3>5. ((2 * z) * ((x * y) % 101)) % 101 = ((2 * z) * (x * y)) % 101
                <4>1. x * y \in Int /\ 2 * z \in Int
                    BY <2>6, SMT
                <4>. QED
                    BY <4>1, ModTimes DEF P
            <3>6. (x * y) % 101 = 51
                BY <2>3 DEF x, y
            <3>7. ((2 * z) * 51) % 101 = z
                BY <2>6
            <3>. QED
                BY <3>1, <3>2, <3>3, <3>4, <3>5, <3>6, <3>7
        <2>8. (a + b) % 100 = k
            BY <1>1, <1>2, <1>6 DEF k
        <2>. QED
            BY <1>1, <1>4, <2>7, <2>8 DEF x, z, P
    <1>. QED
        BY <1>5, <1>6

Invertible(n) == \E m \in Num : (n * m) % P = 1

\* The code's modulus stands for a field: 101 is a prime.
LEMMA NoDivisor ==
    ASSUME NEW k \in 2 .. 100
    PROVE  101 % k # 0
    <1>. DEFINE q == 101 \div k
    <1>1. 101 % k = 0 => 101 = k * q /\ q \in Nat
        <2>1. 101 \in Nat /\ k \in Nat \ {0}
            OBVIOUS
        <2>2. 101 \div k \in Nat /\ 101 = k * (101 \div k) + (101 % k)
            BY <2>1, Division
        <2>3. k * (101 \div k) \in Nat
            BY <2>1, <2>2, TimesNat
        <2>. QED
            BY <2>2, <2>3
    <1>2. \A n \in 2 .. 10 : \A m \in Nat : n * m # 101
        <2>1. ASSUME NEW n \in 2 .. 10, NEW m \in Nat, n * m = 101
              PROVE  FALSE
            <3>1. \/ n = 2 \/ n = 3 \/ n = 4 \/ n = 5 \/ n = 6 \/ n = 7 \/ n = 8 \/ n = 9 \/ n = 10
                OBVIOUS
            <3>. QED
                BY <2>1, <3>1
        <2>. QED
            BY <2>1
    <1>. HIDE DEF q
    <1>3. CASE k <= 10
        <2>1. k \in 2 .. 10
            BY <1>3
        <2>. QED
            BY <1>1, <1>2, <2>1
    <1>4. CASE k > 10 /\ 101 % k = 0
        <2>1. q \in Nat /\ 101 = k * q
            BY <1>1, <1>4
        <2>2. q # 0 /\ q # 1
            BY <2>1
        <2>3. q > 10 => k * q >= 11 * 11
            BY <1>4, <2>1, SMT
        <2>4. q \in 2 .. 10
            BY <2>1, <2>2, <2>3
        <2>5. q * k = 101
            BY <2>1, SMT
        <2>. QED
            BY <1>2, <2>4, <2>5
    <1>. QED
        BY <1>3, <1>4

LEMMA Inverses == \A n \in 1 .. 100 : Invertible(n)
    <1>. DEFINE C == {n \in 0 .. 100 : \A k \in 1 .. n : Invertible(k)}
    <1>1. 0 \in C
        OBVIOUS
    <1>2. ASSUME NEW n \in 0 .. 99, n \in C
          PROVE  n + 1 \in C
        <2>. DEFINE k == n + 1
        <2>1. k \in 1 .. 100
            OBVIOUS
        <2>2. Invertible(k)
            <3>1. CASE k = 1
                <4>1. 1 \in Num /\ (1 * 1) % P = 1
                    BY DEF Num, P
                <4>. QED
                    BY <3>1, <4>1 DEF Invertible
            <3>2. CASE k # 1
                <4>. DEFINE q == 101 \div k
                            r == 101 % k
                <4>1. k \in 2 .. 100
                    BY <2>1, <3>2
                <4>2. r # 0
                    BY <4>1, NoDivisor
                <4>3. q \in Nat /\ r \in 0 .. k - 1 /\ 101 = k * q + r
                    <5>1. 101 \in Nat /\ k \in Nat \ {0}
                        BY <4>1
                    <5>. HIDE DEF k
                    <5>. QED
                        BY <5>1, Division
                <4>. HIDE DEF q, r
                <4>4. r \in 1 .. n
                    BY <4>2, <4>3
                <4>5. PICK s \in Num : (r * s) % P = 1
                    BY <1>2, <4>4 DEF Invertible
                <4>. DEFINE p == 101 - q
                            m == (p * s) % P
                <4>6. s \in Int /\ p \in Int /\ k \in Int /\ r \in Int
                    BY <4>3, <4>4, <4>5 DEF Num, P
                <4>. HIDE DEF k, p
                <4>7. (k * p) % P = r
                    <5>1. k * p = 101 * (k - 1) + r
                        <6>1. k * (101 - q) = 101 * k - k * q
                            BY <4>3, <4>6, SMT
                        <6>2. k * q \in Int
                            BY <4>3, <4>6, SMT
                        <6>3. k * q = 101 - r
                            <7>. DEFINE y == k * q
                            <7>. HIDE DEF y
                            <7>1. y \in Int /\ 101 = y + r
                                BY <4>3, <6>2 DEF y
                            <7>2. y = 101 - r
                                BY <4>6, <7>1
                            <7>. QED
                                BY <7>2 DEF y
                        <6>4. k * p = 101 * k - (101 - r)
                            BY <6>1, <6>3 DEF p
                        <6>. QED
                            BY <4>6, <6>4
                    <5>2. k - 1 \in Nat /\ r \in 0 .. 100
                        BY <2>1, <4>3 DEF k
                    <5>3. (101 * (k - 1) + r) % 101 = r
                        <6>. DEFINE y == k - 1
                        <6>. HIDE DEF y
                        <6>1. y \in Nat /\ r \in 0 .. 101 - 1 /\ 101 \in Nat \ {0}
                            BY <5>2 DEF y
                        <6>2. (101 * y + r) % 101 = r
                            BY <6>1, DivUnique
                        <6>. QED
                            BY <6>2 DEF y
                    <5>. QED
                        BY <5>1, <5>3 DEF P
                <4>8. (k * m) % P = 1
                    <5>1. p * s \in Int /\ k * p \in Int
                        BY <4>6, SMT
                    <5>2. (k * ((p * s) % P)) % P = (k * (p * s)) % P
                        BY <4>6, <5>1, ModTimes
                    <5>3. k * (p * s) = (k * p) * s
                        BY <4>6, SMT
                    <5>4. (((k * p) % P) * s) % P = ((k * p) * s) % P
                        BY <4>6, <5>1, ModTimes
                    <5>. QED
                        BY <4>5, <4>7, <5>2, <5>3, <5>4
                <4>9. m \in Num
                    <5>1. p * s \in Int
                        BY <4>6, SMT
                    <5>. DEFINE y == p * s
                    <5>. HIDE DEF y
                    <5>2. y % P \in Num
                        BY <5>1 DEF y, Num, P
                    <5>. QED
                        BY <5>2 DEF y
                <4>. QED
                    BY <4>8, <4>9 DEF Invertible
            <3>. QED
                BY <3>1, <3>2
        <2>3. \A l \in 1 .. k : l = k \/ l \in 1 .. n
            OBVIOUS
        <2>. QED
            BY <1>2, <2>1, <2>2, <2>3
    <1>3. \A n \in 0 .. 100 : n \in C
        <2>. DEFINE m == 100
        <2>. HIDE DEF C
        <2>1. m \in Nat /\ \A i \in 0 .. m - 1 : i \in C => i + 1 \in C
            BY <1>2
        <2>. HIDE DEF m
        <2>2. \A i \in 0 .. m : i \in C
            BY <1>1, <2>1, InductionTo
        <2>. QED
            BY <2>2 DEF m
    <1>4. 100 \in C
        BY <1>3
    <1>. QED
        BY <1>4

LEMMA ModMod ==
    ASSUME NEW x \in Int
    PROVE  x % P \in Num /\ (x % P) % P = x % P
    BY DEF Num, P

\* A product of three, modulo P.
LEMMA ModThree ==
    ASSUME NEW x \in Int, NEW y \in Int, NEW z \in Int
    PROVE  /\ (((x * y) % P) * z) % P = (x * (y * z)) % P
           /\ (x * ((y * z) % P)) % P = (x * (y * z)) % P
    <1>1. x * y \in Int /\ y * z \in Int
        BY SMT
    <1>2. (((x * y) % P) * z) % P = ((x * y) * z) % P
        BY <1>1, ModTimes
    <1>3. (x * ((y * z) % P)) % P = (x * (y * z)) % P
        BY <1>1, ModTimes
    <1>4. (x * y) * z = x * (y * z)
        BY SMT
    <1>. QED
        BY <1>2, <1>3, <1>4

\* What there is a number for divides.
LEMMA ReciprocalIs ==
    /\ Reciprocal[0] = 0
    /\ \A n \in Num : n # 0 => Reciprocal[n] \in Num /\ (n * Reciprocal[n]) % P = 1
    <1>1. 0 \in Num
        BY DEF Num, P
    <1>2. Reciprocal[0] = 0
        BY <1>1 DEF Reciprocal
    <1>3. ASSUME NEW n \in Num, n # 0
          PROVE  Reciprocal[n] \in Num /\ (n * Reciprocal[n]) % P = 1
        <2>1. n \in 1 .. 100
            BY <1>3 DEF Num, P
        <2>2. \E m \in Num : (n * m) % P = 1
            BY <2>1, Inverses DEF Invertible
        <2>3. Reciprocal[n] = CHOOSE m \in Num : (n * m) % P = 1
            BY <1>3 DEF Reciprocal
        <2>. QED
            BY <2>2, <2>3
    <1>. QED
        BY <1>2, <1>3

\* A common factor of both drops out of a fraction.
LEMMA OverScaled ==
    ASSUME NEW a \in Int, NEW s \in Int, NEW e \in Int, NEW f \in Int, (e * f) % P = 1
    PROVE  Over((a * e) % P, (s * e) % P) = Over(a, s)
    <1>. DEFINE n == s % P
                w == (s * e) % P
    <1>1. n \in Num /\ n \in Int /\ w \in Num /\ w \in Int /\ w % P = w
        <2>1. s * e \in Int
            BY SMT
        <2>2. \A x \in Num : x \in Int
            BY DEF Num
        <2>. QED
            BY <2>1, <2>2, ModMod
    <1>2. w = (n * e) % P
        BY ModTimes
    <1>3. (w * f) % P = n
        <2>1. (((n * e) % P) * f) % P = (n * (e * f)) % P
            BY <1>1, ModThree
        <2>2. (n * ((e * f) % P)) % P = (n * (e * f)) % P
            BY <1>1, ModThree
        <2>3. (n * 1) % P = n
            BY <1>1, ModMod
        <2>. QED
            BY <1>2, <2>1, <2>2, <2>3
    <1>4. a * e \in Int
        BY SMT
    <1>. HIDE DEF n, w
    <1>5. CASE n = 0
        <2>1. w = 0
            BY <1>2, <1>5 DEF P
        <2>2. Over((a * e) % P, w) = (((a * e) % P) * 0) % P
            BY <1>1, <2>1, ReciprocalIs DEF Over
        <2>3. Over(a, s) = (a * 0) % P
            BY <1>5, ReciprocalIs DEF Over, n
        <2>4. (a * e) % P \in Int
            BY <1>4, ModMod DEF Num
        <2>5. (((a * e) % P) * 0) % P = 0 /\ (a * 0) % P = 0
            <3>. DEFINE x == (a * e) % P
            <3>. HIDE DEF x
            <3>1. x \in Int
                BY <2>4 DEF x
            <3>2. (x * 0) % P = 0 /\ (a * 0) % P = 0
                BY <3>1 DEF P
            <3>. QED
                BY <3>2 DEF x
        <2>. QED
            BY <2>2, <2>3, <2>5 DEF w
    <1>6. CASE n # 0
        <2>. DEFINE u == Reciprocal[n]
                    v == Reciprocal[w]
        <2>1. w # 0
            <3>1. (0 * f) % P = 0
                BY DEF P
            <3>. QED
                BY <1>3, <1>6, <3>1
        <2>2. u \in Num /\ (n * u) % P = 1 /\ v \in Num /\ (w * v) % P = 1
            BY <1>1, <1>6, <2>1, ReciprocalIs
        <2>3. u \in Int /\ v \in Int /\ u % P = u
            BY <2>2 DEF Num, P
        <2>4. Over((a * e) % P, w) = (((a * e) % P) * v) % P
            BY <1>1 DEF Over
        <2>5. Over(a, s) = (a * u) % P
            BY DEF Over, n
        <2>. HIDE DEF u, v
        <2>6. (e * v) % P = u
            <3>. DEFINE ev == e * v
            <3>1. ev \in Int
                BY <2>3, SMT
            \* u = u (w v) = u (n e v) = (u n) (e v) = e v
            <3>2. (n * ev) % P = 1
                <4>1. (((n * e) % P) * v) % P = (n * (e * v)) % P
                    BY <1>1, <2>3, ModThree
                <4>. QED
                    BY <1>2, <2>2, <4>1
            <3>. HIDE DEF ev
            <3>3. (((u * n) % P) * ev) % P = (u * (n * ev)) % P /\ (u * ((n * ev) % P)) % P = (u * (n * ev)) % P
                BY <1>1, <2>3, <3>1, ModThree
            <3>4. u * n = n * u
                BY <1>1, <2>3, SMT
            <3>5. (u * 1) % P = u /\ (1 * ev) % P = ev % P
                BY <2>3, <3>1
            <3>. QED
                BY <2>2, <3>2, <3>3, <3>4, <3>5 DEF ev
        <2>7. (((a * e) % P) * v) % P = (a * ((e * v) % P)) % P
            BY <2>3, ModThree
        <2>. QED
            BY <2>4, <2>5, <2>6, <2>7 DEF w
    <1>. QED
        BY <1>5, <1>6

\* The largest of some numbers.
LEMMA Largest ==
    ASSUME NEW S, IsFiniteSet(S), S # {}, \A x \in S : x \in Int
    PROVE  \E v \in S : \A u \in S : u <= v
    <1>. DEFINE C == {A \in SUBSET S : A # {} => \E v \in A : \A u \in A : u <= v}
    <1>1. {} \in C
        OBVIOUS
    <1>2. ASSUME NEW A \in SUBSET S, A # {}, \A x \in A : A \ {x} \in C
          PROVE  A \in C
        <2>1. PICK x \in A : TRUE
            BY <1>2
        <2>2. CASE A \ {x} = {}
            <3>1. \A u \in A : u = x /\ u <= x
                BY <2>1, <2>2
            <3>. QED
                BY <2>1, <3>1
        <2>3. CASE A \ {x} # {}
            <3>1. PICK v \in A \ {x} : \A u \in A \ {x} : u <= v
                BY <1>2, <2>1, <2>3
            <3>2. x \in Int /\ v \in Int /\ \A u \in A : u \in Int
                BY <2>1, <3>1
            <3>3. CASE x <= v
                <4>1. \A u \in A : u <= v
                    BY <3>1, <3>3
                <4>. QED
                    BY <3>1, <4>1
            <3>4. CASE v <= x
                <4>1. ASSUME NEW u \in A
                      PROVE  u <= x
                    <5>1. CASE u = x
                        BY <3>2, <5>1
                    <5>2. CASE u # x
                        <6>1. u <= v /\ u \in Int
                            BY <3>1, <3>2, <5>2
                        <6>. QED
                            BY <3>2, <3>4, <6>1
                    <5>. QED
                        BY <5>1, <5>2
                <4>. QED
                    BY <2>1, <4>1
            <3>. QED
                BY <3>2, <3>3, <3>4
        <2>. QED
            BY <2>2, <2>3
    <1>3. \A A \in SUBSET S : A \in C
        <2>. HIDE DEF C
        <2>. QED
            BY <1>1, <1>2, SubsetInduction
    <1>4. S \in C
        BY <1>3
    <1>. QED
        BY <1>4

\* RowMax is the largest of a row.
LEMMA RowMaxIs ==
    ASSUME NEW D, IsFiniteSet(D), D # {}, NEW row \in [D -> Int]
    PROVE  RowMax(row) \in Int
    <1>1. \A x \in Range(row) : x \in Int
        BY DEF Range
    <1>2. Range(row) # {}
        BY DEF Range
    <1>3. IsFiniteSet(Range(row))
        <2>1. row \in Surjection(D, Range(row))
            BY DEF Surjection, Range
        <2>. QED
            BY <2>1, FS_Surjection
    <1>4. \E v \in Range(row) : \A u \in Range(row) : u <= v
        BY <1>1, <1>2, <1>3, Largest
    <1>. QED
        BY <1>1, <1>4 DEF RowMax

-----------------------------------------------------------------------------
(* The loss from sharded logits. *)

\* A sum with one addend.
AddedOne(f, g, s) == IF s = {} THEN 0 ELSE f[Pick(s)] + g[s \ {Pick(s)}]

LEMMA SumOfOneOf ==
    ASSUME NEW S, IsFiniteSet(S), NEW f \in [S -> Int], NEW a \in S, \A x \in S \ {a} : f[x] = 0
    PROVE  SumFunction(f) = f[a]
    <1>. DEFINE v == f[a]
                k == [s \in SUBSET S |-> IF a \in s THEN v ELSE 0]
                Step(g) == [s \in SUBSET S |-> AddedOne(f, g, s)]
    <1>1. v \in Int
        OBVIOUS
    <1>2. \A s \in SUBSET S : k[s] = IF a \in s THEN v ELSE 0
        OBVIOUS
    <1>3. \A s \in SUBSET S : s # {} => Pick(s) \in s /\ s \ {Pick(s)} \in SUBSET S
        BY DEF Pick
    <1>. HIDE DEF v
    <1>4. f[a] = v /\ \A x \in S \ {a} : f[x] = 0
        BY DEF v
    <1>5. ASSUME NEW s \in SUBSET S
          PROVE  (IF a \in s THEN v ELSE 0) = AddedOne(f, k, s)
        <2>1. CASE s = {}
            BY <2>1 DEF AddedOne
        <2>2. CASE s # {}
            <3>. DEFINE x == Pick(s)
            <3>1. x \in s /\ s \ {x} \in SUBSET S
                BY <1>3, <2>2
            <3>2. k[s \ {x}] = IF a \in s \ {x} THEN v ELSE 0
                BY <1>2, <3>1
            <3>3. AddedOne(f, k, s) = f[x] + k[s \ {x}]
                BY <2>2 DEF AddedOne
            <3>. HIDE DEF x, k
            <3>4. CASE x = a
                <4>1. k[s \ {x}] = 0 /\ a \in s /\ f[x] = v
                    BY <1>4, <3>1, <3>2, <3>4
                <4>. QED
                    BY <1>1, <3>3, <4>1
            <3>5. CASE x # a
                <4>1. f[x] = 0 /\ k[s \ {x}] = IF a \in s THEN v ELSE 0
                    BY <1>4, <3>1, <3>2, <3>5
                <4>. QED
                    BY <1>1, <3>3, <4>1
            <3>. QED
                BY <3>4, <3>5
        <2>. QED
            BY <2>1, <2>2
    <1>6. k = Step(k)
        <2>1. k = [s \in SUBSET S |-> k[s]]
            OBVIOUS
        <2>2. \A s \in SUBSET S : k[s] = AddedOne(f, k, s)
            BY <1>2, <1>5
        <2>. HIDE DEF k
        <2>. QED
            BY <2>1, <2>2
    <1>. HIDE DEF k
    <1>. DEFINE g == CHOOSE e : e = Step(e)
    <1>7. g = Step(g)
        <2>. HIDE DEF Step
        <2>. QED
            BY <1>6
    <1>8. SumFunction(f) = g[S]
        <2>1. DOMAIN f = S
            OBVIOUS
        <2>. QED
            BY <2>1 DEF SumFunction, SumFunctionOnSet, FoldFunctionOnSet, MapThenFoldSet, AddedOne, Pick
    <1>. HIDE DEF g
    <1>9. \A s \in SUBSET S : g[s] = AddedOne(f, g, s)
        BY <1>7
    <1>. DEFINE C == {s \in SUBSET S : g[s] = IF a \in s THEN v ELSE 0}
    <1>10. {} \in C
        BY <1>9 DEF AddedOne
    <1>11. ASSUME NEW A \in SUBSET S, A # {}, \A x \in A : A \ {x} \in C
           PROVE  A \in C
        <2>. DEFINE x == Pick(A)
        <2>1. x \in A
            BY <1>3, <1>11
        <2>2. g[A \ {x}] = IF a \in A \ {x} THEN v ELSE 0
            BY <1>11, <2>1
        <2>3. g[A] = f[x] + g[A \ {x}]
            BY <1>9, <1>11 DEF AddedOne
        <2>. HIDE DEF x
        <2>4. CASE x = a
            <3>1. g[A \ {x}] = 0 /\ a \in A /\ f[x] = v
                BY <1>4, <2>1, <2>2, <2>4
            <3>2. g[A] = v
                BY <1>1, <2>3, <3>1
            <3>. QED
                BY <3>1, <3>2
        <2>5. CASE x # a
            <3>1. f[x] = 0 /\ g[A \ {x}] = IF a \in A THEN v ELSE 0
                BY <1>4, <2>1, <2>2, <2>5
            <3>2. g[A] = IF a \in A THEN v ELSE 0
                BY <1>1, <2>3, <3>1
            <3>. QED
                BY <3>2
        <2>. QED
            BY <2>4, <2>5
    <1>12. \A s \in SUBSET S : s \in C
        <2>. HIDE DEF C
        <2>. QED
            BY <1>10, <1>11, SubsetInduction
    <1>13. S \in C
        BY <1>12
    <1>. QED
        BY <1>8, <1>13 DEF v

LEMMA VocabShareIs ==
    ASSUME Loaded
    PROVE  /\ VocabShare(config) \in Nat \ {0} /\ Vocab = config.tp * VocabShare(config)
           /\ config.tp \in Nat \ {0} /\ Vocab % config.tp = 0 /\ Vocab \in Nat \ {0}
    <1>. DEFINE tp == config.tp
                size == VocabShare(config)
    <1>1. tp \in Nat \ {0} /\ Vocab % tp = 0 /\ Vocab \in Nat \ {0}
        BY ConfigsAssumption, EmbdIs DEF Loaded
    <1>2. size \in Nat /\ Vocab = tp * size
        <2>1. Vocab \div tp \in Nat /\ Vocab = tp * (Vocab \div tp) + (Vocab % tp)
            <3>. HIDE DEF tp
            <3>. QED
                BY <1>1, Division
        <2>2. tp * (Vocab \div tp) \in Nat
            BY <1>1, <2>1, TimesNat
        <2>. QED
            BY <1>1, <2>1, <2>2 DEF VocabShare
    <1>. HIDE DEF tp, size
    <1>3. size # 0
        BY <1>1, <1>2, SMT
    <1>. QED
        BY <1>1, <1>2, <1>3 DEF tp, size

\* The logits of a token, as the ranks of its replica hold them.
LogitsOf(v, r, n) == v[Single][r * SeqLen + n]

LEMMA LogitsAre ==
    ASSUME Loaded, NEW v, SliceIn(config, v, v[Single], Vocab), NEW r \in DpRanks, NEW n \in 1 .. SeqLen
    PROVE  /\ r * SeqLen + n \in 1 .. config.dp * SeqLen
           /\ LogitsOf(v, r, n) \in [1 .. Vocab -> Num]
           /\ \A t \in TpRanks :
                 /\ v[MeshAt(r, t)] \in Matrix(SeqLen, VocabShare(config))
                 /\ v[MeshAt(r, t)][n] \in [1 .. VocabShare(config) -> Num]
                 /\ \A i \in 1 .. VocabShare(config) :
                       /\ t * VocabShare(config) + i \in 1 .. Vocab
                       /\ v[MeshAt(r, t)][n][i] = LogitsOf(v, r, n)[t * VocabShare(config) + i]
    <1>. DEFINE z == v[Single]
                c == config
                size == Vocab \div c.tp
    <1>1. c \in Configs /\ Vocab \in Nat /\ Vocab % c.tp = 0 /\ size = VocabShare(config)
        BY VocabShareIs DEF Loaded, VocabShare
    <1>2. z \in Tokens(c, Vocab) /\ z \in Matrix(c.dp * SeqLen, Vocab) /\ SliceIn(c, v, z, Vocab)
        BY DEF SliceIn, Tokens
    <1>3. r \in 0 .. c.dp - 1
        BY DEF DpRanks
    <1>. HIDE DEF c, z
    <1>4. r * SeqLen + n \in 1 .. c.dp * SeqLen
        BY <1>1, <1>3, ReplicaRow
    <1>5. SliceAre(c, v, z, Vocab)
        BY <1>1, <1>2, SliceEq
    <1>6. z[r * SeqLen + n] \in [1 .. Vocab -> Num]
        BY <1>2, <1>4 DEF Matrix
    <1>7. ASSUME NEW t \in 0 .. c.tp - 1
          PROVE  /\ v[MeshAt(r, t)] \in Matrix(SeqLen, size)
                 /\ v[MeshAt(r, t)][n] \in [1 .. size -> Num]
                 /\ \A i \in 1 .. size : t * size + i \in 1 .. Vocab
                 /\ \A i \in 1 .. size : v[MeshAt(r, t)][n][i] = z[r * SeqLen + n][t * size + i]
        <2>1. v[MeshAt(r, t)] \in Matrix(SeqLen, size)
            BY <1>3, <1>5 DEF SliceAre
        <2>2. v[MeshAt(r, t)][n] \in [1 .. size -> Num]
            BY <2>1 DEF Matrix
        <2>3. \A i \in 1 .. size : t * size + i \in 1 .. Vocab
            BY <1>1, SliceIndex
        <2>4. \A i \in 1 .. size : v[MeshAt(r, t)][n][i] = z[r * SeqLen + n][t * size + i]
            BY <1>3, <1>5 DEF SliceAre
        <2>. QED
            BY <2>1, <2>2, <2>3, <2>4
    <1>. HIDE DEF size
    <1>8. TpRanks = 0 .. c.tp - 1
        BY DEF TpRanks, c
    <1>. QED
        BY <1>1, <1>4, <1>6, <1>7, <1>8 DEF LogitsOf, z, c

\* The maximum that the ranks of a group agree on.
GroupMax(v, r, n) == RowMax([t \in 0 .. config.tp - 1 |-> RowMax(v[MeshAt(r, t)][n])])

LEMMA PeerIs ==
    ASSUME NEW r \in DpRanks, NEW t \in TpRanks
    PROVE  World(MeshAt(r, t)) = config.tp /\ \A e : TpPeer(MeshAt(r, t), e) = MeshAt(r, e)
    BY MeshIs DEF TpPeer, MeshAt

LEMMA MaxIs ==
    ASSUME Loaded, NEW v, SliceIn(config, v, v[Single], Vocab), NEW r \in DpRanks, NEW n \in 1 .. SeqLen
    PROVE  /\ GroupMax(v, r, n) \in Int
           /\ \A t \in TpRanks : MaxOverGroup(v, MeshAt(r, t), n) = GroupMax(v, r, n)
    <1>. DEFINE tp == config.tp
                size == VocabShare(config)
                tops == [t \in 0 .. tp - 1 |-> RowMax(v[MeshAt(r, t)][n])]
    <1>1. tp \in Nat \ {0} /\ size \in Nat \ {0}
        BY VocabShareIs
    <1>2. ASSUME NEW t \in 0 .. tp - 1
          PROVE  RowMax(v[MeshAt(r, t)][n]) \in Int
        <2>1. t \in TpRanks
            BY DEF TpRanks
        <2>2. v[MeshAt(r, t)][n] \in [1 .. size -> Num]
            BY <2>1, LogitsAre
        <2>3. v[MeshAt(r, t)][n] \in [1 .. size -> Int]
            BY <2>2 DEF Num
        <2>. DEFINE row == v[MeshAt(r, t)][n]
        <2>. HIDE DEF row, size
        <2>4. IsFiniteSet(1 .. size) /\ 1 .. size # {}
            <3>1. 1 \in Int /\ size \in Int /\ 1 \in 1 .. size
                BY <1>1
            <3>2. IsFiniteSet(1 .. size)
                BY <3>1, FS_Interval, Zenon
            <3>. QED
                BY <3>1, <3>2
        <2>5. row \in [1 .. size -> Int]
            BY <2>3 DEF row
        <2>6. RowMax(row) \in Int
            BY <2>4, <2>5, RowMaxIs
        <2>. QED
            BY <2>6 DEF row
    <1>3. tops \in [0 .. tp - 1 -> Int]
        BY <1>2
    <1>4. IsFiniteSet(0 .. tp - 1) /\ 0 .. tp - 1 # {}
        <2>. HIDE DEF tp
        <2>1. 0 \in Int /\ tp - 1 \in Int /\ 0 \in 0 .. tp - 1
            BY <1>1
        <2>2. IsFiniteSet(0 .. tp - 1)
            BY <2>1, FS_Interval, Zenon
        <2>. QED
            BY <2>1, <2>2
    <1>5. GroupMax(v, r, n) = RowMax(tops)
        BY DEF GroupMax
    <1>6. ASSUME NEW t \in TpRanks
          PROVE  MaxOverGroup(v, MeshAt(r, t), n) = GroupMax(v, r, n)
        BY PeerIs DEF MaxOverGroup, GroupMax
    <1>. HIDE DEF tops, tp
    <1>7. RowMax(tops) \in Int
        BY <1>3, <1>4, RowMaxIs
    <1>. QED
        BY <1>5, <1>6, <1>7

\* The sum of the exponentials of all the logits, of which each rank adds up
\* its own, over the largest.
Exps(row) == [j \in 1 .. Vocab |-> Exp(row[j])]

LEMMA ExpsAre ==
    ASSUME NEW row \in [1 .. Vocab -> Num]
    PROVE  /\ \A j \in 1 .. Vocab : Exps(row)[j] \in Int /\ row[j] \in Int
           /\ Total(Exps(row)) \in Num /\ Total(Exps(row)) = TotalOn(Exps(row), 1 .. Vocab)
    <1>1. \A j \in 1 .. Vocab : row[j] \in Int
        BY DEF Num
    <1>2. ASSUME NEW j \in 1 .. Vocab
          PROVE  Exps(row)[j] \in Int
        <2>1. Exp(row[j]) \in Num
            BY <1>1, ExpType
        <2>2. Exp(row[j]) \in Int
            BY <2>1 DEF Num
        <2>. QED
            BY <2>2 DEF Exps
    <1>. DEFINE f == Exps(row)
                V == 1 .. Vocab
    <1>3. f = [j \in V |-> f[j]]
        BY DEF Exps
    <1>4. IsFiniteSet(V)
        <2>1. 1 \in Int /\ Vocab \in Int
            BY EmbdIs
        <2>. QED
            BY <2>1, FS_Interval, Zenon
    <1>5. \A j \in V : f[j] \in Int
        BY <1>2
    <1>. HIDE DEF f, V
    <1>6. Total(f) = TotalOn(f, V)
        BY <1>3, TotalAll
    <1>7. TotalOn(f, V) \in Num
        BY <1>4, <1>5, TotalType
    <1>. QED
        BY <1>1, <1>2, <1>6, <1>7 DEF f, V

LEMMA SumExpIs ==
    ASSUME Loaded, NEW v, SliceIn(config, v, v[Single], Vocab), NEW r \in DpRanks, NEW t \in TpRanks,
           NEW n \in 1 .. SeqLen
    PROVE  SumExp(v, MeshAt(r, t), n) =
               (Exp(-GroupMax(v, r, n)) * Total(Exps(LogitsOf(v, r, n)))) % P
    <1>. DEFINE tp == config.tp
                size == VocabShare(config)
                row == LogitsOf(v, r, n)
                top == GroupMax(v, r, n)
                f == [j \in 1 .. Vocab |-> Exp(row[j] - top)]
                g == [s \in 0 .. tp - 1 |-> Total(ExpLogits(v, MeshAt(r, s))[n])]
                h == Exps(row)
                k == Exp(-top)
    <1>1. /\ tp \in Nat \ {0} /\ size \in Nat \ {0} /\ Vocab = tp * size /\ Vocab % tp = 0 /\ Vocab \in Nat
          /\ size = Vocab \div tp
        BY VocabShareIs DEF VocabShare
    <1>2. row \in [1 .. Vocab -> Num] /\ top \in Int
        BY LogitsAre, MaxIs
    <1>3. k \in Int
        <2>1. -top \in Int
            BY <1>2
        <2>. HIDE DEF top
        <2>2. Exp(-top) \in Num
            BY <2>1, ExpType
        <2>. QED
            BY <2>2 DEF Num
    <1>4. ASSUME NEW j \in 1 .. Vocab
          PROVE  f[j] \in Int /\ f[j] % P = (k * h[j]) % P /\ h[j] \in Int
        <2>1. row[j] \in Int /\ h[j] \in Int /\ h[j] = Exp(row[j])
            <3>. HIDE DEF row
            <3>. QED
                BY <1>2, ExpsAre DEF Exps
        <2>. DEFINE x == row[j]
        <2>2. f[j] = Exp(x - top)
            OBVIOUS
        <2>3. Exp(x + (-top)) = (Exp(x) * k) % P
            <3>1. -top \in Int
                BY <1>2
            <3>. DEFINE y == -top
            <3>. HIDE DEF x, y
            <3>2. x \in Int /\ y \in Int
                BY <2>1, <3>1 DEF x, y
            <3>3. Exp(x + y) = (Exp(x) * Exp(y)) % P
                BY <3>2, ExpSum
            <3>. QED
                BY <3>3 DEF y
        <2>4. x + (-top) = x - top
            BY <1>2, <2>1
        <2>. HIDE DEF k, h, f, top
        <2>5. f[j] = (h[j] * k) % P
            BY <2>1, <2>2, <2>3, <2>4
        <2>6. h[j] * k = k * h[j] /\ k * h[j] \in Int
            BY <1>3, <2>1, SMT
        <2>7. f[j] = (k * h[j]) % P
            BY <2>5, <2>6
        <2>8. f[j] \in Num /\ f[j] % P = (k * h[j]) % P
            BY <2>6, <2>7, ModMod
        <2>. QED
            BY <2>1, <2>8 DEF Num
    <1>5. ASSUME NEW s \in 0 .. tp - 1
          PROVE  g[s] = TotalOn(Piece(f, size, s), 1 .. size)
        <2>. DEFINE d == MeshAt(r, s)
        <2>1. s \in TpRanks
            BY DEF TpRanks
        <2>2. /\ v[d] \in Matrix(SeqLen, size) /\ v[d][n] \in [1 .. size -> Num]
              /\ \A i \in 1 .. size : s * size + i \in 1 .. Vocab /\ v[d][n][i] = row[s * size + i]
            BY <2>1, LogitsAre
        <2>3. MaxOverGroup(v, d, n) = top
            BY <2>1, MaxIs
        <2>4. DOMAIN v[d] = 1 .. SeqLen /\ DOMAIN v[d][n] = 1 .. size
            BY <2>2 DEF Matrix
        <2>. HIDE DEF d, size, row, top, tp
        <2>5. ExpLogits(v, d)[n] = [i \in 1 .. size |-> Exp(v[d][n][i] - top)]
            BY <2>3, <2>4 DEF ExpLogits
        <2>6. Piece(f, size, s) = [i \in 1 .. size |-> Exp(row[s * size + i] - top)]
            BY <2>2 DEF Piece
        <2>7. ExpLogits(v, d)[n] = Piece(f, size, s)
            BY <2>2, <2>5, <2>6
        <2>8. g[s] = Total(ExpLogits(v, d)[n])
            BY DEF d
        <2>9. Piece(f, size, s) = [i \in 1 .. size |-> Piece(f, size, s)[i]]
            BY DEF Piece
        <2>. DEFINE p == Piece(f, size, s)
        <2>. HIDE DEF f, p
        <2>10. Total(p) = TotalOn(p, 1 .. size)
            BY <2>9, TotalAll DEF p
        <2>. QED
            BY <2>7, <2>8, <2>10 DEF p
    <1>6. SumExp(v, MeshAt(r, t), n) = Total(g)
        <2>1. World(MeshAt(r, t)) = tp /\ \A e : TpPeer(MeshAt(r, t), e) = MeshAt(r, e)
            BY PeerIs
        <2>. HIDE DEF tp
        <2>. QED
            BY <2>1 DEF SumExp
    <1>7. g = [s \in 0 .. tp - 1 |-> g[s]]
        OBVIOUS
    <1>8. Total(h) = TotalOn(h, 1 .. Vocab)
        <2>. HIDE DEF row
        <2>. QED
            BY <1>2, ExpsAre
    <1>9. IsFiniteSet(1 .. Vocab)
        <2>1. 1 \in Int /\ Vocab \in Int
            BY <1>1
        <2>. QED
            BY <2>1, FS_Interval, Zenon
    <1>. HIDE DEF f, g, h, k, tp, size
    <1>10. Total(g) = TotalOn(g, 0 .. tp - 1)
        BY <1>7, TotalAll
    <1>11. ByPiece(f, g, Vocab, tp)
        BY <1>1, <1>4, <1>5 DEF ByPiece
    <1>12. TotalOn(g, 0 .. tp - 1) = TotalOn(f, 1 .. Vocab)
        BY <1>1, <1>11, TotalPieces
    <1>13. TotalOn(f, 1 .. Vocab) = (k * TotalOn(h, 1 .. Vocab)) % P
        BY <1>3, <1>4, <1>9, TotalScale
    <1>. QED
        BY <1>6, <1>8, <1>10, <1>12, <1>13 DEF h, k

\* The token to predict.
TargetOf(r, n) == TargetsOf(Single)[r * SeqLen + n]

\* The logit of the target, from its owner.
LEMMA PredictedIs ==
    ASSUME Loaded, NEW v, SliceIn(config, v, v[Single], Vocab), NEW r \in DpRanks, NEW t \in TpRanks,
           NEW n \in 1 .. SeqLen
    PROVE  /\ TargetOf(r, n) \in 0 .. Vocab - 1
           /\ Predicted(v, MeshAt(r, t), n) = LogitsOf(v, r, n)[TargetOf(r, n) + 1] - GroupMax(v, r, n)
    <1>. DEFINE tp == config.tp
                size == VocabShare(config)
                row == LogitsOf(v, r, n)
                top == GroupMax(v, r, n)
                id == TargetOf(r, n)
                o == Owner(config, id)
                Mine(s) == IF Owns(MeshAt(r, s), id)
                           THEN v[MeshAt(r, s)][n][LocalIndex(MeshAt(r, s), id)] - top
                           ELSE 0
                f == [s \in 0 .. tp - 1 |-> Mine(s)]
    <1>1. tp \in Nat \ {0} /\ Vocab \in Nat \ {0} /\ size \in Nat \ {0}
        BY VocabShareIs
    <1>2. row \in [1 .. Vocab -> Num] /\ top \in Int
        BY LogitsAre, MaxIs
    <1>3. /\ TargetsOf(MeshAt(r, t))[n] = id /\ id \in 0 .. Vocab - 1
        <2>1. batch[r].targets \in [1 .. SeqLen -> 0 .. Vocab - 1]
            BY SamplesAre
        <2>2. id = batch[r].targets[n]
            BY TokensOfSingle DEF TargetOf
        <2>3. TargetsOf(MeshAt(r, t)) = batch[r].targets
            BY TokensOfMesh
        <2>. QED
            BY <2>1, <2>2, <2>3
    <1>4. TpRanks = 0 .. tp - 1
        BY DEF TpRanks
    <1>. HIDE DEF id, row, top
    <1>5. o \in 0 .. tp - 1
        BY <1>3, <1>4, OwnerIs
    <1>6. \A s \in 0 .. tp - 1 : Owns(MeshAt(r, s), id) <=> s = o
        BY <1>3, <1>4, OwnerIs
    <1>7. LocalIndex(MeshAt(r, o), id) \in 1 .. size /\ o * size + LocalIndex(MeshAt(r, o), id) = id + 1
        BY <1>3, <1>4, <1>5, OwnerIs
    <1>8. f[o] = row[id + 1] - top
        <2>. DEFINE i == LocalIndex(MeshAt(r, o), id)
        <2>1. f[o] = v[MeshAt(r, o)][n][i] - top
            BY <1>5, <1>6
        <2>2. o \in TpRanks
            BY <1>4, <1>5
        <2>3. v[MeshAt(r, o)][n][i] = row[o * size + i]
            <3>. HIDE DEF i, o, f
            <3>. QED
                BY <1>7, <2>2, LogitsAre DEF row, i
        <2>. QED
            BY <1>7, <2>1, <2>3
    <1>9. \A s \in (0 .. tp - 1) \ {o} : f[s] = 0
        BY <1>6
    <1>10. row[id + 1] - top \in Int
        <2>1. id + 1 \in 1 .. Vocab
            BY <1>1, <1>3
        <2>2. row[id + 1] \in Int
            BY <1>2, <2>1 DEF Num
        <2>. QED
            BY <1>2, <2>2
    <1>11. f \in [0 .. tp - 1 -> Int]
        <2>. HIDE DEF o
        <2>1. \A s \in 0 .. tp - 1 : f[s] \in Int
            <3>1. ASSUME NEW s \in 0 .. tp - 1
                  PROVE  f[s] \in Int
                <4>1. CASE s = o
                    BY <1>8, <1>10, <4>1
                <4>2. CASE s # o
                    <5>1. f[s] = 0
                        BY <1>9, <4>2
                    <5>. QED
                        BY <5>1
                <4>. QED
                    BY <4>1, <4>2
            <3>. QED
                BY <3>1
        <2>2. f = [s \in 0 .. tp - 1 |-> f[s]]
            OBVIOUS
        <2>. HIDE DEF f
        <2>. QED
            BY <2>1, <2>2
    <1>12. Predicted(v, MeshAt(r, t), n) = SumFunction(f)
        <2>1. World(MeshAt(r, t)) = tp /\ \A e : TpPeer(MeshAt(r, t), e) = MeshAt(r, e)
            BY PeerIs
        <2>2. \A s \in 0 .. tp - 1 : MaxOverGroup(v, MeshAt(r, s), n) = top
            BY <1>4, MaxIs DEF top
        <2>. DEFINE d == MeshAt(r, t)
        <2>. HIDE DEF tp, d
        <2>5. World(d) = tp /\ (\A e : TpPeer(d, e) = MeshAt(r, e)) /\ TargetsOf(d)[n] = id
            BY <1>3, <2>1 DEF d
        <2>. DEFINE Term(e) == IF Owns(e, id) THEN v[e][n][LocalIndex(e, id)] - MaxOverGroup(v, e, n) ELSE 0
        <2>6. Predicted(v, d, n) = SumFunction([s \in 0 .. tp - 1 |-> Term(TpPeer(d, s))])
            BY <2>5 DEF Predicted
        <2>7. Predicted(v, MeshAt(r, t), n) = Predicted(v, d, n)
            BY DEF d
        <2>3. [s \in 0 .. tp - 1 |-> Term(TpPeer(d, s))] = [s \in 0 .. tp - 1 |-> Term(MeshAt(r, s))]
            <3>. HIDE DEF Term
            <3>. QED
                BY <2>5
        <2>4. \A s \in 0 .. tp - 1 : f[s] = Term(MeshAt(r, s))
            BY <2>2
        <2>8. f = [s \in 0 .. tp - 1 |-> f[s]]
            OBVIOUS
        <2>. HIDE DEF Term, f
        <2>9. f = [s \in 0 .. tp - 1 |-> Term(MeshAt(r, s))]
            BY <2>4, <2>8
        <2>. QED
            BY <2>3, <2>6, <2>7, <2>9
    <1>13. IsFiniteSet(0 .. tp - 1)
        <2>. HIDE DEF tp
        <2>1. 0 \in Int /\ tp - 1 \in Int
            BY <1>1
        <2>. QED
            BY <2>1, FS_Interval, Zenon
    <1>. HIDE DEF f, o, tp
    <1>14. SumFunction(f) = f[o]
        <2>. DEFINE D == 0 .. tp - 1
        <2>1. IsFiniteSet(D) /\ f \in [D -> Int] /\ o \in D /\ \A s \in D \ {o} : f[s] = 0
            BY <1>5, <1>9, <1>11, <1>13
        <2>. HIDE DEF D
        <2>. QED
            BY <2>1, SumOfOneOf
    <1>. QED
        BY <1>3, <1>8, <1>12, <1>14 DEF id, row, top

\* The loss of a token: the share that exp of the target's logit has of the sum
\* of the exponentials.
TokenReference(row, id) == Over(Exp(row[id + 1]), Total(Exps(row)))

LEMMA TokenLossIs ==
    ASSUME Loaded, NEW v, SliceIn(config, v, v[Single], Vocab), NEW r \in DpRanks, NEW t \in TpRanks,
           NEW n \in 1 .. SeqLen
    PROVE  Over(Exp(Predicted(v, MeshAt(r, t), n)), SumExp(v, MeshAt(r, t), n))
               = TokenReference(LogitsOf(v, r, n), TargetOf(r, n))
    <1>. DEFINE row == LogitsOf(v, r, n)
                top == GroupMax(v, r, n)
                id == TargetOf(r, n)
                x == row[id + 1]
                s == Total(Exps(row))
                e == Exp(-top)
                f == Exp(top)
                a == Exp(x)
    <1>1. row \in [1 .. Vocab -> Num] /\ top \in Int
        BY LogitsAre, MaxIs
    <1>2. id \in 0 .. Vocab - 1 /\ Predicted(v, MeshAt(r, t), n) = x - top
        BY PredictedIs
    <1>3. SumExp(v, MeshAt(r, t), n) = (e * s) % P
        BY SumExpIs
    <1>. HIDE DEF row, top, id
    <1>4. x \in Int
        <2>1. id + 1 \in 1 .. Vocab
            BY <1>2, EmbdIs
        <2>. QED
            BY <1>1, <2>1 DEF Num
    <1>5. s \in Int
        <2>1. s \in Num
            BY <1>1, ExpsAre
        <2>. HIDE DEF s
        <2>. QED
            BY <2>1 DEF Num
    <1>. HIDE DEF x, s
    <1>6. -top \in Int
        BY <1>1
    <1>. DEFINE m == -top
    <1>7. e = Exp(m)
        OBVIOUS
    <1>8. m \in Int /\ x + m = x - top /\ m + top = 0
        BY <1>1, <1>4
    <1>. HIDE DEF m
    <1>9. e \in Int /\ f \in Int /\ a \in Int
        <2>1. e \in Num /\ f \in Num /\ a \in Num
            BY <1>1, <1>4, <1>7, <1>8, ExpType
        <2>. HIDE DEF e, f, a
        <2>. QED
            BY <2>1 DEF Num
    <1>10. (e * f) % P = 1
        <2>1. Exp(m + top) = (Exp(m) * Exp(top)) % P
            BY <1>1, <1>8, ExpSum
        <2>. QED
            BY <1>7, <1>8, <2>1, ExpZero
    <1>11. Exp(x - top) = (a * e) % P
        <2>1. Exp(x + m) = (Exp(x) * Exp(m)) % P
            BY <1>4, <1>8, ExpSum
        <2>. QED
            BY <1>7, <1>8, <2>1
    <1>. HIDE DEF e, f, a
    <1>12. e * s = s * e
        BY <1>5, <1>9, SMT
    <1>13. Over((a * e) % P, (s * e) % P) = Over(a, s)
        BY <1>5, <1>9, <1>10, OverScaled
    <1>14. TokenReference(row, id) = Over(a, s)
        BY DEF TokenReference, a, s, x
    <1>. QED
        BY <1>2, <1>3, <1>11, <1>12, <1>13, <1>14 DEF row, id

IsReplica(c, r) == r \in 0 .. c.dp - 1
IsRows(c, s, S) == s \in [1 .. c.dp * SeqLen -> S]

\* The rows of a replica, of any rows.
LEMMA ReplicaRows ==
    ASSUME NEW c \in Configs, NEW r, IsReplica(c, r), NEW S, NEW s, IsRows(c, s, S)
    PROVE  RowsOfReplica(s, r) = [n \in 1 .. SeqLen |-> s[r * SeqLen + n]]
    <1>. DEFINE a == r * SeqLen
                b == (r + 1) * SeqLen
                m == c.dp * SeqLen
                x == SubSeq(s, a + 1, b)
    <1>1. c.dp \in Nat \ {0} /\ SeqLen \in Nat \ {0} /\ m \in Nat
        BY ConfigIs
    <1>2. r \in Nat /\ r + 1 <= c.dp /\ r + 1 \in Nat
        BY <1>1 DEF IsReplica
    <1>3. a \in Nat /\ b \in Nat /\ b <= m
        BY <1>1, <1>2, TimesNat, TimesOrder
    <1>4. b = a + SeqLen
        BY <1>1, <1>2, SMT
    <1>5. RowsOfReplica(s, r) = x
        BY DEF RowsOfReplica
    <1>. HIDE DEF a, b, m
    <1>6. s \in Seq(S) /\ Len(s) = m
        <2>1. s \in [1 .. m -> S]
            BY DEF m, IsRows
        <2>. QED
            BY <1>1, <2>1
    <1>7. \A i \in a + 1 .. b : i \in 1 .. m
        BY <1>1, <1>3, <1>4
    <1>8. x = [i \in 1 .. SeqLen |-> s[a + i]]
        <2>1. x = [i \in 1 .. (b - (a + 1)) + 1 |-> s[(a + 1) + (i - 1)]]
            BY <1>1, <1>3, <1>6, <1>7
        <2>2. (b - (a + 1)) + 1 = SeqLen
            BY <1>1, <1>3, <1>4
        <2>3. \A i \in 1 .. SeqLen : (a + 1) + (i - 1) = a + i
            BY <1>1, <1>3
        <2>. HIDE DEF x
        <2>. QED
            BY <2>1, <2>2, <2>3
    <1>. QED
        BY <1>5, <1>8 DEF a

\* The losses of all tokens, from the unsharded logits.
Losses(z) == [n \in DOMAIN z |-> TokenReference(z[n], TargetsOf(Single)[n])]

LEMMA LossOfMesh ==
    ASSUME Loaded, NEW v, SliceIn(config, v, v[Single], Vocab), NEW r \in DpRanks, NEW t \in TpRanks
    PROVE  TokenLoss(v, MeshAt(r, t)) = RowsOfReplica(Losses(v[Single]), r)
    <1>. DEFINE m == config.dp * SeqLen
                z == v[Single]
                d == MeshAt(r, t)
                rows == Losses(z)
                S == {rows[n] : n \in 1 .. m}
    <1>1. SeqLen \in Nat \ {0} /\ config \in Configs /\ r \in 0 .. config.dp - 1
        BY EmbdIs DEF Loaded, DpRanks
    <1>2. z \in Matrix(m, Vocab)
        BY DEF SliceIn, Tokens
    <1>3. DOMAIN z = 1 .. m
        BY <1>2 DEF Matrix
    <1>4. rows = [n \in 1 .. m |-> TokenReference(z[n], TargetsOf(Single)[n])]
        BY <1>3 DEF Losses
    <1>. HIDE DEF rows
    <1>11. \A n \in 1 .. m : rows[n] \in S
        OBVIOUS
    <1>12. rows = [n \in 1 .. m |-> rows[n]]
        BY <1>4
    <1>. HIDE DEF S
    <1>5. rows \in [1 .. m -> S]
        <2>. HIDE DEF m
        <2>. QED
            BY <1>11, <1>12
    <1>6. RowsOfReplica(rows, r) = [n \in 1 .. SeqLen |-> rows[r * SeqLen + n]]
        <2>. DEFINE c == config
        <2>1. c \in Configs /\ IsReplica(c, r)
            BY <1>1 DEF IsReplica
        <2>2. IsRows(c, rows, S)
            BY <1>5 DEF IsRows
        <2>. HIDE DEF c, m
        <2>. QED
            BY <2>1, <2>2, ReplicaRows
    <1>7. ASSUME NEW n \in 1 .. SeqLen
          PROVE  rows[r * SeqLen + n] = Over(Exp(Predicted(v, d, n)), SumExp(v, d, n))
        <2>. DEFINE i == r * SeqLen + n
        <2>1. i \in 1 .. m
            BY LogitsAre
        <2>. HIDE DEF i, z, d
        <2>2. rows[i] = TokenReference(z[i], TargetsOf(Single)[i])
            BY <1>4, <2>1
        <2>3. z[i] = LogitsOf(v, r, n) /\ TargetsOf(Single)[i] = TargetOf(r, n)
            BY DEF LogitsOf, TargetOf, z, i
        <2>4. Over(Exp(Predicted(v, d, n)), SumExp(v, d, n)) = TokenReference(LogitsOf(v, r, n), TargetOf(r, n))
            BY TokenLossIs DEF d
        <2>. QED
            BY <2>2, <2>3, <2>4 DEF i
    <1>8. DOMAIN v[d] = 1 .. SeqLen
        <2>1. 1 \in 1 .. SeqLen
            BY <1>1
        <2>2. v[d] \in Matrix(SeqLen, VocabShare(config))
            BY <2>1, LogitsAre
        <2>. QED
            BY <2>2 DEF Matrix
    <1>9. TokenLoss(v, d) = [n \in 1 .. SeqLen |-> Over(Exp(Predicted(v, d, n)), SumExp(v, d, n))]
        BY <1>8 DEF TokenLoss
    <1>. HIDE DEF d
    <1>10. TokenLoss(v, d) = RowsOfReplica(rows, r)
        BY <1>6, <1>7, <1>9
    <1>. QED
        BY <1>10 DEF d, rows, z

-----------------------------------------------------------------------------
(* The forward pass. *)

\* How far forward has come.
Reached ==
    /\ Holds(Path[at][1], value)
    /\ Path[at][2] => Holds("whole", skip)
    /\ \E S : saved[Single] \in Seq(S) /\ Len(saved[Single]) = at - 1
    /\ Path[at][1] = "logits" => value[Single] = Linear(saved[Single][at - 1], FullWeight["head"])

\* The weights are those of the constructors until the optimizer's step, the
\* forward pass has come where the tape says, and its loss is the cross entropy.
ForwardInv ==
    /\ config \in Configs
    /\ batch \in [0 .. config.dp - 1 -> Samples]
    /\ phase \in {"forward", "backward", "sync", "opt", "done"}
    /\ phase # "done" => Loaded
    /\ at \in 1 .. Length
    /\ phase = "forward" => Reached
    /\ LossIsCrossEntropy

LEMMA TapeKept ==
    ASSUME config' = config
    PROVE  Tape' = Tape /\ Length' = Length /\ Path' = Path
    <1>1. Tape' = Tape
        BY DEF Tape, Embedding, Block, LMHead, Residual, CausalSelfAttention, MLP, ColumnParallel, RowParallel
    <1>. HIDE DEF Tape
    <1>2. Length' = Length
        BY <1>1 DEF Length
    <1>3. Path' = Path
        BY <1>1 DEF Path
    <1>. QED
        BY <1>1, <1>2, <1>3

\* An operator, from where it finds the activation to where it leaves it.
LEMMA ApplyMove ==
    ASSUME Loaded, NEW u, Outputs(u), NEW a, NEW b, Moves(Current, a, b),
           Holds(a[1], value), a[2] => Holds("whole", skip)
    PROVE  /\ Holds(b[1], u)
           /\ b[2] => IF Current.kind = "fork" THEN Holds("whole", value) ELSE Holds("whole", skip)
           /\ b[1] = "logits" => u[Single] = Linear(value[Single], FullWeight["head"])
    <1>. DEFINE o == Current
    <1>1. CASE o.kind = "fork"
        <2>1. a = <<"whole", FALSE>> /\ b = <<"whole", TRUE>>
            BY <1>1, MoveKinds
        <2>2. a[1] = "whole" /\ b[1] = "whole"
            BY <2>1
        <2>3. Holds("whole", value)
            BY <2>2
        <2>4. Holds("whole", u)
            BY <1>1, <2>3, ApplyPassed
        <2>. QED
            BY <1>1, <2>2, <2>3, <2>4
    <1>2. CASE o.kind = "join"
        <2>1. a = <<"whole", TRUE>> /\ b = <<"whole", FALSE>> /\ o = Plain("join")
            BY <1>2, MoveKinds
        <2>2. a[1] = "whole" /\ b[1] = "whole" /\ a[2] /\ ~b[2]
            BY <2>1
        <2>3. Holds("whole", value) /\ Holds("whole", skip)
            BY <2>2
        <2>4. Holds("whole", u)
            BY <2>1, <2>3, ApplyJoin
        <2>. QED
            BY <2>2, <2>4
    <1>3. CASE o.kind \notin {"fork", "join"}
        <2>1. a[2] = b[2] /\ <<o, a[1], b[1]>> \in Turns
            BY <1>3, MoveKinds
        <2>. DEFINE h == a[1]
                    k == b[1]
        <2>2. <<Current, h, k>> \in Turns /\ Holds(h, value)
            BY <2>1
        <2>. HIDE DEF h, k
        <2>3. Holds(k, u) /\ (k = "logits" => u[Single] = Linear(value[Single], FullWeight["head"]))
            BY <2>2, ApplyTurn
        <2>. QED
            BY <1>3, <2>1, <2>3 DEF k
    <1>. QED
        BY <1>1, <1>2, <1>3

LEMMA HeldNext ==
    ASSUME config' = config, NEW b, Path'[at'] = b, NEW u, u = value', Holds(b[1], u),
           NEW t, t = skip', b[2] => Holds("whole", t)
    PROVE  Holds(Path[at][1], value)' /\ (Path[at][2] => Holds("whole", skip))'
    BY DEF Holds

\* A position, and what forward does there.
LEMMA Here ==
    ASSUME ForwardInv
    PROVE  /\ config.gathered \in BOOLEAN /\ Length \in Nat /\ Length > 2 /\ at \in Nat /\ at >= 1 /\ at <= Length
           /\ Moves(Current, Path[at], Path[at + 1])
           /\ Current.kind = "loss" <=> at = Length
    <1>1. config.gathered \in BOOLEAN
        BY ConfigsAssumption DEF ForwardInv
    <1>2. at \in 1 .. Length
        BY DEF ForwardInv
    <1>3. Length \in Nat /\ Length > 2 /\ Moves(Current, Path[at], Path[at + 1])
        BY <1>1, <1>2, PathIs DEF Current
    <1>4. Current.kind = "loss" <=> at = Length
        BY <1>1, <1>2, LossLast DEF Current
    <1>. QED
        BY <1>1, <1>2, <1>3, <1>4

LEMMA LoadedKept ==
    ASSUME Loaded, config' = config, batch' = batch, weight' = weight
    PROVE  Loaded'
    BY DEF Loaded, Devices, MeshDevices, DpRanks, TpRanks, World

\* The first position.
LEMMA ForwardStarts ==
    ASSUME Init
    PROVE  ForwardInv
    <1>1. config \in Configs /\ config.gathered \in BOOLEAN
        BY ConfigsAssumption DEF Init
    <1>2. Length \in Nat /\ Length > 2 /\ Path[1] = <<"start", FALSE>>
        BY <1>1, PathIs
    <1>3. Path[1][1] = "start" /\ Path[1][2] = FALSE
        BY <1>2
    <1>4. at = 1 /\ phase = "forward" /\ saved[Single] = << >>
        BY SingleIs DEF Init
    <1>5. Holds(Path[at][1], value)
        BY <1>3, <1>4 DEF Holds
    <1>6. saved[Single] \in Seq({}) /\ Len(saved[Single]) = at - 1
        BY <1>4
    <1>7. Reached
        BY <1>3, <1>4, <1>5, <1>6 DEF Reached
    <1>8. Loaded
        BY DEF Init, Loaded
    <1>9. LossIsCrossEntropy
        BY <1>4 DEF LossIsCrossEntropy
    <1>. QED
        BY <1>1, <1>2, <1>4, <1>7, <1>8, <1>9 DEF ForwardInv, Loaded

\* Before the loss, forward goes on to the next place.
LEMMA ForwardGoesOn ==
    ASSUME ForwardInv, Forward, at # Length
    PROVE  ForwardInv'
    <1>1. Loaded /\ Reached /\ config' = config /\ batch' = batch /\ weight' = weight
        BY DEF ForwardInv, Forward
    <1>2. /\ Length \in Nat /\ at \in Nat /\ at >= 1 /\ at < Length
          /\ Moves(Current, Path[at], Path[at + 1]) /\ Current.kind # "loss"
        BY Here
    <1>3. at' = at + 1 /\ phase' = "forward"
        BY DEF Forward, Length, ForwardInv
    <1>4. Tape' = Tape /\ Length' = Length /\ Path' = Path
        BY <1>1, TapeKept
    <1>. DEFINE a == Path[at]
                b == Path[at + 1]
                u == [d \in Devices |-> ForwardOf(d)]
                s == saved[Single]
                t == IF Current.kind = "fork" THEN value ELSE skip
    <1>5. Outputs(u) /\ value' = u
        BY DEF Outputs, Forward
    <1>6. skip' = t
        BY DEF Forward
    <1>7. saved'[Single] = Append(s, value[Single])
        BY <1>2, SingleIs DEF Forward
    <1>8. Moves(Current, a, b) /\ Holds(a[1], value) /\ (a[2] => Holds("whole", skip))
        BY <1>1, <1>2 DEF Reached
    <1>. HIDE DEF a, b, u, t
    <1>9. /\ Holds(b[1], u)
          /\ b[2] => IF Current.kind = "fork" THEN Holds("whole", value) ELSE Holds("whole", skip)
          /\ b[1] = "logits" => u[Single] = Linear(value[Single], FullWeight["head"])
        BY <1>1, <1>5, <1>8, ApplyMove
    <1>10. Path'[at'] = b
        BY <1>3, <1>4 DEF b
    <1>11. b[2] => Holds("whole", t)
        BY <1>9 DEF t
    <1>12. Holds(Path[at][1], value)' /\ (Path[at][2] => Holds("whole", skip))'
        BY <1>1, <1>5, <1>6, <1>9, <1>10, <1>11, HeldNext
    <1>13. \E S : saved'[Single] \in Seq(S) /\ Len(saved'[Single]) = at' - 1 /\ saved'[Single][at' - 1] = value[Single]
        <2>1. PICK S : s \in Seq(S) /\ Len(s) = at - 1
            BY <1>1 DEF Reached
        <2>. DEFINE S2 == S \cup {value[Single]}
                    x == value[Single]
        <2>. HIDE DEF x, s
        <2>2. s \in Seq(S \cup {x}) /\ x \in S \cup {x}
            BY <2>1
        <2>3. Append(s, x) \in Seq(S \cup {x}) /\ Len(Append(s, x)) = at /\ Append(s, x)[at] = x
            BY <1>2, <2>1, <2>2
        <2>4. at' - 1 = at
            BY <1>2, <1>3
        <2>. QED
            BY <1>7, <2>3, <2>4 DEF x
    <1>14. b[1] = "logits" => value'[Single] = Linear(saved'[Single][at' - 1], FullWeight["head"])
        BY <1>5, <1>9, <1>13
    <1>15. Reached'
        BY <1>10, <1>12, <1>13, <1>14 DEF Reached
    <1>16. Loaded'
        BY <1>1, LoadedKept
    <1>17. LossIsCrossEntropy'
        BY <1>3 DEF LossIsCrossEntropy
    <1>18. at' \in 1 .. Length'
        BY <1>2, <1>3, <1>4
    <1>. QED
        BY <1>3, <1>15, <1>16, <1>17, <1>18 DEF ForwardInv, Loaded

LEMMA TargetsKept ==
    ASSUME config' = config, batch' = batch
    PROVE  TargetsOf(Single)' = TargetsOf(Single)
    BY DEF TargetsOf, MySamples

\* Forward ends with the loss.
LEMMA ForwardEnds ==
    ASSUME ForwardInv, Forward, at = Length
    PROVE  ForwardInv'
    <1>1. Loaded /\ Reached /\ config' = config /\ batch' = batch /\ weight' = weight
        BY DEF ForwardInv, Forward
    <1>2. /\ Length \in Nat /\ Length > 2 /\ at = Length
          /\ Moves(Current, Path[at], Path[at + 1]) /\ Current.kind = "loss"
        BY Here
    <1>3. at' = at /\ phase' = "backward"
        BY DEF Forward, Length, ForwardInv
    <1>4. Tape' = Tape /\ Length' = Length /\ Path' = Path
        BY <1>1, TapeKept
    <1>. DEFINE s == saved[Single]
                y == ForwardOf(Single)
                z == value[Single]
                b == Path[at + 1]
    <1>5. Path[at][1] = "logits"
        <2>1. b[1] = "end"
            BY <1>2, MoveKinds
        <2>2. Moves(Current, Path[at], b)
            BY <1>2
        <2>. HIDE DEF b
        <2>. QED
            BY <2>1, <2>2, MoveBack
    <1>6. SliceIn(config, value, z, Vocab) /\ z = Linear(s[Length - 1], FullWeight["head"])
        BY <1>1, <1>2, <1>5 DEF Reached, Holds
    <1>7. z \in Matrix(config.dp * SeqLen, Vocab)
        BY <1>6 DEF SliceIn, Tokens
    <1>8. loss' = [d \in Devices |-> TokenLoss(value, d)]
        BY <1>2 DEF Forward
    <1>9. \A d \in MeshDevices : loss'[d] = RowsOfReplica(Losses(z), d[2])
        <2>1. ASSUME NEW r \in DpRanks, NEW t \in TpRanks
              PROVE  TokenLoss(value, MeshAt(r, t)) = RowsOfReplica(Losses(z), r)
            BY <1>1, <1>6, LossOfMesh
        <2>2. ASSUME NEW r \in DpRanks, NEW t \in TpRanks
              PROVE  /\ MeshAt(r, t) \in Devices /\ MeshAt(r, t)[2] = r
            BY MeshIs
        <2>3. \A d \in MeshDevices : \E r \in DpRanks : \E t \in TpRanks : d = MeshAt(r, t)
            BY DEF MeshDevices, MeshAt
        <2>. QED
            BY <1>8, <2>1, <2>2, <2>3
    <1>10. saved'[Single] = Append(s, y)
        BY <1>2, SingleIs DEF Forward
    <1>11. saved'[Single][Length - 1] = s[Length - 1]
        <2>1. PICK S : s \in Seq(S) /\ Len(s) = Length - 1
            BY <1>1, <1>2 DEF Reached
        <2>. HIDE DEF s, y
        <2>2. s \in Seq(S \cup {y}) /\ y \in S \cup {y}
            BY <2>1
        <2>. QED
            BY <1>2, <1>10, <2>1, <2>2
    <1>. HIDE DEF s, y
    <1>12. Loaded'
        BY <1>1, LoadedKept
    <1>13. TargetsOf(Single)' = TargetsOf(Single)
        BY <1>1, TargetsKept
    <1>14. LossIsCrossEntropy'
        <2>. DEFINE y2 == Linear(saved'[Single][Length' - 1], weight'[Single]["head"])
                    g == TargetsOf(Single)
                    rows == [n \in DOMAIN z |->
                                Over(Exp(z[n][g[n] + 1]), Total([j \in 1 .. Vocab |-> Exp(z[n][j])]))]
        <2>1. weight'[Single]["head"] = FullWeight["head"]
            BY <1>1, WeightsOfSingle
        <2>2. y2 = z
            BY <1>4, <1>6, <1>11, <2>1
        <2>. HIDE DEF z, y2
        <2>3. rows = Losses(z)
            BY DEF Losses, TokenReference, Exps
        <2>. HIDE DEF rows
        <2>4. \A d \in MeshDevices : loss'[d] = RowsOfReplica(rows, d[2])
            BY <1>9, <2>3
        <2>5. MeshDevices' = MeshDevices
            BY <1>1 DEF MeshDevices, DpRanks, TpRanks
        <2>6. TargetsOf(Single)' = g
            BY <1>13
        <2>. HIDE DEF g
        <2>7. [n \in DOMAIN y2 |->
                  Over(Exp(y2[n][TargetsOf(Single)'[n] + 1]), Total([j \in 1 .. Vocab |-> Exp(y2[n][j])]))] = rows
            BY <2>2, <2>6 DEF rows
        <2>. QED
            BY <2>4, <2>5, <2>7 DEF LossIsCrossEntropy, y2
    <1>18. at' \in 1 .. Length'
        BY <1>2, <1>3, <1>4
    <1>. QED
        BY <1>3, <1>12, <1>14, <1>18 DEF ForwardInv, Loaded

\* Backward leaves the loss behind.
LEMMA BackwardKeeps ==
    ASSUME ForwardInv, Backward
    PROVE  ForwardInv'
    <1>1. Loaded /\ config' = config /\ batch' = batch /\ weight' = weight /\ at \in 1 .. Length
        BY DEF ForwardInv, Backward
    <1>2. Length \in Nat /\ Length > 2
        BY Here
    <1>3. Length' = Length
        BY <1>1, TapeKept
    <1>4. Loaded'
        BY <1>1, LoadedKept
    <1>5. \/ phase' = "sync" /\ at' = at
          \/ at' = at - 1 /\ at' \in 1 .. Length /\ phase' = "backward"
        BY <1>1, <1>2 DEF Backward
    <1>6. ~(phase' = "backward" /\ at' = Length')
        BY <1>1, <1>2, <1>3, <1>5
    <1>7. LossIsCrossEntropy'
        BY <1>6 DEF LossIsCrossEntropy
    <1>8. at' \in 1 .. Length' /\ phase' \in {"sync", "backward"}
        BY <1>1, <1>3, <1>5
    <1>. QED
        BY <1>4, <1>7, <1>8 DEF ForwardInv, Loaded

\* After backward, nothing of forward is left but the place on the tape.
LEMMA LaterKeeps ==
    ASSUME ForwardInv, AverageGradients \/ OptStep
    PROVE  ForwardInv'
    <1>1. config' = config /\ batch' = batch /\ at' = at /\ phase' \in {"opt", "done"} /\ phase # "done"
        BY DEF AverageGradients, OptStep
    <1>2. Length' = Length
        BY <1>1, TapeKept
    <1>3. phase' # "done" => Loaded'
        <2>1. phase' # "done" => weight' = weight
            BY DEF AverageGradients, OptStep
        <2>. QED
            BY <1>1, <2>1, LoadedKept DEF ForwardInv
    <1>4. LossIsCrossEntropy'
        BY <1>1 DEF LossIsCrossEntropy
    <1>. QED
        BY <1>1, <1>2, <1>3, <1>4 DEF ForwardInv

\* record_comm and stuttering leave all of it as it is.
LEMMA RestKeeps ==
    ASSUME ForwardInv, UNCHANGED <<config, batch, phase, at, value, saved, skip, loss, weight>>
    PROVE  ForwardInv'
    <1>1. Length' = Length /\ Path' = Path
        BY TapeKept
    <1>2. Loaded => Loaded'
        BY LoadedKept
    <1>3. Reached => Reached'
        <2>1. ASSUME Reached
              PROVE  Holds(Path[at][1], value)' /\ (Path[at][2] => Holds("whole", skip))'
            BY <1>1, <2>1 DEF Reached, Holds
        <2>. QED
            BY <1>1, <2>1 DEF Reached
    <1>4. LossIsCrossEntropy'
        <2>1. MeshDevices' = MeshDevices /\ TargetsOf(Single)' = TargetsOf(Single)
            BY TargetsKept DEF MeshDevices, DpRanks, TpRanks
        <2>2. LossIsCrossEntropy
            BY DEF ForwardInv
        <2>. QED
            BY <1>1, <2>1, <2>2 DEF LossIsCrossEntropy
    <1>. QED
        BY <1>1, <1>2, <1>3, <1>4 DEF ForwardInv

\* The invariant of the forward pass: what the devices hold is what the place
\* on the tape says, in every state of a training step.
THEOREM ForwardStays == Spec => []ForwardInv
    <1>1. Init => ForwardInv
        BY ForwardStarts
    <1>2. ForwardInv /\ [Next]_vars => ForwardInv'
        <2>. SUFFICES ASSUME ForwardInv, [Next]_vars
                      PROVE  ForwardInv'
            OBVIOUS
        <2>1. CASE Forward
            BY <2>1, ForwardGoesOn, ForwardEnds
        <2>2. CASE Backward
            BY <2>2, BackwardKeeps
        <2>3. CASE AverageGradients \/ OptStep
            BY <2>3, LaterKeeps
        <2>4. CASE EnterRecord
            BY <2>4, RestKeeps DEF EnterRecord
        <2>5. CASE ExitRecord
            BY <2>5, RestKeeps DEF ExitRecord
        <2>6. CASE UNCHANGED vars
            BY <2>6, RestKeeps DEF vars
        <2>7. Terminating => UNCHANGED vars
            BY DEF Terminating
        <2>. QED
            BY <2>1, <2>2, <2>3, <2>4, <2>5, <2>6, <2>7 DEF Next
    <1>. QED
        BY <1>1, <1>2, PTL DEF Spec

\* The code behaviour: _VocabParallelCrossEntropy computes, from slices of the
\* logits on the ranks of a tensor group and three reductions, the cross entropy
\* of the unsharded logits.
THEOREM ShardedLossIsCrossEntropy == Spec => []LossIsCrossEntropy
    <1>1. ForwardInv => LossIsCrossEntropy
        BY DEF ForwardInv
    <1>. QED
        BY <1>1, ForwardStays, PTL

\* The code behaviour: between the modules of GPT.forward every rank has the
\* whole activation of its sequence, as a single device computes it; each partial
\* sum of a row-parallel layer or of the embedding has been added up once.
THEOREM ForwardActivationsAgree == Spec => [](phase = "forward" => ActivationsAgree)
    <1>1. ASSUME ForwardInv
          PROVE  phase = "forward" => ActivationsAgree
        <2>. SUFFICES ASSUME Boundary, Now > 1, phase = "forward", NEW d \in MeshDevices
                      PROVE  value[d] = RowsOfReplica(value[Single], d[2])
            BY DEF ActivationsAgree
        <2>1. Now = at /\ at \in 1 .. Length /\ Length \in Nat /\ Reached /\ config.gathered \in BOOLEAN
            BY <1>1, Here DEF Now, ForwardInv
        <2>2. Tape[at].kind = "fork" \/ (at - 1 \in 1 .. Length /\ Tape[at - 1].kind = "join")
            BY <2>1 DEF Boundary, Passes
        <2>3. Path[at][1] = "whole"
            <3>0. <<"whole", FALSE>>[1] = "whole"
                OBVIOUS
            <3>1. CASE Tape[at].kind = "fork"
                <4>1. Moves(Tape[at], Path[at], Path[at + 1])
                    BY <2>1, PathIs
                <4>2. Path[at] = <<"whole", FALSE>>
                    BY <3>1, <4>1, MoveKinds
                <4>. QED
                    BY <3>0, <4>2
            <3>2. CASE at - 1 \in 1 .. Length /\ Tape[at - 1].kind = "join"
                <4>. DEFINE j == at - 1
                <4>1. j \in 1 .. Length /\ j + 1 = at /\ Tape[j].kind = "join"
                    BY <2>1, <3>2
                <4>. HIDE DEF j
                <4>2. Moves(Tape[j], Path[j], Path[at])
                    <5>1. Moves(Tape[j], Path[j], Path[j + 1])
                        BY <2>1, <4>1, PathIs
                    <5>. QED
                        BY <4>1, <5>1
                <4>3. Path[at] = <<"whole", FALSE>>
                    BY <4>1, <4>2, MoveKinds
                <4>. QED
                    BY <3>0, <4>3
            <3>. QED
                BY <2>2, <3>1, <3>2
        <2>4. WholeIn(config, value, value[Single], Embd)
            BY <2>1, <2>3 DEF Reached, Holds
        <2>5. d[2] \in DpRanks /\ d[3] \in TpRanks /\ d = MeshAt(d[2], d[3])
            BY MeshOnly
        <2>. QED
            BY <2>4, <2>5 DEF WholeIn, DpRanks, TpRanks
    <1>. QED
        BY <1>1, ForwardStays, PTL
=============================================================================
