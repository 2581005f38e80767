------------------------------ MODULE Tensors ------------------------------
(***************************************************************************)
(* Tensors as the layers see them: a matrix is a sequence of rows, a       *)
(* vector a matrix of one column.                                          *)
(*                                                                         *)
(* Numbers are integers modulo a prime, so that division is exact.  Which  *)
(* sums are formed, and which scale factors applied, is what the modules   *)
(* that use these operators are about; rounding is not.                    *)
(***************************************************************************)
EXTENDS Integers, Sequences, Functions, SequencesExt

P == 101            \* a prime
Generator == 2      \* its powers are all the numbers below P but 0

Num == 0 .. P - 1

\* Sum of a function's values.
Total(f) == FoldFunction(LAMBDA u, v : (u + v) % P, 0, f)

PowerTable[n \in 0 .. P - 2] ==
    IF n = 0 THEN 1 ELSE (Generator * PowerTable[n - 1]) % P

\* A function that turns sums into products, as the exponential does.
Exp(n) == PowerTable[n % (P - 1)]

\* 1 / n; there is none for 0, which is left to stand for itself.
Reciprocal == [n \in Num |->
    IF n = 0 THEN 0 ELSE CHOOSE m \in Num : (n * m) % P = 1]

Over(n, d) == (n * Reciprocal[d % P]) % P

Width(t) == Len(t[1])
Column(v) == [i \in DOMAIN v |-> <<v[i]>>]

Plus(t, u) == [i \in DOMAIN t |-> [j \in DOMAIN t[i] |-> (t[i][j] + u[i][j]) % P]]
Times(t, k) == [i \in DOMAIN t |-> [j \in DOMAIN t[i] |-> (t[i][j] * k) % P]]
Minus(t, u) == Plus(t, Times(u, P - 1))

\* The sum of a non-empty set of tensors of one shape, by index.
SumOver(ts) ==
    LET one == ts[CHOOSE r \in DOMAIN ts : TRUE]
    IN  [i \in DOMAIN one |-> [j \in DOMAIN one[i] |->
            Total([r \in DOMAIN ts |-> ts[r][i][j]])]]

\* F.linear without bias, and its gradients.
Linear(x, w) ==
    [n \in DOMAIN x |-> [o \in DOMAIN w |->
        Total([i \in DOMAIN w[o] |-> x[n][i] * w[o][i]])]]
LinearInputGrad(g, w) ==
    [n \in DOMAIN g |-> [i \in 1 .. Width(w) |->
        Total([o \in DOMAIN w |-> g[n][o] * w[o][i]])]]
LinearWeightGrad(g, x) ==
    [o \in 1 .. Width(g) |-> [i \in 1 .. Width(x) |->
        Total([n \in DOMAIN g |-> g[n][o] * x[n][i]])]]

\* Adding a bias to every row, and its gradient.
AddBias(x, b) == [n \in DOMAIN x |-> [i \in DOMAIN x[n] |-> (x[n][i] + b[i][1]) % P]]
BiasGrad(g) == [i \in 1 .. Width(g) |-> <<Total([n \in DOMAIN g |-> g[n][i]])>>]

\* torch.chunk along the first dimension: pieces of the rounded-up size.
ChunkSize(len, world) == (len + world - 1) \div world
Chunk(s, world, rank) ==
    LET size == ChunkSize(Len(s), world)
        end == IF (rank + 1) * size < Len(s) THEN (rank + 1) * size ELSE Len(s)
    IN  SubSeq(s, rank * size + 1, end)

Rows(t, world, rank) == Chunk(t, world, rank)
Columns(t, world, rank) == [n \in DOMAIN t |-> Chunk(t[n], world, rank)]

\* torch.cat along the last dimension of what ranks 0 .. world - 1 hold.
Concat(parts, world) ==
    [n \in DOMAIN parts[0] |-> FlattenSeq([r \in 1 .. world |-> parts[r - 1][n]])]
=============================================================================
