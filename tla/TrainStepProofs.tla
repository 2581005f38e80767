-------------------------- MODULE TrainStepProofs ---------------------------
(***************************************************************************)
(* Theorems about who holds what and who calls what, for every shape and   *)
(* size.  The mesh, whose coord_of and rank_of invert one another, so that *)
(* no rank is given to two coordinates and none is left without, and whose *)
(* groups are each formed once; the layers of a pipeline, cut as evenly as *)
(* they can be; the operations of the training loop in the order in which  *)
(* each rank of the mesh comes to them; and from these what its ranks      *)
(* call, wait for and send, for any number of ranks, any shape and any     *)
(* number of layers, microbatches and steps.                               *)
(***************************************************************************)
EXTENDS TrainStep, SequenceLaws, FiniteSetTheorems

-----------------------------------------------------------------------------
(* The mesh. *)

\* Two digits below their bases make a number below the product of the bases.
LEMMA TwoDigits ==
    ASSUME NEW a \in Nat \ {0}, NEW b \in Nat \ {0},
           NEW x \in 0 .. a - 1, NEW y \in 0 .. b - 1
    PROVE  b * x + y \in 0 .. a * b - 1
    <1>1. b * x + y \in Nat /\ a * b \in Nat
        BY SMT
    <1>2. b * (x + 1) <= b * a
        <2>1. x + 1 <= a /\ x + 1 \in Nat
            BY SMT
        <2>. QED
            BY <2>1, SMT
    <1>3. b * (x + 1) = b * x + b /\ b * a = a * b
        BY SMT
    <1>. QED
        BY <1>1, <1>2, <1>3, SMT

\* The code behaviour: coord_of inverts rank_of, on every shape, and rank_of
\* stays below the world size.
THEOREM CoordOfRankOf ==
    ASSUME NEW m, IsShape(m),
           NEW pp \in 0 .. m.pp - 1, NEW dp \in 0 .. m.dp - 1, NEW tp \in 0 .. m.tp - 1
    PROVE  /\ RankOf(m, pp, dp, tp) \in RanksOf(m)
           /\ CoordOf(m, RankOf(m, pp, dp, tp)) = [pp |-> pp, dp |-> dp, tp |-> tp]
    <1>. DEFINE T == m.tp
                D == m.dp
                S == m.pp
                inner == T * dp + tp
                outer == D * pp + dp
                rank == RankOf(m, pp, dp, tp)
    <1>1. T \in Nat \ {0} /\ D \in Nat \ {0} /\ S \in Nat \ {0}
        BY DEF IsShape
    <1>2. pp \in 0 .. S - 1 /\ dp \in 0 .. D - 1 /\ tp \in 0 .. T - 1
        OBVIOUS
    <1>3. rank = pp * (D * T) + dp * T + tp
        BY DEF RankOf
    <1>. HIDE DEF T, D, S, rank
    <1>4. inner \in 0 .. D * T - 1
        BY <1>1, <1>2, TwoDigits
    <1>5. D * T \in Nat \ {0} /\ T * D = D * T
        BY <1>1, SMT
    <1>6. rank = (D * T) * pp + inner
        <2>1. pp \in Int /\ dp \in Int /\ tp \in Int /\ T \in Int /\ D \in Int
            BY <1>1, <1>2
        <2>2. pp * (D * T) = (D * T) * pp /\ dp * T = T * dp
            BY <2>1, SMT
        <2>. QED
            BY <2>1, <2>2, <1>3, SMT
    <1>7. rank = T * outer + tp
        <2>1. pp \in Int /\ dp \in Int /\ tp \in Int /\ T \in Int /\ D \in Int
            BY <1>1, <1>2
        <2>2. T * (D * pp + dp) = (D * T) * pp + T * dp
            BY <2>1, SMT
        <2>. QED
            BY <2>1, <2>2, <1>6, SMT
    <1>8. outer \in Nat /\ pp \in Nat
        BY <1>1, <1>2, SMT
    <1>. HIDE DEF inner
    <1>9. rank \div (T * D) = pp
        BY <1>4, <1>5, <1>6, <1>8, DivUnique
    <1>10. rank \div T = outer /\ rank % T = tp
        <2>. HIDE DEF outer
        <2>. QED
            BY <1>1, <1>2, <1>7, <1>8, DivUnique
    <1>11. outer % D = dp
        BY <1>1, <1>2, <1>8, DivUnique
    <1>12. rank \in RanksOf(m)
        <2>1. (D * T) * pp + inner \in 0 .. S * (D * T) - 1
            BY <1>1, <1>2, <1>4, <1>5, TwoDigits
        <2>2. S * (D * T) = WorldSize(m)
            <3>1. S * (D * T) = T * D * S
                BY <1>1, SMT
            <3>. QED
                BY <3>1 DEF WorldSize, T, D, S
        <2>. QED
            BY <2>1, <2>2, <1>6 DEF RanksOf
    <1>13. CoordOf(m, rank) = [pp |-> pp, dp |-> dp, tp |-> tp]
        BY <1>9, <1>10, <1>11 DEF CoordOf, T, D
    <1>. QED
        BY <1>12, <1>13 DEF rank

\* The code behaviour: rank_of gives no rank to two coordinates.
THEOREM RanksDistinct ==
    ASSUME NEW m, IsShape(m),
           NEW pp \in 0 .. m.pp - 1, NEW dp \in 0 .. m.dp - 1, NEW tp \in 0 .. m.tp - 1,
           NEW pq \in 0 .. m.pp - 1, NEW dq \in 0 .. m.dp - 1, NEW tq \in 0 .. m.tp - 1,
           RankOf(m, pp, dp, tp) = RankOf(m, pq, dq, tq)
    PROVE  pp = pq /\ dp = dq /\ tp = tq
    <1>1. CoordOf(m, RankOf(m, pp, dp, tp)) = [pp |-> pp, dp |-> dp, tp |-> tp]
        BY CoordOfRankOf
    <1>2. CoordOf(m, RankOf(m, pq, dq, tq)) = [pp |-> pq, dp |-> dq, tp |-> tq]
        BY CoordOfRankOf
    <1>. QED
        BY <1>1, <1>2

\* The code behaviour: every rank below the world size has coordinates within
\* the mesh, and rank_of gives it back: the mesh has a place for every rank.
THEOREM RankOfCoordOf ==
    ASSUME NEW m, IsShape(m), NEW rank \in RanksOf(m)
    PROVE  LET at == CoordOf(m, rank)
           IN  /\ at.pp \in 0 .. m.pp - 1 /\ at.dp \in 0 .. m.dp - 1 /\ at.tp \in 0 .. m.tp - 1
               /\ RankOf(m, at.pp, at.dp, at.tp) = rank
    <1>. DEFINE T == m.tp
                D == m.dp
                S == m.pp
                outer == rank \div T
                tp == rank % T
                pp == outer \div D
                dp == outer % D
    <1>1. T \in Nat \ {0} /\ D \in Nat \ {0} /\ S \in Nat \ {0}
        BY DEF IsShape
    <1>2. rank \in Nat /\ rank < T * D * S /\ T * D \in Nat \ {0}
        <2>1. T * D * S \in Nat /\ T * D \in Nat \ {0}
            <3>. HIDE DEF T, D, S
            <3>. QED
                BY <1>1, SMT
        <2>2. rank \in 0 .. T * D * S - 1
            BY DEF RanksOf, WorldSize
        <2>. HIDE DEF T, D, S
        <2>. QED
            BY <2>1, <2>2
    <1>3. CoordOf(m, rank) = [pp |-> rank \div (T * D), dp |-> dp, tp |-> tp]
        BY DEF CoordOf
    <1>4. RankOf(m, pp, dp, tp) = pp * (D * T) + dp * T + tp
        BY DEF RankOf
    <1>. HIDE DEF T, D, S
    <1>5. outer \in Nat /\ tp \in 0 .. T - 1 /\ rank = T * outer + tp
        BY <1>1, <1>2, SMT
    <1>. HIDE DEF outer, tp
    <1>6. pp \in Nat /\ dp \in 0 .. D - 1 /\ outer = D * pp + dp
        BY <1>1, <1>5, SMT
    <1>. HIDE DEF pp, dp
    <1>. DEFINE inner == T * dp + tp
    <1>7. inner \in 0 .. (T * D) - 1
        <2>1. inner \in 0 .. D * T - 1
            BY <1>1, <1>5, <1>6, TwoDigits
        <2>2. D * T = T * D
            BY <1>1, SMT
        <2>. QED
            BY <2>1, <2>2
    <1>8. rank = (T * D) * pp + inner
        <2>1. T * (D * pp + dp) = (T * D) * pp + T * dp
            BY <1>1, <1>6, SMT
        <2>2. T * outer = (T * D) * pp + T * dp
            BY <1>6, <2>1
        <2>3. T * outer \in Nat /\ (T * D) * pp \in Nat /\ T * dp \in Nat
            BY <1>1, <1>5, <1>6, SMT
        <2>. QED
            BY <1>5, <2>2, <2>3
    <1>. HIDE DEF inner
    <1>9. rank \div (T * D) = pp
        BY <1>2, <1>6, <1>7, <1>8, DivUnique
    <1>10. pp < S
        <2>. DEFINE block == T * D
        <2>1. block \in Nat \ {0} /\ inner \in Nat /\ rank = block * pp + inner
            BY <1>2, <1>7, <1>8
        <2>2. rank < block * S
            BY <1>2
        <2>. HIDE DEF block
        <2>3. ASSUME S <= pp PROVE FALSE
            <3>1. block * S <= block * pp
                BY <1>1, <1>6, <2>1, <2>3, SMT
            <3>2. block * S \in Nat /\ block * pp \in Nat
                BY <1>1, <1>6, <2>1, SMT
            <3>. QED
                BY <2>1, <2>2, <3>1, <3>2
        <2>. QED
            BY <1>1, <1>6, <2>3
    <1>11. pp * (D * T) + dp * T + tp = rank
        <2>1. pp * (D * T) = (T * D) * pp /\ dp * T = T * dp
            BY <1>1, <1>6, SMT
        <2>2. (T * D) * pp \in Nat /\ T * dp \in Nat
            BY <1>1, <1>6, SMT
        <2>. QED
            BY <1>5, <1>8, <2>1, <2>2 DEF inner
    <1>12. CoordOf(m, rank) = [pp |-> pp, dp |-> dp, tp |-> tp]
        BY <1>3, <1>9
    <1>13. RankOf(m, pp, dp, tp) = rank
        BY <1>4, <1>11
    <1>14. pp \in 0 .. m.pp - 1 /\ dp \in 0 .. m.dp - 1 /\ tp \in 0 .. m.tp - 1
        <2>1. pp \in 0 .. S - 1
            BY <1>1, <1>6, <1>10
        <2>. QED
            BY <1>5, <1>6, <2>1 DEF T, D, S
    <1>. QED
        BY <1>12, <1>13, <1>14

-----------------------------------------------------------------------------
(* The groups. *)

\* The loops of _build_groups count the pairs of two coordinates in order.
LEMMA Flatten ==
    ASSUME NEW a \in Nat \ {0}, NEW b \in Nat \ {0}, NEW x \in 0 .. a - 1, NEW y \in 0 .. b - 1
    PROVE  \A i : i = b * x + y + 1 =>
              i \in 1 .. a * b /\ (i - 1) \div b = x /\ (i - 1) % b = y
    <1>. DEFINE k == b * x + y
    <1>1. k \in 0 .. a * b - 1
        BY TwoDigits
    <1>2. k \div b = x /\ k % b = y
        BY DivUnique
    <1>3. a * b \in Nat
        BY SMT
    <1>. HIDE DEF k
    <1>4. k + 1 \in 1 .. a * b /\ (k + 1) - 1 = k
        BY <1>1, <1>3
    <1>. QED
        BY <1>2, <1>4 DEF k

LEMMA Unflatten ==
    ASSUME NEW a \in Nat \ {0}, NEW b \in Nat \ {0}, NEW i \in 1 .. a * b
    PROVE  /\ (i - 1) \div b \in 0 .. a - 1 /\ (i - 1) % b \in 0 .. b - 1
           /\ i = b * ((i - 1) \div b) + ((i - 1) % b) + 1
    <1>. DEFINE q == (i - 1) \div b
                r == (i - 1) % b
    <1>1. a * b \in Nat
        BY SMT
    <1>2. i - 1 \in Nat /\ i - 1 < a * b
        BY <1>1
    <1>3. q \in Nat /\ r \in 0 .. b - 1 /\ i - 1 = b * q + r
        BY <1>2, SMT
    <1>. HIDE DEF q, r
    <1>4. b * q \in Nat
        BY <1>3, SMT
    <1>5. ASSUME a <= q PROVE FALSE
        <2>1. b * a <= b * q /\ b * a = a * b
            BY <1>3, <1>5, SMT
        <2>. QED
            BY <1>1, <1>2, <1>3, <1>4, <2>1
    <1>6. q \in 0 .. a - 1
        BY <1>3, <1>5
    <1>7. i = b * q + r + 1
        BY <1>2, <1>3, <1>4
    <1>. QED
        BY <1>3, <1>6, <1>7 DEF q, r

\* A rank that is in one of the created groups of a kind, and only in that
\* one, keeps it.
LEMMA OnlyGroup ==
    ASSUME NEW m, NEW rank, NEW kind, NEW i \in 1 .. Len(AllGroups(m)),
           AllGroups(m)[i].kind = kind, rank \in Range(AllGroups(m)[i].ranks),
           \A j \in 1 .. Len(AllGroups(m)) :
              AllGroups(m)[j].kind = kind /\ rank \in Range(AllGroups(m)[j].ranks) => j = i
    PROVE  GroupOf(m, rank, kind) = AllGroups(m)[i].ranks
    <1>. DEFINE created == AllGroups(m)
                mine == {j \in 1 .. Len(created) :
                            created[j].kind = kind /\ rank \in Range(created[j].ranks)}
    <1>1. mine = {i}
        OBVIOUS
    <1>2. Max(mine) = i
        BY <1>1 DEF Max
    <1>3. SelectLastInSeq(created, LAMBDA g : g.kind = kind /\ rank \in Range(g.ranks)) = i
        BY <1>1, <1>2 DEF SelectLastInSeq
    <1>. QED
        BY <1>3 DEF GroupOf, GroupsCreated

\* The three loops one after the other.
LEMMA GroupsInOrder ==
    ASSUME NEW m, IsShape(m)
    PROVE  LET a == m.pp * m.dp
               b == m.pp * m.tp
               c == m.dp * m.tp
           IN  /\ a \in Nat /\ b \in Nat /\ c \in Nat
               /\ Len(AllGroups(m)) = a + b + c
               /\ \A i \in 1 .. a : AllGroups(m)[i] = TpGroups(m)[i]
               /\ \A i \in 1 .. b : AllGroups(m)[a + i] = DpGroups(m)[i]
               /\ \A i \in 1 .. c : AllGroups(m)[a + b + i] = PpGroups(m)[i]
    <1>. DEFINE a == m.pp * m.dp
                b == m.pp * m.tp
                c == m.dp * m.tp
                S == UNION {Range(TpGroups(m)), Range(DpGroups(m)), Range(PpGroups(m))}
    <1>1. a \in Nat /\ b \in Nat /\ c \in Nat
        <2>1. m.tp \in Nat /\ m.dp \in Nat /\ m.pp \in Nat
            BY DEF IsShape
        <2>. QED
            BY <2>1, SMT
    <1>2. /\ TpGroups(m) \in [1 .. a -> S] /\ DpGroups(m) \in [1 .. b -> S]
          /\ PpGroups(m) \in [1 .. c -> S]
        BY DEF TpGroups, DpGroups, PpGroups, Range
    <1>3. AllGroups(m) = (TpGroups(m) \o DpGroups(m)) \o PpGroups(m)
        BY DEF AllGroups
    <1>. HIDE DEF a, b, c, S
    <1>. DEFINE s == TpGroups(m)
                t == DpGroups(m)
                u == PpGroups(m)
    <1>. HIDE DEF s, t, u
    <1>4. /\ s \in Seq(S) /\ Len(s) = a /\ t \in Seq(S) /\ Len(t) = b
          /\ u \in Seq(S) /\ Len(u) = c
        BY <1>1, <1>2 DEF s, t, u
    <1>5. /\ s \o t \in Seq(S) /\ Len(s \o t) = a + b
          /\ \A i \in 1 .. a : (s \o t)[i] = s[i]
          /\ \A i \in 1 .. b : (s \o t)[a + i] = t[i]
        <2>1. s \o t \in Seq(S) /\ Len(s \o t) = a + b
            BY <1>1, <1>4
        <2>2. ASSUME NEW i \in 1 .. a PROVE (s \o t)[i] = s[i]
            BY <1>1, <1>4
        <2>3. ASSUME NEW i \in 1 .. b PROVE (s \o t)[a + i] = t[i]
            <3>1. a + i \in 1 .. a + b /\ a + i > a /\ (a + i) - a = i
                BY <1>1
            <3>. QED
                BY <1>1, <1>4, <3>1
        <2>. QED
            BY <2>1, <2>2, <2>3
    <1>6. /\ Len((s \o t) \o u) = a + b + c
          /\ \A i \in 1 .. a + b : ((s \o t) \o u)[i] = (s \o t)[i]
          /\ \A i \in 1 .. c : ((s \o t) \o u)[a + b + i] = u[i]
        <2>. DEFINE st == s \o t
        <2>1. st \in Seq(S) /\ Len(st) = a + b /\ a + b \in Nat
            BY <1>1, <1>5
        <2>. HIDE DEF st
        <2>2. Len(st \o u) = a + b + c
            <3>1. Len(st \o u) = Len(st) + Len(u)
                BY <1>4, <2>1, ConcatProperties
            <3>. QED
                BY <1>1, <1>4, <2>1, <3>1
        <2>3. ASSUME NEW i \in 1 .. a + b PROVE (st \o u)[i] = st[i]
            BY <1>1, <1>4, <2>1
        <2>4. ASSUME NEW i \in 1 .. c PROVE (st \o u)[a + b + i] = u[i]
            <3>1. /\ a + b + i \in 1 .. (a + b) + c /\ a + b + i > a + b
                  /\ (a + b + i) - (a + b) = i
                BY <1>1
            <3>. QED
                BY <1>1, <1>4, <2>1, <3>1, ConcatProperties
        <2>. QED
            BY <2>2, <2>3, <2>4 DEF st
    <1>7. /\ \A i \in 1 .. a : i \in 1 .. a + b
          /\ \A i \in 1 .. b : a + i \in 1 .. a + b
        BY <1>1
    <1>8. AllGroups(m) = (s \o t) \o u
        BY <1>3 DEF s, t, u
    <1>9. /\ Len(AllGroups(m)) = a + b + c
          /\ \A i \in 1 .. a : AllGroups(m)[i] = s[i]
          /\ \A i \in 1 .. b : AllGroups(m)[a + i] = t[i]
          /\ \A i \in 1 .. c : AllGroups(m)[a + b + i] = u[i]
        BY <1>5, <1>6, <1>7, <1>8
    <1>. QED
        BY <1>1, <1>9 DEF a, b, c, s, t, u

\* The groups of one kind among all that are created.
LEMMA GroupsOfKind ==
    ASSUME NEW m, IsShape(m), NEW j \in 1 .. Len(AllGroups(m))
    PROVE  LET a == m.pp * m.dp
               b == m.pp * m.tp
           IN  /\ AllGroups(m)[j].kind = "tp" => j \in 1 .. a
               /\ AllGroups(m)[j].kind = "dp" => j - a \in 1 .. b
               /\ AllGroups(m)[j].kind = "pp" => j - (a + b) \in 1 .. m.dp * m.tp
    <1>. DEFINE a == m.pp * m.dp
                b == m.pp * m.tp
                c == m.dp * m.tp
    <1>1. /\ \A i \in 1 .. a : TpGroups(m)[i].kind = "tp"
          /\ \A i \in 1 .. b : DpGroups(m)[i].kind = "dp"
          /\ \A i \in 1 .. c : PpGroups(m)[i].kind = "pp"
        BY DEF TpGroups, DpGroups, PpGroups
    <1>2. /\ a \in Nat /\ b \in Nat /\ c \in Nat /\ Len(AllGroups(m)) = a + b + c
          /\ \A i \in 1 .. a : AllGroups(m)[i] = TpGroups(m)[i]
          /\ \A i \in 1 .. b : AllGroups(m)[a + i] = DpGroups(m)[i]
          /\ \A i \in 1 .. c : AllGroups(m)[a + b + i] = PpGroups(m)[i]
        BY GroupsInOrder
    <1>. HIDE DEF a, b, c
    <1>3. CASE j \in 1 .. a
        BY <1>1, <1>2, <1>3 DEF a, b
    <1>4. CASE j - a \in 1 .. b
        <2>1. j = a + (j - a)
            BY <1>2
        <2>2. AllGroups(m)[j].kind = "dp"
            BY <1>1, <1>2, <1>4, <2>1
        <2>. QED
            BY <1>4, <2>2 DEF a, b
    <1>5. CASE j - (a + b) \in 1 .. c
        <2>1. j = a + b + (j - (a + b))
            BY <1>2
        <2>2. AllGroups(m)[j] = PpGroups(m)[j - (a + b)]
            BY <1>2, <1>5, <2>1
        <2>3. AllGroups(m)[j].kind = "pp"
            BY <1>1, <1>5, <2>2
        <2>. QED
            BY <1>5, <2>3 DEF a, b, c
    <1>6. \/ j \in 1 .. a \/ j - a \in 1 .. b \/ j - (a + b) \in 1 .. c
        BY <1>2
    <1>. QED
        BY <1>3, <1>4, <1>5, <1>6

(* What a rank keeps: the ranks that differ from it on one axis only. *)

\* The tensor group of a rank.
LEMMA TpGroupOf ==
    ASSUME NEW m, IsShape(m), NEW rank \in RanksOf(m)
    PROVE  LET at == CoordOf(m, rank)
           IN  GroupOf(m, rank, "tp") =
                  [e \in 1 .. m.tp |-> RankOf(m, at.pp, at.dp, e - 1)]
    <1>. DEFINE at == CoordOf(m, rank)
                i == m.dp * at.pp + at.dp + 1
                n == m.pp * m.dp
                first == 0
    <1>1. /\ at.pp \in 0 .. m.pp - 1 /\ at.dp \in 0 .. m.dp - 1 /\ at.tp \in 0 .. m.tp - 1
          /\ RankOf(m, at.pp, at.dp, at.tp) = rank
        BY RankOfCoordOf
    <1>2. m.tp \in Nat \ {0} /\ m.dp \in Nat \ {0} /\ m.pp \in Nat \ {0}
        BY DEF IsShape
    <1>3. i \in 1 .. n /\ (i - 1) \div m.dp = at.pp /\ (i - 1) % m.dp = at.dp
        <2>. DEFINE a == m.pp
                    b == m.dp
                    x == at.pp
                    y == at.dp
        <2>1. /\ a \in Nat \ {0} /\ b \in Nat \ {0}
              /\ x \in 0 .. a - 1 /\ y \in 0 .. b - 1
              /\ i = b * x + y + 1 /\ n = a * b
            BY <1>1, <1>2
        <2>. HIDE DEF i, n, a, b, x, y
        <2>2. i \in 1 .. a * b /\ (i - 1) \div b = x /\ (i - 1) % b = y
            BY <2>1, Flatten
        <2>. QED
            BY <2>1, <2>2 DEF a, b, x, y
    <1>4. /\ first \in Nat /\ n \in Nat
          /\ \A j \in 1 .. n : first + j \in 1 .. Len(AllGroups(m))
                              /\ AllGroups(m)[first + j] = TpGroups(m)[j]
        BY GroupsInOrder
    <1>. HIDE DEF i, first
    <1>5. AllGroups(m)[first + i] = [kind |-> "tp", ranks |->
                [e \in 1 .. m.tp |-> RankOf(m, at.pp, at.dp, e - 1)]]
        BY <1>3, <1>4 DEF TpGroups
    <1>6. rank \in Range([e \in 1 .. m.tp |-> RankOf(m, at.pp, at.dp, e - 1)])
        <2>1. at.tp + 1 \in 1 .. m.tp /\ (at.tp + 1) - 1 = at.tp
            BY <1>1, <1>2
        <2>. QED
            BY <1>1, <2>1 DEF Range
    <1>7. ASSUME NEW j \in 1 .. Len(AllGroups(m)),
                 AllGroups(m)[j].kind = "tp", rank \in Range(AllGroups(m)[j].ranks)
          PROVE  j = first + i
        <2>. DEFINE l == j - first
                    x == (l - 1) \div m.dp
                    y == (l - 1) % m.dp
        <2>1. l \in 1 .. n /\ j = first + l
            BY <1>4, <1>7, GroupsOfKind DEF first
        <2>2. x \in 0 .. m.pp - 1 /\ y \in 0 .. m.dp - 1 /\ l = m.dp * x + y + 1
            BY <1>2, <2>1, Unflatten
        <2>3. AllGroups(m)[j].ranks = [e \in 1 .. m.tp |-> RankOf(m, x, y, e - 1)]
            <3>1. TpGroups(m)[l].ranks = [e \in 1 .. m.tp |-> RankOf(m, x, y, e - 1)]
                BY <2>1 DEF TpGroups
            <3>. HIDE DEF l
            <3>2. AllGroups(m)[j] = TpGroups(m)[l]
                BY <1>4, <2>1
            <3>. QED
                BY <3>1, <3>2
        <2>. HIDE DEF l, x, y
        <2>4. PICK e \in 1 .. m.tp : rank = RankOf(m, x, y, e - 1)
            BY <1>7, <2>3 DEF Range
        <2>5. e - 1 \in 0 .. m.tp - 1
            BY <1>2
        <2>6. at = [pp |-> x, dp |-> y, tp |-> e - 1]
            BY <2>2, <2>4, <2>5, CoordOfRankOf
        <2>7. l = i
            BY <2>2, <2>6 DEF i
        <2>. QED
            BY <2>1, <2>7
    <1>8. first + i \in 1 .. Len(AllGroups(m)) /\ AllGroups(m)[first + i].kind = "tp"
        BY <1>3, <1>4, <1>5
    <1>. DEFINE g == first + i
    <1>. HIDE DEF g
    <1>9. /\ g \in 1 .. Len(AllGroups(m)) /\ AllGroups(m)[g].kind = "tp"
          /\ rank \in Range(AllGroups(m)[g].ranks)
          /\ \A j \in 1 .. Len(AllGroups(m)) :
                AllGroups(m)[j].kind = "tp" /\ rank \in Range(AllGroups(m)[j].ranks) => j = g
        BY <1>5, <1>6, <1>7, <1>8 DEF g
    <1>10. GroupOf(m, rank, "tp") = AllGroups(m)[g].ranks
        BY <1>9, OnlyGroup
    <1>. QED
        BY <1>5, <1>10 DEF g

\* The data group of a rank.
LEMMA DpGroupOf ==
    ASSUME NEW m, IsShape(m), NEW rank \in RanksOf(m)
    PROVE  LET at == CoordOf(m, rank)
           IN  GroupOf(m, rank, "dp") =
                  [e \in 1 .. m.dp |-> RankOf(m, at.pp, e - 1, at.tp)]
    <1>. DEFINE at == CoordOf(m, rank)
                i == m.tp * at.pp + at.tp + 1
                n == m.pp * m.tp
                first == m.pp * m.dp
    <1>1. /\ at.pp \in 0 .. m.pp - 1 /\ at.dp \in 0 .. m.dp - 1 /\ at.tp \in 0 .. m.tp - 1
          /\ RankOf(m, at.pp, at.dp, at.tp) = rank
        BY RankOfCoordOf
    <1>2. m.tp \in Nat \ {0} /\ m.dp \in Nat \ {0} /\ m.pp \in Nat \ {0}
        BY DEF IsShape
    <1>3. i \in 1 .. n /\ (i - 1) \div m.tp = at.pp /\ (i - 1) % m.tp = at.tp
        <2>. DEFINE a == m.pp
                    b == m.tp
                    x == at.pp
                    y == at.tp
        <2>1. /\ a \in Nat \ {0} /\ b \in Nat \ {0}
              /\ x \in 0 .. a - 1 /\ y \in 0 .. b - 1
              /\ i = b * x + y + 1 /\ n = a * b
            BY <1>1, <1>2
        <2>. HIDE DEF i, n, a, b, x, y
        <2>2. i \in 1 .. a * b /\ (i - 1) \div b = x /\ (i - 1) % b = y
            BY <2>1, Flatten
        <2>. QED
            BY <2>1, <2>2 DEF a, b, x, y
    <1>4. /\ first \in Nat /\ n \in Nat
          /\ \A j \in 1 .. n : first + j \in 1 .. Len(AllGroups(m))
                              /\ AllGroups(m)[first + j] = DpGroups(m)[j]
        BY GroupsInOrder
    <1>. HIDE DEF i, first
    <1>5. AllGroups(m)[first + i] = [kind |-> "dp", ranks |->
                [e \in 1 .. m.dp |-> RankOf(m, at.pp, e - 1, at.tp)]]
        BY <1>3, <1>4 DEF DpGroups
    <1>6. rank \in Range([e \in 1 .. m.dp |-> RankOf(m, at.pp, e - 1, at.tp)])
        <2>1. at.dp + 1 \in 1 .. m.dp /\ (at.dp + 1) - 1 = at.dp
            BY <1>1, <1>2
        <2>. QED
            BY <1>1, <2>1 DEF Range
    <1>7. ASSUME NEW j \in 1 .. Len(AllGroups(m)),
                 AllGroups(m)[j].kind = "dp", rank \in Range(AllGroups(m)[j].ranks)
          PROVE  j = first + i
        <2>. DEFINE l == j - first
                    x == (l - 1) \div m.tp
                    y == (l - 1) % m.tp
        <2>1. l \in 1 .. n /\ j = first + l
            BY <1>4, <1>7, GroupsOfKind DEF first
        <2>2. x \in 0 .. m.pp - 1 /\ y \in 0 .. m.tp - 1 /\ l = m.tp * x + y + 1
            BY <1>2, <2>1, Unflatten
        <2>3. AllGroups(m)[j].ranks = [e \in 1 .. m.dp |-> RankOf(m, x, e - 1, y)]
            <3>1. DpGroups(m)[l].ranks = [e \in 1 .. m.dp |-> RankOf(m, x, e - 1, y)]
                BY <2>1 DEF DpGroups
            <3>. HIDE DEF l
            <3>2. AllGroups(m)[j] = DpGroups(m)[l]
                BY <1>4, <2>1
            <3>. QED
                BY <3>1, <3>2
        <2>. HIDE DEF l, x, y
        <2>4. PICK e \in 1 .. m.dp : rank = RankOf(m, x, e - 1, y)
            BY <1>7, <2>3 DEF Range
        <2>5. e - 1 \in 0 .. m.dp - 1
            BY <1>2
        <2>6. at = [pp |-> x, dp |-> e - 1, tp |-> y]
            BY <2>2, <2>4, <2>5, CoordOfRankOf
        <2>7. l = i
            BY <2>2, <2>6 DEF i
        <2>. QED
            BY <2>1, <2>7
    <1>8. first + i \in 1 .. Len(AllGroups(m)) /\ AllGroups(m)[first + i].kind = "dp"
        BY <1>3, <1>4, <1>5
    <1>. DEFINE g == first + i
    <1>. HIDE DEF g
    <1>9. /\ g \in 1 .. Len(AllGroups(m)) /\ AllGroups(m)[g].kind = "dp"
          /\ rank \in Range(AllGroups(m)[g].ranks)
          /\ \A j \in 1 .. Len(AllGroups(m)) :
                AllGroups(m)[j].kind = "dp" /\ rank \in Range(AllGroups(m)[j].ranks) => j = g
        BY <1>5, <1>6, <1>7, <1>8 DEF g
    <1>10. GroupOf(m, rank, "dp") = AllGroups(m)[g].ranks
        BY <1>9, OnlyGroup
    <1>. QED
        BY <1>5, <1>10 DEF g

\* The pipeline group of a rank, in the order of the stages.
LEMMA PpGroupOf ==
    ASSUME NEW m, IsShape(m), NEW rank \in RanksOf(m)
    PROVE  LET at == CoordOf(m, rank)
           IN  GroupOf(m, rank, "pp") =
                  [e \in 1 .. m.pp |-> RankOf(m, e - 1, at.dp, at.tp)]
    <1>. DEFINE at == CoordOf(m, rank)
                i == m.tp * at.dp + at.tp + 1
                n == m.dp * m.tp
                first == m.pp * m.dp + m.pp * m.tp
    <1>1. /\ at.pp \in 0 .. m.pp - 1 /\ at.dp \in 0 .. m.dp - 1 /\ at.tp \in 0 .. m.tp - 1
          /\ RankOf(m, at.pp, at.dp, at.tp) = rank
        BY RankOfCoordOf
    <1>2. m.tp \in Nat \ {0} /\ m.dp \in Nat \ {0} /\ m.pp \in Nat \ {0}
        BY DEF IsShape
    <1>3. i \in 1 .. n /\ (i - 1) \div m.tp = at.dp /\ (i - 1) % m.tp = at.tp
        <2>. DEFINE a == m.dp
                    b == m.tp
                    x == at.dp
                    y == at.tp
        <2>1. /\ a \in Nat \ {0} /\ b \in Nat \ {0}
              /\ x \in 0 .. a - 1 /\ y \in 0 .. b - 1
              /\ i = b * x + y + 1 /\ n = a * b
            BY <1>1, <1>2
        <2>. HIDE DEF i, n, a, b, x, y
        <2>2. i \in 1 .. a * b /\ (i - 1) \div b = x /\ (i - 1) % b = y
            BY <2>1, Flatten
        <2>. QED
            BY <2>1, <2>2 DEF a, b, x, y
    <1>4. /\ first \in Nat /\ n \in Nat
          /\ \A j \in 1 .. n : first + j \in 1 .. Len(AllGroups(m))
                              /\ AllGroups(m)[first + j] = PpGroups(m)[j]
        BY GroupsInOrder
    <1>. HIDE DEF i, first
    <1>5. AllGroups(m)[first + i] = [kind |-> "pp", ranks |->
                [e \in 1 .. m.pp |-> RankOf(m, e - 1, at.dp, at.tp)]]
        BY <1>3, <1>4 DEF PpGroups
    <1>6. rank \in Range([e \in 1 .. m.pp |-> RankOf(m, e - 1, at.dp, at.tp)])
        <2>1. at.pp + 1 \in 1 .. m.pp /\ (at.pp + 1) - 1 = at.pp
            BY <1>1, <1>2
        <2>. QED
            BY <1>1, <2>1 DEF Range
    <1>7. ASSUME NEW j \in 1 .. Len(AllGroups(m)),
                 AllGroups(m)[j].kind = "pp", rank \in Range(AllGroups(m)[j].ranks)
          PROVE  j = first + i
        <2>. DEFINE l == j - first
                    x == (l - 1) \div m.tp
                    y == (l - 1) % m.tp
        <2>1. l \in 1 .. n /\ j = first + l
            BY <1>4, <1>7, GroupsOfKind DEF first
        <2>2. x \in 0 .. m.dp - 1 /\ y \in 0 .. m.tp - 1 /\ l = m.tp * x + y + 1
            BY <1>2, <2>1, Unflatten
        <2>3. AllGroups(m)[j].ranks = [e \in 1 .. m.pp |-> RankOf(m, e - 1, x, y)]
            <3>1. PpGroups(m)[l].ranks = [e \in 1 .. m.pp |-> RankOf(m, e - 1, x, y)]
                BY <2>1 DEF PpGroups
            <3>. HIDE DEF l
            <3>2. AllGroups(m)[j] = PpGroups(m)[l]
                BY <1>4, <2>1
            <3>. QED
                BY <3>1, <3>2
        <2>. HIDE DEF l, x, y
        <2>4. PICK e \in 1 .. m.pp : rank = RankOf(m, e - 1, x, y)
            BY <1>7, <2>3 DEF Range
        <2>5. e - 1 \in 0 .. m.pp - 1
            BY <1>2
        <2>6. at = [pp |-> e - 1, dp |-> x, tp |-> y]
            BY <2>2, <2>4, <2>5, CoordOfRankOf
        <2>7. l = i
            BY <2>2, <2>6 DEF i
        <2>. QED
            BY <2>1, <2>7
    <1>8. first + i \in 1 .. Len(AllGroups(m)) /\ AllGroups(m)[first + i].kind = "pp"
        BY <1>3, <1>4, <1>5
    <1>. DEFINE g == first + i
    <1>. HIDE DEF g
    <1>9. /\ g \in 1 .. Len(AllGroups(m)) /\ AllGroups(m)[g].kind = "pp"
          /\ rank \in Range(AllGroups(m)[g].ranks)
          /\ \A j \in 1 .. Len(AllGroups(m)) :
                AllGroups(m)[j].kind = "pp" /\ rank \in Range(AllGroups(m)[j].ranks) => j = g
        BY <1>5, <1>6, <1>7, <1>8 DEF g
    <1>10. GroupOf(m, rank, "pp") = AllGroups(m)[g].ranks
        BY <1>9, OnlyGroup
    <1>. QED
        BY <1>5, <1>10 DEF g

-----------------------------------------------------------------------------
(* The cuts. *)

\* The numbers behind a cut into stages, without its definitions: n layers
\* are base for each of the stages and extra more.
LEMMA Shares ==
    ASSUME NEW n \in Nat, NEW stages \in 1 .. n
    PROVE  /\ Base(n, stages) \in Nat \ {0} /\ Extra(n, stages) \in 0 .. stages - 1
           /\ n = stages * Base(n, stages) + Extra(n, stages)
    <1>1. stages \in Nat \ {0} /\ stages <= n
        OBVIOUS
    <1>2. /\ Base(n, stages) \in Nat /\ Extra(n, stages) \in 0 .. stages - 1
          /\ n = stages * Base(n, stages) + Extra(n, stages)
        BY <1>1, Division DEF Base, Extra
    <1>3. Base(n, stages) # 0
        <2>1. stages * 0 = 0
            BY <1>1, SMT
        <2>. QED
            BY <1>1, <1>2, <2>1, SMT
    <1>. QED
        BY <1>2, <1>3

\* A stage ends before a later one starts.
LEMMA StagesInOrder ==
    ASSUME NEW n \in Nat, NEW stages \in 1 .. n,
           NEW s \in 0 .. stages - 1, NEW t \in 0 .. stages - 1, s < t
    PROVE  StageEnd(n, stages, s) <= StageStart(n, stages, t)
    <1>. DEFINE b == Base(n, stages)
                e == Extra(n, stages)
    <1>1. b \in Nat /\ e \in Nat /\ s \in Nat /\ t \in Nat /\ s + 1 <= t
        BY Shares
    <1>2. s * b + b <= t * b
        <2>. HIDE DEF b
        <2>1. b * (s + 1) <= b * t
            BY <1>1, MulOrder
        <2>2. b * (s + 1) = s * b + b /\ b * t = t * b
            BY <1>1, SMT
        <2>. QED
            BY <2>1, <2>2
    <1>3. /\ StageEnd(n, stages, s) =
                s * b + (IF s < e THEN s ELSE e) + (b + (IF s < e THEN 1 ELSE 0))
          /\ StageStart(n, stages, t) = t * b + (IF t < e THEN t ELSE e)
        BY DEF StageEnd, StageStart, StageSize
    <1>. DEFINE sb == s * b
                tb == t * b
    <1>4. sb \in Nat /\ tb \in Nat /\ sb + b <= tb
        <2>. HIDE DEF b
        <2>. QED
            BY <1>1, <1>2, SMT
    <1>. HIDE DEF b, e, sb, tb
    <1>5. sb + (IF s < e THEN s ELSE e) + (b + (IF s < e THEN 1 ELSE 0))
          <= tb + (IF t < e THEN t ELSE e)
        BY <1>1, <1>4, SMT
    <1>. QED
        BY <1>3, <1>5 DEF sb, tb

\* Some stage holds a layer: one of the first extra, which have base + 1, or
\* one of the others.
LEMMA SomeStageHolds ==
    ASSUME NEW n \in Nat, NEW stages \in 1 .. n, NEW l \in 0 .. n - 1
    PROVE  \E s \in 0 .. stages - 1 : l \in LayersOf(n, stages, s)
    <1>. DEFINE b == Base(n, stages)
                e == Extra(n, stages)
    <1>1. /\ b \in Nat \ {0} /\ e \in Nat /\ e < stages /\ stages \in Nat /\ l \in Nat
          /\ n = stages * b + e /\ l < n
        BY Shares
    <1>. HIDE DEF b, e
    <1>2. CASE l < e * (b + 1)
        <2>. DEFINE s == l \div (b + 1)
                    r == l % (b + 1)
        <2>1. s \in Nat /\ r \in 0 .. b /\ l = (b + 1) * s + r
            <3>1. b + 1 \in Nat \ {0}
                BY <1>1
            <3>2. s \in Nat /\ r \in 0 .. (b + 1) - 1 /\ l = (b + 1) * s + r
                BY <1>1, <3>1, Division
            <3>3. (b + 1) - 1 = b
                BY <1>1
            <3>. QED
                BY <3>2, <3>3
        <2>. HIDE DEF s, r
        <2>2. s < e
            <3>1. SUFFICES ASSUME e <= s PROVE FALSE
                BY <1>1, <2>1
            <3>2. (b + 1) * e <= (b + 1) * s
                BY <1>1, <2>1, <3>1, MulOrder
            <3>3. (b + 1) * e = e * (b + 1) /\ (b + 1) * e \in Nat /\ (b + 1) * s \in Nat
                BY <1>1, <2>1, SMT
            <3>. QED
                BY <1>1, <1>2, <2>1, <3>2, <3>3
        <2>3. StageStart(n, stages, s) = s * b + s /\ StageSize(n, stages, s) = b + 1
            BY <2>2 DEF StageStart, StageSize, b, e
        <2>4. s * b + s = (b + 1) * s /\ (b + 1) * s \in Nat
            BY <1>1, <2>1, SMT
        <2>5. l \in LayersOf(n, stages, s)
            BY <1>1, <2>1, <2>3, <2>4 DEF LayersOf, StageEnd
        <2>. QED
            BY <1>1, <2>1, <2>2, <2>5
    <1>3. CASE e * (b + 1) <= l
        <2>. DEFINE m == l - e * (b + 1)
                    q == m \div b
                    r == m % b
        <2>1. e * (b + 1) \in Nat /\ e * (b + 1) = e * b + e /\ e * b \in Nat
            BY <1>1, SMT
        <2>2. m \in Nat
            BY <1>1, <1>3, <2>1
        <2>3. l = (e * b + e) + m
            BY <1>1, <2>1
        <2>. HIDE DEF m
        <2>4. q \in Nat /\ r \in 0 .. b - 1 /\ m = b * q + r
            BY <1>1, <2>2, Division
        <2>. HIDE DEF q, r
        <2>5. b * q \in Nat /\ (e + q) * b = e * b + b * q
            BY <1>1, <2>4, SMT
        <2>6. e + q < stages
            <3>1. SUFFICES ASSUME stages <= e + q PROVE FALSE
                BY <1>1, <2>4
            <3>2. b * stages <= b * (e + q)
                BY <1>1, <2>4, <3>1, MulOrder
            <3>3. b * stages = stages * b /\ b * (e + q) = e * b + b * q /\ stages * b \in Nat
                BY <1>1, <2>4, SMT
            <3>. QED
                BY <1>1, <2>1, <2>3, <2>4, <2>5, <3>2, <3>3
        <2>7. ~(e + q < e)
            BY <1>1, <2>4
        <2>8. /\ StageStart(n, stages, e + q) = (e + q) * b + e
              /\ StageSize(n, stages, e + q) = b + 0
            BY <2>7 DEF StageStart, StageSize, b, e
        <2>9. l \in LayersOf(n, stages, e + q)
            BY <1>1, <2>1, <2>3, <2>4, <2>5, <2>8 DEF LayersOf, StageEnd
        <2>. QED
            BY <1>1, <2>4, <2>6, <2>9
    <1>4. e * (b + 1) \in Nat
        BY <1>1, SMT
    <1>. QED
        BY <1>1, <1>2, <1>3, <1>4

\* The code behaviour: with at most as many stages as layers, every layer of
\* partition_layers is on exactly one stage.
THEOREM EveryLayerOnce ==
    ASSUME NEW n \in Nat, NEW stages \in 1 .. n, NEW l \in 0 .. n - 1
    PROVE  \E s \in 0 .. stages - 1 :
              /\ l \in LayersOf(n, stages, s)
              /\ \A t \in 0 .. stages - 1 : l \in LayersOf(n, stages, t) => t = s
    <1>1. PICK s \in 0 .. stages - 1 : l \in LayersOf(n, stages, s)
        BY SomeStageHolds
    <1>2. ASSUME NEW t \in 0 .. stages - 1, l \in LayersOf(n, stages, t), t # s
          PROVE  FALSE
        <2>1. ASSUME NEW i \in 0 .. stages - 1, NEW j \in 0 .. stages - 1, i < j,
                     l \in LayersOf(n, stages, i), l \in LayersOf(n, stages, j)
              PROVE  FALSE
            <3>1. StageEnd(n, stages, i) <= StageStart(n, stages, j)
                BY <2>1, StagesInOrder
            <3>2. ASSUME NEW k \in 0 .. stages - 1
                  PROVE  StageStart(n, stages, k) \in Nat /\ StageEnd(n, stages, k) \in Nat
                <4>1. Base(n, stages) \in Nat /\ Extra(n, stages) \in Nat /\ k \in Nat
                    BY Shares
                <4>2. k * Base(n, stages) \in Nat
                    BY <4>1, SMT
                <4>. QED
                    BY <4>1, <4>2 DEF StageStart, StageEnd, StageSize
            <3>. QED
                BY <2>1, <3>1, <3>2 DEF LayersOf
        <2>2. s < t \/ t < s
            BY <1>2
        <2>. QED
            BY <1>1, <1>2, <2>1, <2>2
    <1>. QED
        BY <1>1, <1>2

\* The code behaviour: no stage of partition_layers is without layers, and
\* none has more than one layer more than another ("as-even-as-possible").
THEOREM StagesEven ==
    ASSUME NEW n \in Nat, NEW stages \in 1 .. n,
           NEW s \in 0 .. stages - 1, NEW t \in 0 .. stages - 1
    PROVE  /\ 0 < StageSize(n, stages, s)
           /\ StageSize(n, stages, s) <= StageSize(n, stages, t) + 1
    <1>1. Base(n, stages) \in Nat \ {0}
        BY Shares
    <1>. QED
        BY <1>1 DEF StageSize

\* The first stage starts with the first layer, the last ends with the last.
LEMMA EndsOfModel ==
    ASSUME NEW n \in Nat, NEW stages \in 1 .. n
    PROVE  StageStart(n, stages, 0) = 0 /\ StageEnd(n, stages, stages - 1) = n
    <1>. DEFINE b == Base(n, stages)
                e == Extra(n, stages)
    <1>1. b \in Nat \ {0} /\ e \in 0 .. stages - 1 /\ n = stages * b + e
        BY Shares
    <1>2. stages \in Nat /\ ~(stages - 1 < e) /\ stages - 1 \in Nat
        BY <1>1
    <1>3. StageStart(n, stages, 0) = 0
        <2>1. StageStart(n, stages, 0) = 0 * b + (IF 0 < e THEN 0 ELSE e)
            BY DEF StageStart
        <2>. HIDE DEF b, e
        <2>2. 0 * b = 0
            BY <1>1
        <2>. QED
            BY <1>1, <2>1, <2>2
    <1>4. StageStart(n, stages, stages - 1) = (stages - 1) * b + e
        BY <1>2 DEF StageStart
    <1>5. StageSize(n, stages, stages - 1) = b
        BY <1>1, <1>2 DEF StageSize
    <1>6. StageEnd(n, stages, stages - 1) = ((stages - 1) * b + e) + b
        BY <1>4, <1>5 DEF StageEnd
    <1>. HIDE DEF b, e
    <1>7. (stages - 1) * b + b = stages * b /\ (stages - 1) * b \in Nat
        BY <1>1, <1>2
    <1>. QED
        BY <1>1, <1>3, <1>6, <1>7

\* A stage's layers, in numbers.
LEMMA StageNumbers ==
    ASSUME NEW n \in Nat, NEW stages \in 1 .. n, NEW s \in 0 .. stages - 1
    PROVE  /\ StageStart(n, stages, s) \in Nat /\ StageSize(n, stages, s) \in Nat \ {0}
           /\ StageEnd(n, stages, s) \in Nat
           /\ StageEnd(n, stages, s) = StageStart(n, stages, s) + StageSize(n, stages, s)
    <1>. DEFINE b == Base(n, stages)
                e == Extra(n, stages)
    <1>1. b \in Nat \ {0} /\ e \in Nat /\ s \in Nat
        BY Shares
    <1>2. s * b \in Nat
        <2>. HIDE DEF b
        <2>. QED
            BY <1>1, SMT
    <1>3. StageStart(n, stages, s) \in Nat
        BY <1>1, <1>2 DEF StageStart
    <1>4. StageSize(n, stages, s) \in Nat \ {0}
        BY <1>1 DEF StageSize
    <1>5. StageEnd(n, stages, s) = StageStart(n, stages, s) + StageSize(n, stages, s)
        BY DEF StageEnd
    <1>. QED
        BY <1>3, <1>4, <1>5

\* The code behaviour: the first layer is on the first stage and on no other,
\* the last on the last: where the batch comes in, and where the loss is
\* computed.
THEOREM EndsOfPipeline ==
    ASSUME NEW n \in Nat, NEW stages \in 1 .. n, NEW s \in 0 .. stages - 1
    PROVE  /\ 0 \in LayersOf(n, stages, s) <=> s = 0
           /\ n - 1 \in LayersOf(n, stages, s) <=> s = stages - 1
    <1>1. /\ stages - 1 \in 0 .. stages - 1 /\ 0 \in 0 .. stages - 1
          /\ 0 \in 0 .. n - 1 /\ n - 1 \in 0 .. n - 1
        OBVIOUS
    <1>2. 0 \in LayersOf(n, stages, 0)
        <2>1. StageStart(n, stages, 0) = 0 /\ StageEnd(n, stages, 0) >= 1
              /\ StageEnd(n, stages, 0) \in Nat
            BY <1>1, EndsOfModel, StageNumbers
        <2>. QED
            BY <2>1 DEF LayersOf
    <1>3. n - 1 \in LayersOf(n, stages, stages - 1)
        <2>. DEFINE last == stages - 1
        <2>1. /\ StageEnd(n, stages, last) = n /\ StageStart(n, stages, last) \in Nat
              /\ StageSize(n, stages, last) \in Nat \ {0}
              /\ n = StageStart(n, stages, last) + StageSize(n, stages, last)
            BY <1>1, EndsOfModel, StageNumbers
        <2>. QED
            BY <2>1 DEF LayersOf
    <1>4. \A l \in 0 .. n - 1 : \A t, u \in 0 .. stages - 1 :
             l \in LayersOf(n, stages, t) /\ l \in LayersOf(n, stages, u) => t = u
        BY EveryLayerOnce
    <1>. QED
        BY <1>1, <1>2, <1>3, <1>4

-----------------------------------------------------------------------------
(* What the ranks of a job call: the operations of every part of a run, in *)
(* order, for any number of layers, microbatches and steps.  Collectives   *)
(* and their waits are paired, what a stage sends the next one receives,   *)
(* and the ranks of a group call the same collectives on it.               *)

-----------------------------------------------------------------------------
(* The ranks of a group, by the coordinate in which they differ. *)

\* Member e of the group of a kind that a rank with coordinates at keeps.
Member(m, at, kind, e) ==
    IF kind = "tp" THEN RankOf(m, at.pp, at.dp, e - 1)
    ELSE IF kind = "dp" THEN RankOf(m, at.pp, e - 1, at.tp)
    ELSE RankOf(m, e - 1, at.dp, at.tp)

Axes == {"tp", "dp", "pp"}

\* The coordinates of a member: those of the rank, but on the group's axis.
LEMMA MemberCoord ==
    ASSUME NEW m, IsShape(m), NEW r \in RanksOf(m), NEW k \in Axes, NEW e \in 1 .. m[k]
    PROVE  /\ Member(m, CoordOf(m, r), k, e) \in RanksOf(m)
           /\ CoordOf(m, Member(m, CoordOf(m, r), k, e))[k] = e - 1
           /\ \A j \in Axes \ {k} :
                 CoordOf(m, Member(m, CoordOf(m, r), k, e))[j] = CoordOf(m, r)[j]
    <1>. DEFINE at == CoordOf(m, r)
    <1>1. /\ at.pp \in 0 .. m.pp - 1 /\ at.dp \in 0 .. m.dp - 1 /\ at.tp \in 0 .. m.tp - 1
        BY RankOfCoordOf
    <1>2. m.tp \in Nat \ {0} /\ m.dp \in Nat \ {0} /\ m.pp \in Nat \ {0}
        BY DEF IsShape
    <1>. HIDE DEF at
    <1>4. CASE k = "tp"
        <2>1. e - 1 \in 0 .. m.tp - 1
            BY <1>2, <1>4
        <2>2. Member(m, at, k, e) = RankOf(m, at.pp, at.dp, e - 1)
            BY <1>4 DEF Member
        <2>3. /\ RankOf(m, at.pp, at.dp, e - 1) \in RanksOf(m)
              /\ CoordOf(m, RankOf(m, at.pp, at.dp, e - 1)) = [pp |-> at.pp, dp |-> at.dp, tp |-> e - 1]
            BY <1>1, <2>1, CoordOfRankOf
        <2>. QED
            BY <1>4, <2>2, <2>3 DEF at, Axes
    <1>5. CASE k = "dp"
        <2>1. e - 1 \in 0 .. m.dp - 1
            BY <1>2, <1>5
        <2>2. Member(m, at, k, e) = RankOf(m, at.pp, e - 1, at.tp)
            BY <1>5 DEF Member
        <2>3. /\ RankOf(m, at.pp, e - 1, at.tp) \in RanksOf(m)
              /\ CoordOf(m, RankOf(m, at.pp, e - 1, at.tp)) = [pp |-> at.pp, dp |-> e - 1, tp |-> at.tp]
            BY <1>1, <2>1, CoordOfRankOf
        <2>. QED
            BY <1>5, <2>2, <2>3 DEF at, Axes
    <1>6. CASE k = "pp"
        <2>1. e - 1 \in 0 .. m.pp - 1
            BY <1>2, <1>6
        <2>2. Member(m, at, k, e) = RankOf(m, e - 1, at.dp, at.tp)
            BY <1>6 DEF Member
        <2>3. /\ RankOf(m, e - 1, at.dp, at.tp) \in RanksOf(m)
              /\ CoordOf(m, RankOf(m, e - 1, at.dp, at.tp)) = [pp |-> e - 1, dp |-> at.dp, tp |-> at.tp]
            BY <1>1, <2>1, CoordOfRankOf
        <2>. QED
            BY <1>6, <2>2, <2>3 DEF at, Axes
    <1>. QED
        BY <1>4, <1>5, <1>6 DEF Axes

\* A rank is the member at its own coordinate.
LEMMA OwnMember ==
    ASSUME NEW m, IsShape(m), NEW r \in RanksOf(m), NEW k \in Axes
    PROVE  /\ CoordOf(m, r)[k] + 1 \in 1 .. m[k]
           /\ Member(m, CoordOf(m, r), k, CoordOf(m, r)[k] + 1) = r
    <1>. DEFINE at == CoordOf(m, r)
    <1>1. /\ at.pp \in 0 .. m.pp - 1 /\ at.dp \in 0 .. m.dp - 1 /\ at.tp \in 0 .. m.tp - 1
          /\ RankOf(m, at.pp, at.dp, at.tp) = r
        BY RankOfCoordOf
    <1>2. m.tp \in Nat \ {0} /\ m.dp \in Nat \ {0} /\ m.pp \in Nat \ {0}
        BY DEF IsShape
    <1>. HIDE DEF at
    <1>3. at[k] + 1 \in 1 .. m[k] /\ (at[k] + 1) - 1 = at[k]
        BY <1>1, <1>2 DEF Axes
    <1>4. Member(m, at, k, at[k] + 1) = r
        BY <1>1, <1>3 DEF Member, Axes
    <1>. QED
        BY <1>3, <1>4 DEF at

\* The groups a rank keeps, by their members.
LEMMA GroupMembers ==
    ASSUME NEW m, IsShape(m), NEW r \in RanksOf(m), NEW k \in Axes
    PROVE  GroupOf(m, r, k) = [e \in 1 .. m[k] |-> Member(m, CoordOf(m, r), k, e)]
    <1>1. CASE k = "tp"
        BY <1>1, TpGroupOf DEF Member
    <1>2. CASE k = "dp"
        BY <1>2, DpGroupOf DEF Member
    <1>3. CASE k = "pp"
        BY <1>3, PpGroupOf DEF Member
    <1>. QED
        BY <1>1, <1>2, <1>3 DEF Axes

\* A rank is given by its coordinates.
LEMMA SameCoord ==
    ASSUME NEW m, IsShape(m), NEW r \in RanksOf(m), NEW s \in RanksOf(m),
           \A j \in Axes : CoordOf(m, s)[j] = CoordOf(m, r)[j]
    PROVE  s = r
    <1>1. CoordOf(m, s).pp = CoordOf(m, r).pp /\ CoordOf(m, s).dp = CoordOf(m, r).dp
          /\ CoordOf(m, s).tp = CoordOf(m, r).tp
        BY DEF Axes
    <1>2. RankOf(m, CoordOf(m, s).pp, CoordOf(m, s).dp, CoordOf(m, s).tp) = s
        BY RankOfCoordOf
    <1>3. RankOf(m, CoordOf(m, r).pp, CoordOf(m, r).dp, CoordOf(m, r).tp) = r
        BY RankOfCoordOf
    <1>. QED
        BY <1>1, <1>2, <1>3

\* The members of a group do not depend on the coordinate it is along.
LEMMA MemberAlong ==
    ASSUME NEW m, NEW at, NEW bt, NEW k \in Axes, NEW e,
           \A j \in Axes \ {k} : at[j] = bt[j]
    PROVE  Member(m, at, k, e) = Member(m, bt, k, e)
    <1>1. CASE k = "tp"
        BY <1>1 DEF Axes, Member
    <1>2. CASE k = "dp"
        BY <1>2 DEF Axes, Member
    <1>3. CASE k = "pp"
        BY <1>3 DEF Axes, Member
    <1>. QED
        BY <1>1, <1>2, <1>3 DEF Axes

\* The model has a number of layers.
LEMMA LayerCount == Len(PipelineLayers(NLayer)) \in Nat
    <1>. DEFINE S == {"embedding", "block", "head"}
                first == <<"embedding">>
                blocks == [i \in 1 .. NLayer |-> "block"]
                last == <<"head">>
    <1>1. NLayer \in Nat
        BY TrainStepAssumption
    <1>2. first \in Seq(S) /\ last \in Seq(S)
        OBVIOUS
    <1>3. blocks \in Seq(S)
        <2>1. blocks \in [1 .. NLayer -> S]
            OBVIOUS
        <2>. HIDE DEF blocks, S
        <2>. QED
            BY <1>1, <2>1
    <1>4. PipelineLayers(NLayer) = (first \o blocks) \o last
        BY DEF PipelineLayers
    <1>. HIDE DEF first, blocks, last, S
    <1>5. first \o blocks \in Seq(S)
        BY <1>2, <1>3
    <1>6. (first \o blocks) \o last \in Seq(S)
        BY <1>2, <1>5
    <1>. QED
        BY <1>4, <1>6

-----------------------------------------------------------------------------
(* InTurn is FlattenSeq. *)

\* Its recursive function.
Turns(S, n, f) ==
    {g \in [0 .. n -> Seq(S)] :
        /\ g[0] = << >>
        /\ \A k \in 1 .. n : g[k] = g[k - 1] \o f[k]
        /\ InTurn(n, f) = g[n]}

\* The recursion of InTurn has a solution.
LEMMA InTurnSteps ==
    ASSUME NEW S, NEW n \in Nat, NEW f \in [1 .. n -> Seq(S)]
    PROVE  \E g : g \in Turns(S, n, f)
    <1>. DEFINE next == [i \in Nat |-> [s \in Seq(S) |-> IF i \in 1 .. n THEN s \o f[i] ELSE s]]
                Step(h) == [k \in 0 .. n |-> IF k = 0 THEN << >> ELSE h[k - 1] \o f[k]]
                g == CHOOSE h : h = Step(h)
    <1>1. next \in [Nat -> [Seq(S) -> Seq(S)]]
        <2>1. \A i \in 1 .. n : \A s \in Seq(S) : s \o f[i] \in Seq(S)
            BY ConcatProperties
        <2>. QED
            BY <2>1
    <1>2. << >> \in Seq(S)
        OBVIOUS
    <1>3. PICK k : k \in Iterations(Seq(S), << >>, next, n)
        <2>. HIDE DEF next
        <2>. QED
            BY <1>1, <1>2, Iterate
    <1>4. /\ k \in [0 .. n -> Seq(S)] /\ k[0] = << >>
          /\ \A i \in 1 .. n : k[i] = next[i][k[i - 1]]
        <2>. HIDE DEF next
        <2>. QED
            BY <1>3 DEF Iterations
    <1>5. \A i \in 1 .. n : k[i] = k[i - 1] \o f[i]
        <2>. TAKE i \in 1 .. n
        <2>1. i \in Nat /\ k[i - 1] \in Seq(S)
            BY <1>4
        <2>2. next[i][k[i - 1]] = k[i - 1] \o f[i]
            BY <2>1
        <2>. QED
            BY <1>4, <2>2
    <1>6. k = Step(k)
        <2>1. \A i \in 0 .. n : k[i] = IF i = 0 THEN << >> ELSE k[i - 1] \o f[i]
            <3>. TAKE i \in 0 .. n
            <3>1. CASE i = 0
                BY <1>4, <3>1
            <3>2. CASE i # 0
                <4>1. i \in 1 .. n
                    BY <3>2
                <4>. QED
                    BY <1>5, <3>2, <4>1
            <3>. QED
                BY <3>1, <3>2
        <2>2. k = [i \in 0 .. n |-> k[i]]
            BY <1>4
        <2>. QED
            BY <2>1, <2>2
    <1>7. g = Step(g)
        <2>. HIDE DEF Step
        <2>. QED
            BY <1>6
    <1>8. InTurn(n, f) = g[n]
        BY DEF InTurn
    <1>. HIDE DEF g
    <1>9. \A i \in 0 .. n : g[i] = IF i = 0 THEN << >> ELSE g[i - 1] \o f[i]
        <2>1. \A i \in 0 .. n : Step(g)[i] = IF i = 0 THEN << >> ELSE g[i - 1] \o f[i]
            OBVIOUS
        <2>. HIDE DEF Step
        <2>. QED
            BY <1>7, <2>1
    <1>10. g[0] = << >> /\ \A i \in 1 .. n : g[i] = g[i - 1] \o f[i]
        <2>1. 0 \in 0 .. n /\ \A i \in 1 .. n : i \in 0 .. n /\ i # 0
            OBVIOUS
        <2>. QED
            BY <1>9, <2>1
    <1>11. g = [i \in 0 .. n |-> g[i]]
        BY <1>7
    <1>12. \A i \in 0 .. n : g[i] \in Seq(S)
        <2>. DEFINE Good == {j \in 0 .. n : g[j] \in Seq(S)}
        <2>1. 0 \in Good
            <3>1. g[0] \in Seq(S) /\ 0 \in 0 .. n
                BY <1>2, <1>10
            <3>. QED
                BY <3>1
        <2>2. ASSUME NEW j \in 0 .. n - 1, j \in Good
              PROVE  j + 1 \in Good
            <3>1. j + 1 \in 1 .. n /\ (j + 1) - 1 = j
                OBVIOUS
            <3>2. g[j + 1] = g[j] \o f[j + 1] /\ g[j] \in Seq(S) /\ f[j + 1] \in Seq(S)
                <4>1. g[j + 1] = g[(j + 1) - 1] \o f[j + 1]
                    BY <1>10, <3>1
                <4>. QED
                    BY <2>2, <3>1, <4>1
            <3>3. g[j + 1] \in Seq(S)
                BY <3>2, ConcatProperties
            <3>. QED
                BY <3>1, <3>3
        <2>3. \A j \in 0 .. n : j \in Good
            <3>. HIDE DEF Good
            <3>. QED
                BY <2>1, <2>2, InductionTo
        <2>. QED
            BY <2>3
    <1>13. g \in Turns(S, n, f)
        BY <1>8, <1>10, <1>11, <1>12 DEF Turns
    <1>. QED
        BY <1>13

\* InTurn is the library's FlattenSeq.
LEMMA InTurnIsFlatten ==
    ASSUME NEW S, NEW n \in Nat, NEW f \in [1 .. n -> Seq(S)]
    PROVE  InTurn(n, f) = FlattenSeq(f)
    <1>1. PICK g : g \in Turns(S, n, f)
        BY InTurnSteps
    <1>2. g[0] = << >> /\ InTurn(n, f) = g[n] /\ \A i \in 1 .. n : g[i] = g[i - 1] \o f[i]
        BY <1>1 DEF Turns
    <1>3. CASE n = 0
        BY <1>2, <1>3 DEF FlattenSeq
    <1>4. CASE n # 0
        <2>1. n \in Nat \ {0} /\ 1 \in 1 .. n
            BY <1>4
        <2>2. PICK h : h \in Flattenings(S, n, f)
            BY <2>1, FlattenSteps
        <2>3. h[1] = f[1] /\ FlattenSeq(f) = h[n] /\ \A i \in 2 .. n : h[i] = h[i - 1] \o f[i]
            BY <2>2 DEF Flattenings
        <2>4. g[1] = h[1]
            <3>1. g[1] = g[1 - 1] \o f[1] /\ f[1] \in Seq(S) /\ 1 - 1 = 0
                BY <1>2, <2>1
            <3>2. g[1] = g[0] \o f[1]
                BY <3>1
            <3>3. g[1] = << >> \o f[1]
                BY <1>2, <3>2
            <3>. QED
                BY <2>3, <3>1, <3>3, ConcatEmptySeq
        <2>5. StepAlike(g, h, n)
            <3>1. \A i \in 2 .. n : i \in 1 .. n
                OBVIOUS
            <3>. QED
                BY <1>2, <2>3, <3>1 DEF StepAlike
        <2>6. Alike(g, h, n)
            BY <2>1, <2>4, <2>5, SameSteps
        <2>. QED
            BY <1>2, <2>1, <2>3, <2>6 DEF Alike
    <1>. QED
        BY <1>3, <1>4

\* Pieces of operations in turn are operations.
LEMMA InTurnType ==
    ASSUME NEW S, NEW n \in Nat, NEW f \in [1 .. n -> Seq(S)]
    PROVE  InTurn(n, f) \in Seq(S)
    BY InTurnIsFlatten, FlattenType

\* The first pieces, and the next one.
LEMMA InTurnLast ==
    ASSUME NEW S, NEW n \in Nat, NEW f \in [1 .. n -> Seq(S)], NEW k \in 0 .. n - 1
    PROVE  /\ InTurn(k + 1, FirstOf(f, k + 1)) = InTurn(k, FirstOf(f, k)) \o f[k + 1]
           /\ InTurn(k, FirstOf(f, k)) \in Seq(S)
           /\ f[k + 1] \in Seq(S)
    <1>1. /\ FirstOf(f, k + 1) \in [1 .. k + 1 -> Seq(S)]
          /\ FirstOf(f, k) \in [1 .. k -> Seq(S)]
          /\ FirstOf(FirstOf(f, k + 1), k) = FirstOf(f, k)
          /\ FirstOf(f, k + 1)[k + 1] = f[k + 1]
          /\ k \in Nat /\ k + 1 \in 1 .. n /\ k + 1 \in Nat
        BY DEF FirstOf
    <1>2. FlattenSeq(FirstOf(f, k + 1)) = FlattenSeq(FirstOf(f, k)) \o f[k + 1]
        BY <1>1, FlattenLast
    <1>3. InTurn(k + 1, FirstOf(f, k + 1)) = FlattenSeq(FirstOf(f, k + 1))
        BY <1>1, InTurnIsFlatten
    <1>4. InTurn(k, FirstOf(f, k)) = FlattenSeq(FirstOf(f, k))
        BY <1>1, InTurnIsFlatten
    <1>5. InTurn(k, FirstOf(f, k)) \in Seq(S)
        BY <1>1, InTurnType
    <1>. QED
        BY <1>1, <1>2, <1>3, <1>4, <1>5

\* No pieces, no operations.
LEMMA InTurnNone == \A f : InTurn(0, FirstOf(f, 0)) = << >>
    <1>. SUFFICES ASSUME NEW f
                  PROVE  InTurn(0, FirstOf(f, 0)) = << >>
        OBVIOUS
    <1>1. FirstOf(f, 0) \in [1 .. 0 -> Seq({})] /\ 0 \in Nat
        BY DEF FirstOf
    <1>2. InTurn(0, FirstOf(f, 0)) = FlattenSeq(FirstOf(f, 0))
        BY <1>1, InTurnIsFlatten
    <1>3. FlattenSeq(FirstOf(f, 0)) = << >>
        BY DEF FlattenSeq, FirstOf
    <1>. QED
        BY <1>2, <1>3

\* The first n of n pieces are all of them.
LEMMA InTurnAll ==
    ASSUME NEW S, NEW n \in Nat, NEW f \in [1 .. n -> Seq(S)]
    PROVE  FirstOf(f, n) = f
    BY DEF FirstOf

\* What is kept of pieces in turn is what is kept of each, in turn.
LEMMA InTurnOnly ==
    ASSUME NEW S, NEW R, NEW n \in Nat, NEW f \in [1 .. n -> Seq(S)]
    PROVE  Only(InTurn(n, f), R) = FlattenSeq(OnlyOf(n, f, R))
    <1>1. InTurn(n, f) = FlattenSeq(f)
        BY InTurnIsFlatten
    <1>2. Only(FlattenSeq(f), R) = FlattenSeq(OnlyOf(n, f, R))
        BY OnlyFlatten
    <1>. QED
        BY <1>1, <1>2

-----------------------------------------------------------------------------
(* More on pieces put together. *)

\* Pieces with a property that concatenation keeps have it in turn.
LEMMA InTurnJoined ==
    ASSUME NEW S, NEW T \in Joined(S), NEW n \in Nat, NEW f \in [1 .. n -> T]
    PROVE  InTurn(n, f) \in T
    <1>1. f \in [1 .. n -> Seq(S)]
        BY DEF Joined
    <1>2. InTurn(n, f) = FlattenSeq(f)
        BY <1>1, InTurnIsFlatten
    <1>3. FlattenSeq(f) \in T
        BY FlattenJoined
    <1>. QED
        BY <1>2, <1>3

\* How many elements of a set the first pieces have.
Sums(S, n, f, R) ==
    {g \in [0 .. n -> Nat] : g[0] = 0 /\ \A i \in 1 .. n : g[i] = g[i - 1] + Tally(f[i], R)}

\* The tally of the first k pieces is the k-th of the sums of their tallies.
LEMMA FlattenSums ==
    ASSUME NEW S, NEW R, NEW n \in Nat, NEW f \in [1 .. n -> Seq(S)], NEW g \in Sums(S, n, f, R)
    PROVE  \A k \in 0 .. n : Tally(FlattenSeq(FirstOf(f, k)), R) = g[k]
    <1>. DEFINE Good == {k \in 0 .. n : Tally(FlattenSeq(FirstOf(f, k)), R) = g[k]}
    <1>1. g \in [0 .. n -> Nat] /\ g[0] = 0 /\ \A i \in 1 .. n : g[i] = g[i - 1] + Tally(f[i], R)
        BY DEF Sums
    <1>2. 0 \in Good
        <2>1. FlattenSeq(FirstOf(f, 0)) = << >> /\ 0 \in 0 .. n
            BY DEF FlattenSeq, FirstOf
        <2>. QED
            BY <1>1, <2>1, TallyEmpty
    <1>3. ASSUME NEW k \in 0 .. n - 1, k \in Good
          PROVE  k + 1 \in Good
        <2>1. /\ FirstOf(f, k + 1) \in [1 .. k + 1 -> Seq(S)]
              /\ FirstOf(f, k) \in [1 .. k -> Seq(S)]
              /\ FirstOf(FirstOf(f, k + 1), k) = FirstOf(f, k)
              /\ FirstOf(f, k + 1)[k + 1] = f[k + 1]
              /\ k \in Nat /\ k + 1 \in 1 .. n
            BY DEF FirstOf
        <2>2. FlattenSeq(FirstOf(f, k + 1)) = FlattenSeq(FirstOf(f, k)) \o f[k + 1]
            BY <2>1, FlattenLast
        <2>3. FlattenSeq(FirstOf(f, k)) \in Seq(S) /\ f[k + 1] \in Seq(S)
            BY <2>1, FlattenType
        <2>4. Tally(FlattenSeq(FirstOf(f, k)) \o f[k + 1], R)
                  = Tally(FlattenSeq(FirstOf(f, k)), R) + Tally(f[k + 1], R)
            BY <2>3, TallyConcat
        <2>5. g[k + 1] = g[k] + Tally(f[k + 1], R)
            <3>1. (k + 1) - 1 = k
                BY <2>1
            <3>. QED
                BY <1>1, <2>1, <3>1
        <2>6. Tally(FlattenSeq(FirstOf(f, k)), R) = g[k]
            BY <1>3
        <2>7. Tally(FlattenSeq(FirstOf(f, k + 1)), R) = g[k + 1]
            BY <2>2, <2>4, <2>5, <2>6
        <2>8. k + 1 \in 0 .. n
            OBVIOUS
        <2>. QED
            BY <2>7, <2>8
    <1>4. \A k \in 0 .. n : k \in Good
        <2>. HIDE DEF Good
        <2>. QED
            BY <1>2, <1>3, InductionTo
    <1>. QED
        BY <1>4

\* All of them.
LEMMA InTurnSum ==
    ASSUME NEW S, NEW R, NEW n \in Nat, NEW f \in [1 .. n -> Seq(S)], NEW g \in Sums(S, n, f, R)
    PROVE  Tally(InTurn(n, f), R) = g[n]
    <1>1. FirstOf(f, n) = f /\ n \in 0 .. n
        BY DEF FirstOf
    <1>2. Tally(FlattenSeq(f), R) = g[n]
        BY <1>1, FlattenSums
    <1>. QED
        BY <1>2, InTurnIsFlatten

\* One piece is a part of them all.
LEMMA InTurnHas ==
    ASSUME NEW S, NEW R, NEW n \in Nat, NEW f \in [1 .. n -> Seq(S)], NEW j \in 1 .. n
    PROVE  Tally(f[j], R) <= Tally(InTurn(n, f), R)
    <1>. DEFINE T(k) == Tally(FlattenSeq(FirstOf(f, k)), R)
                Good == {k \in 0 .. n : j <= k => Tally(f[j], R) <= T(k)}
    <1>1. 0 \in Good
        OBVIOUS
    <1>2. ASSUME NEW k \in 0 .. n - 1, k \in Good
          PROVE  k + 1 \in Good
        <2>1. /\ FirstOf(f, k + 1) \in [1 .. k + 1 -> Seq(S)]
              /\ FirstOf(f, k) \in [1 .. k -> Seq(S)]
              /\ FirstOf(FirstOf(f, k + 1), k) = FirstOf(f, k)
              /\ FirstOf(f, k + 1)[k + 1] = f[k + 1]
              /\ k \in Nat /\ k + 1 \in 1 .. n
            BY DEF FirstOf
        <2>2. FlattenSeq(FirstOf(f, k + 1)) = FlattenSeq(FirstOf(f, k)) \o f[k + 1]
            BY <2>1, FlattenLast
        <2>3. FlattenSeq(FirstOf(f, k)) \in Seq(S) /\ f[k + 1] \in Seq(S) /\ f[j] \in Seq(S)
            BY <2>1, FlattenType
        <2>4. T(k + 1) = T(k) + Tally(f[k + 1], R)
            BY <2>2, <2>3, TallyConcat
        <2>5. T(k) \in Nat /\ Tally(f[k + 1], R) \in Nat /\ Tally(f[j], R) \in Nat
            BY <2>3, TallyType
        <2>6. j <= k + 1 => Tally(f[j], R) <= T(k + 1)
            <3>1. CASE j = k + 1
                <4>1. Tally(f[j], R) = Tally(f[k + 1], R)
                    BY <3>1
                <4>. HIDE DEF T
                <4>. QED
                    BY <2>4, <2>5, <4>1
            <3>2. CASE j <= k
                <4>1. Tally(f[j], R) <= T(k)
                    BY <1>2, <3>2
                <4>. HIDE DEF T
                <4>. QED
                    BY <2>4, <2>5, <4>1
            <3>. QED
                BY <2>1, <3>1, <3>2
        <2>7. k + 1 \in 0 .. n
            OBVIOUS
        <2>. QED
            BY <2>6, <2>7
    <1>3. \A k \in 0 .. n : k \in Good
        <2>. HIDE DEF Good
        <2>. QED
            BY <1>1, <1>2, InductionTo
    <1>4. FirstOf(f, n) = f /\ n \in 0 .. n /\ j <= n
        BY DEF FirstOf
    <1>5. Tally(f[j], R) <= Tally(FlattenSeq(f), R)
        BY <1>3, <1>4
    <1>. QED
        BY <1>5, InTurnIsFlatten

-----------------------------------------------------------------------------
(* The kinds of operations. *)

\* The launches of collectives on a group.
CallsOn(k) == {Call(k, n) : n \in Names \X Seq(Nat)}
\* The waits for collectives on a group.
WaitsOn(k) == {Wait(k)}

\* The operations on a group, with their names.
Ops(k, N) == {Call(k, n) : n \in N \X Seq(Nat)} \cup {Wait(k)}

\* The messages between pipeline stages.
Moves == {Send(p) : p \in Ranks} \cup {Recv(p) : p \in Ranks} \cup {Drain}

\* What a step calls, waits for, sends and receives are operations.
LEMMA OpTypes ==
    /\ \A k \in Kinds : \A N \in SUBSET Names : Ops(k, N) \subseteq Operations
    /\ \A k \in Kinds : CallsOn(k) \subseteq Operations /\ WaitsOn(k) \subseteq Operations
    /\ Moves \subseteq Operations
    <1>1. ASSUME NEW k \in Kinds, NEW N \in SUBSET Names
          PROVE  Ops(k, N) \subseteq Operations
        <2>1. ASSUME NEW n \in N \X Seq(Nat)
              PROVE  Call(k, n) \in Operations
            <3>1. n \in Names \X Seq(Nat)
                OBVIOUS
            <3>. QED
                BY <3>1 DEF Call, Operations
        <2>2. Wait(k) \in Operations
            BY DEF Wait, Operations
        <2>3. ASSUME NEW y \in Ops(k, N)
              PROVE  y \in Operations
            <3>1. y = Wait(k) \/ \E n \in N \X Seq(Nat) : y = Call(k, n)
                BY DEF Ops
            <3>. QED
                BY <2>1, <2>2, <3>1
        <2>. QED
            BY <2>3
    <1>2. ASSUME NEW k \in Kinds
          PROVE  CallsOn(k) \subseteq Operations /\ WaitsOn(k) \subseteq Operations
        BY DEF CallsOn, WaitsOn, Call, Wait, Operations
    <1>3. Moves \subseteq Operations
        BY DEF Moves, Send, Recv, Drain, Operations
    <1>. QED
        BY <1>1, <1>2, <1>3

\* Operations on a group are none on another one, and no messages.
LEMMA OpsApart ==
    ASSUME NEW j, NEW N
    PROVE  /\ \A k : j # k => Ops(j, N) \cap CallsOn(k) = {} /\ Ops(j, N) \cap WaitsOn(k) = {}
           /\ \A p : Ops(j, N) \cap {Send(p)} = {} /\ Ops(j, N) \cap {Recv(p)} = {}
    <1>1. ASSUME NEW x \in Ops(j, N)
          PROVE  x.kind = j /\ x.op \in {"call", "wait"}
        BY DEF Ops, Call, Wait
    <1>2. ASSUME NEW k, NEW x \in CallsOn(k)
          PROVE  x.kind = k
        BY DEF CallsOn, Call
    <1>3. ASSUME NEW k, NEW x \in WaitsOn(k)
          PROVE  x.kind = k
        BY DEF WaitsOn, Wait
    <1>4. \A p : Send(p).op = "send" /\ Recv(p).op = "recv"
        BY DEF Send, Recv
    <1>. QED
        BY <1>1, <1>2, <1>3, <1>4

\* Messages and drains are no collectives.
LEMMA MovesApart ==
    ASSUME NEW k
    PROVE  Moves \cap CallsOn(k) = {} /\ Moves \cap WaitsOn(k) = {}
    <1>1. ASSUME NEW x \in Moves
          PROVE  x.op \in {"send", "recv", "drain"}
        BY DEF Moves, Send, Recv, Drain
    <1>2. ASSUME NEW x \in CallsOn(k)
          PROVE  x.op = "call"
        BY DEF CallsOn, Call
    <1>3. ASSUME NEW x \in WaitsOn(k)
          PROVE  x.op = "wait"
        BY DEF WaitsOn, Wait
    <1>. QED
        BY <1>1, <1>2, <1>3

\* Calls are no waits.
LEMMA CallIsNoWait ==
    ASSUME NEW j, NEW k, NEW n
    PROVE  Call(j, n) \notin WaitsOn(k) /\ Wait(j) \notin CallsOn(k)
    <1>1. Call(j, n).op = "call" /\ Wait(j).op = "wait" /\ Wait(k).op = "wait"
        BY DEF Call, Wait
    <1>2. \A x \in CallsOn(k) : x.op = "call"
        BY DEF CallsOn, Call
    <1>. QED
        BY <1>1, <1>2 DEF WaitsOn

-----------------------------------------------------------------------------
(* Sequences in which every wait follows a call. *)

\* The sequences with as many waits on a group as launches, and no wait before its launch.
PairedOn(k) == Equal(Operations, WaitsOn(k), CallsOn(k)) \cap Leading(Operations, WaitsOn(k), CallsOn(k))

\* Concatenation keeps waits and launches paired.
LEMMA PairedJoined ==
    ASSUME NEW k
    PROVE  PairedOn(k) \in Joined(Operations)
    <1>1. Equal(Operations, WaitsOn(k), CallsOn(k)) \in Joined(Operations)
        BY EqualJoined
    <1>2. Leading(Operations, WaitsOn(k), CallsOn(k)) \in Joined(Operations)
        BY LeadingJoined
    <1>. QED
        BY <1>1, <1>2 DEF Joined, PairedOn

\* No calls and no waits.
LEMMA PairedNone ==
    ASSUME NEW k, NEW U \in SUBSET Operations, U \cap CallsOn(k) = {}, U \cap WaitsOn(k) = {},
           NEW s \in Seq(U)
    PROVE  s \in PairedOn(k)
    <1>1. s \in Seq(Operations)
        OBVIOUS
    <1>2. Tally(s, WaitsOn(k)) = 0 /\ Tally(s, CallsOn(k)) = 0
        BY TallyNone
    <1>3. s \in Leading(Operations, WaitsOn(k), CallsOn(k))
        BY <1>1, <1>2, LeadingNone
    <1>. QED
        BY <1>1, <1>2, <1>3 DEF PairedOn, Equal

\* Calls, then as many waits.
LEMMA PairedBehind ==
    ASSUME NEW k, NEW s \in Seq(Operations), NEW t \in Seq(Operations),
           Tally(s, WaitsOn(k)) = 0, Tally(t, CallsOn(k)) = 0,
           Tally(t, WaitsOn(k)) = Tally(s, CallsOn(k))
    PROVE  s \o t \in PairedOn(k)
    <1>. DEFINE W == WaitsOn(k)
                C == CallsOn(k)
    <1>0. Tally(s, C) \in Nat /\ Tally(s, W) = 0 /\ Tally(t, C) = 0 /\ Tally(t, W) = Tally(s, C)
        BY TallyType
    <1>. HIDE DEF W, C
    <1>1. s \o t \in Leading(Operations, W, C)
        <2>1. Tally(t, W) <= Tally(s, C)
            BY <1>0
        <2>. QED
            BY <1>0, <2>1, LeadingBehind
    <1>2. Tally(s \o t, W) = Tally(s, W) + Tally(t, W)
        BY TallyConcat
    <1>3. Tally(s \o t, C) = Tally(s, C) + Tally(t, C)
        BY TallyConcat
    <1>4. s \o t \in Seq(Operations)
        BY ConcatProperties
    <1>. QED
        BY <1>0, <1>1, <1>2, <1>3, <1>4 DEF PairedOn, Equal, W, C

\* A pair as a concatenation.
LEMMA PairOf ==
    ASSUME NEW x, NEW y
    PROVE  <<x>> \o <<y>> = <<x, y>>
    <1>. DEFINE S == {x, y}
                a == <<x>>
                b == <<y>>
                p == <<x, y>>
    <1>1. /\ a \in Seq(S) /\ b \in Seq(S) /\ p \in Seq(S) /\ Len(a) = 1 /\ Len(b) = 1 /\ Len(p) = 2
          /\ a[1] = x /\ b[1] = y /\ p[1] = x /\ p[2] = y
        OBVIOUS
    <1>. HIDE DEF S, a, b, p
    <1>2. /\ a \o b \in Seq(S) /\ Len(a \o b) = 2
          /\ (a \o b)[1] = x /\ (a \o b)[2] = y
        BY <1>1, ConcatProperties
    <1>3. a \o b = p
        BY <1>1, <1>2, SeqEqual
    <1>. QED
        BY <1>3 DEF a, b, p

\* A blocking collective.
LEMMA BlockingPaired ==
    ASSUME NEW c, NEW j \in Kinds, NEW N \in SUBSET Names, NEW n \in N, NEW x \in Seq(Nat)
    PROVE  /\ Blocking(c, j, <<n, x>>) \in Seq(Ops(j, N))
           /\ \A k \in Kinds : Blocking(c, j, <<n, x>>) \in PairedOn(k)
           /\ Tally(Blocking(c, j, <<n, x>>), WaitsOn(j)) = IF Size(c, j) > 1 THEN 1 ELSE 0
    <1>. DEFINE call == Call(j, <<n, x>>)
                one == <<call>>
                two == <<Wait(j)>>
                b == Blocking(c, j, <<n, x>>)
    <1>1. call \in Ops(j, N) /\ Wait(j) \in Ops(j, N) /\ Ops(j, N) \subseteq Operations
        <2>1. call \in Ops(j, N) /\ Wait(j) \in Ops(j, N)
            BY DEF Ops
        <2>2. Ops(j, N) \subseteq Operations
            BY OpTypes
        <2>. QED
            BY <2>1, <2>2
    <1>. HIDE DEF call
    <1>2. /\ one \in Seq(Ops(j, N)) /\ two \in Seq(Ops(j, N))
          /\ one \in Seq(Operations) /\ two \in Seq(Operations)
        BY <1>1
    <1>3. b = IF Size(c, j) > 1 THEN one \o two ELSE << >>
        <2>1. one \o two = <<call, Wait(j)>>
            BY PairOf
        <2>. QED
            BY <2>1 DEF Blocking, OnGroup, call
    <1>4. one \o two \in Seq(Ops(j, N)) /\ << >> \in Seq(Ops(j, N))
        BY <1>2, ConcatProperties
    <1>. HIDE DEF b, one, two
    <1>5. b \in Seq(Ops(j, N))
        BY <1>3, <1>4
    <1>6. /\ Tally(one, WaitsOn(j)) = 0 /\ Tally(two, WaitsOn(j)) = 1
          /\ Tally(one, CallsOn(j)) = 1 /\ Tally(two, CallsOn(j)) = 0
        <2>1. call \notin WaitsOn(j) /\ Wait(j) \in WaitsOn(j) /\ Wait(j) \notin CallsOn(j)
            BY CallIsNoWait DEF WaitsOn, call
        <2>2. call \in CallsOn(j)
            BY DEF CallsOn, call
        <2>. QED
            BY <2>1, <2>2, TallyOne DEF one, two
    <1>7. one \o two \in PairedOn(j)
        BY <1>2, <1>6, PairedBehind
    <1>8. << >> \in PairedOn(j)
        BY PairedJoined DEF Joined
    <1>9. b \in PairedOn(j)
        BY <1>3, <1>7, <1>8
    <1>10. ASSUME NEW k \in Kinds, k # j
           PROVE  b \in PairedOn(k)
        <2>1. Ops(j, N) \cap CallsOn(k) = {} /\ Ops(j, N) \cap WaitsOn(k) = {}
            BY <1>10, OpsApart
        <2>. HIDE DEF b
        <2>. QED
            BY <1>1, <1>5, <2>1, PairedNone
    <1>11. Tally(b, WaitsOn(j)) = IF Size(c, j) > 1 THEN 1 ELSE 0
        <2>1. Tally(one \o two, WaitsOn(j)) = Tally(one, WaitsOn(j)) + Tally(two, WaitsOn(j))
            BY <1>2, TallyConcat
        <2>2. Tally(<< >>, WaitsOn(j)) = 0
            BY TallyEmpty
        <2>. HIDE DEF b
        <2>. QED
            BY <1>3, <1>6, <2>1, <2>2
    <1>. QED
        BY <1>5, <1>9, <1>10, <1>11 DEF b

-----------------------------------------------------------------------------
(* The modules of a stage. *)

\* The modules of a model.
Modules == {"embedding", "block", "head"}

\* The embedding comes first and the head last.
LEMMA LayersOfModel ==
    LET n == Len(PipelineLayers(NLayer))
    IN  /\ PipelineLayers(NLayer) \in [1 .. n -> Modules] /\ n \in Nat
        /\ \A i \in 1 .. n : i < n => PipelineLayers(NLayer)[i] # "head"
        /\ \A i \in 1 .. n : i > 1 => PipelineLayers(NLayer)[i] # "embedding"
    <1>. DEFINE first == <<"embedding">>
                blocks == [i \in 1 .. NLayer |-> "block"]
                last == <<"head">>
                front == first \o blocks
    <1>1. NLayer \in Nat
        BY TrainStepAssumption
    <1>2. /\ first \in Seq(Modules) /\ last \in Seq(Modules) /\ Len(first) = 1 /\ Len(last) = 1
          /\ first[1] = "embedding" /\ last[1] = "head"
        BY DEF Modules
    <1>3. blocks \in Seq(Modules) /\ Len(blocks) = NLayer /\ \A i \in 1 .. NLayer : blocks[i] = "block"
        <2>1. blocks \in [1 .. NLayer -> Modules]
            BY DEF Modules
        <2>. QED
            BY <1>1, <2>1
    <1>4. PipelineLayers(NLayer) = front \o last
        BY DEF PipelineLayers
    <1>. HIDE DEF first, blocks, last
    <1>5. /\ front \in Seq(Modules) /\ Len(front) = 1 + NLayer
          /\ \A i \in 1 .. 1 + NLayer : front[i] = IF i <= 1 THEN first[i] ELSE blocks[i - 1]
        BY <1>2, <1>3, ConcatProperties
    <1>. HIDE DEF front
    <1>6. /\ front \o last \in Seq(Modules) /\ Len(front \o last) = (1 + NLayer) + 1
          /\ \A i \in 1 .. (1 + NLayer) + 1 :
                (front \o last)[i] = IF i <= 1 + NLayer THEN front[i] ELSE last[i - (1 + NLayer)]
        <2>1. /\ front \o last \in Seq(Modules) /\ Len(front \o last) = Len(front) + Len(last)
              /\ \A i \in 1 .. Len(front) + Len(last) :
                    (front \o last)[i] = IF i <= Len(front) THEN front[i] ELSE last[i - Len(front)]
            BY <1>2, <1>5, ConcatProperties
        <2>2. Len(front) = 1 + NLayer /\ Len(last) = 1
            BY <1>2, <1>5
        <2>. QED
            BY <2>1, <2>2
    <1>7. (1 + NLayer) + 1 = NLayer + 2
        BY <1>1
    <1>8. \A i \in 1 .. NLayer + 2 : i < NLayer + 2 =>
             (front \o last)[i] = front[i] /\ front[i] # "head"
        BY <1>1, <1>2, <1>3, <1>5, <1>6
    <1>9. \A i \in 1 .. NLayer + 2 : i > 1 => (front \o last)[i] # "embedding"
        <2>. TAKE i \in 1 .. NLayer + 2
        <2>. HAVE i > 1
        <2>1. CASE i <= 1 + NLayer
            <3>1. (front \o last)[i] = front[i] /\ front[i] = blocks[i - 1] /\ i - 1 \in 1 .. NLayer
                BY <1>1, <1>5, <1>6, <2>1
            <3>. QED
                BY <1>3, <3>1
        <2>2. CASE ~(i <= 1 + NLayer)
            <3>1. i - (1 + NLayer) = 1 /\ i \in 1 .. (1 + NLayer) + 1
                BY <1>1, <2>2
            <3>2. (front \o last)[i] = last[1]
                BY <1>6, <2>2, <3>1
            <3>. QED
                BY <1>2, <3>2
        <2>. QED
            BY <2>1, <2>2
    <1>10. front \o last \in [1 .. NLayer + 2 -> Modules]
        BY <1>6, <1>7, LenProperties
    <1>. QED
        BY <1>1, <1>4, <1>6, <1>7, <1>8, <1>9, <1>10

\* A configuration's mesh.
LEMMA ShapeOf ==
    ASSUME NEW c \in Configs
    PROVE  /\ IsShape(c.shape) /\ RanksOf(c.shape) = Ranks
           /\ c.shape.tp \in Nat \ {0} /\ c.shape.dp \in Nat \ {0} /\ c.shape.pp \in Nat \ {0}
           /\ c.shape.pp \in 1 .. Len(PipelineLayers(NLayer))
           /\ c.strategy \in {"none", "ddp", "fsdp"} /\ c.sched \in {"gpipe", "1f1b"}
           /\ c.overlap => c.strategy = "ddp" /\ c.shape.pp = 1
           /\ World \in Nat \ {0, 1}
           /\ \A r \in Ranks :
                /\ CoordOf(c.shape, r).pp \in 0 .. c.shape.pp - 1
                /\ CoordOf(c.shape, r).dp \in 0 .. c.shape.dp - 1
                /\ CoordOf(c.shape, r).tp \in 0 .. c.shape.tp - 1
    <1>1. /\ c.shape \in Shapes /\ c.strategy \in {"none", "ddp", "fsdp"} /\ c.sched \in {"gpipe", "1f1b"}
          /\ c.overlap => c.strategy = "ddp" /\ c.shape.pp = 1
        BY DEF Configs
    <1>2. /\ IsShape(c.shape) /\ RanksOf(c.shape) = Ranks /\ World \in Nat \ {0, 1}
          /\ c.shape.pp <= Len(PipelineLayers(NLayer))
        BY <1>1, TrainStepAssumption DEF RanksOf, Ranks
    <1>3. c.shape.tp \in Nat \ {0} /\ c.shape.dp \in Nat \ {0} /\ c.shape.pp \in Nat \ {0}
        BY <1>2 DEF IsShape
    <1>4. c.shape.pp \in 1 .. Len(PipelineLayers(NLayer))
        BY <1>2, <1>3, LayerCount
    <1>5. ASSUME NEW r \in Ranks
          PROVE  /\ CoordOf(c.shape, r).pp \in 0 .. c.shape.pp - 1
                 /\ CoordOf(c.shape, r).dp \in 0 .. c.shape.dp - 1
                 /\ CoordOf(c.shape, r).tp \in 0 .. c.shape.tp - 1
        BY <1>2, RankOfCoordOf
    <1>. QED
        BY <1>1, <1>2, <1>3, <1>4, <1>5

\* What a stage holds: at least a module; the head on the last stage only and
\* the embedding on the first only.
LEMMA StageModel ==
    ASSUME NEW c \in Configs, NEW r \in Ranks
    PROVE  LET model == Model(c, r)
               n == Len(model)
           IN  /\ model \in Seq(Modules) /\ model \in [1 .. n -> Modules] /\ n \in Nat \ {0}
               /\ ~IsLastStage(c.shape, r) => model[n] # "head"
               /\ ~IsFirstStage(c.shape, r) => model[1] # "embedding"
               /\ c.shape.pp = 1 => Parts <= n
    <1>. DEFINE L == PipelineLayers(NLayer)
                n == Len(L)
                p == c.shape.pp
                s == CoordOf(c.shape, r).pp
                first == StageStart(n, p, s)
                end == StageEnd(n, p, s)
                model == Model(c, r)
    <1>1. /\ n \in Nat /\ L \in [1 .. n -> Modules]
          /\ \A i \in 1 .. n : i < n => L[i] # "head"
          /\ \A i \in 1 .. n : i > 1 => L[i] # "embedding"
        BY LayersOfModel
    <1>2. p \in 1 .. n /\ s \in 0 .. p - 1
        BY ShapeOf
    <1>3. model = SubSeq(L, first + 1, end)
        BY DEF Model, partition_layers
    <1>4. IsLastStage(c.shape, r) <=> s = p - 1
        BY DEF IsLastStage
    <1>5. IsFirstStage(c.shape, r) <=> s = 0
        BY DEF IsFirstStage
    <1>6. c.shape.pp = 1 => p = 1
        OBVIOUS
    <1>7. Parts \in Nat /\ Parts <= n
        BY TrainStepAssumption
    <1>. HIDE DEF L, n, p, s, model
    <1>8. first \in Nat /\ end \in Nat /\ end - first \in Nat \ {0} /\ first < end
        <2>. DEFINE size == StageSize(n, p, s)
        <2>1. /\ first \in Nat /\ size \in Nat \ {0} /\ end \in Nat /\ end = first + size
            BY <1>1, <1>2, StageNumbers
        <2>. HIDE DEF first, end, size
        <2>. QED
            BY <2>1
    <1>9. /\ end <= n /\ (s # p - 1 => end < n)
          /\ (s # 0 => first > 0)
          /\ (p = 1 => first = 0 /\ end = n)
        <2>1. StageStart(n, p, 0) = 0 /\ StageEnd(n, p, p - 1) = n
            BY <1>1, <1>2, EndsOfModel
        <2>2. /\ 0 \in 0 .. p - 1 /\ p - 1 \in 0 .. p - 1
            BY <1>1, <1>2
        <2>3. StageEnd(n, p, 0) > 0 /\ StageStart(n, p, p - 1) < n
              /\ StageEnd(n, p, 0) \in Nat /\ StageStart(n, p, p - 1) \in Nat
            <3>. DEFINE e0 == StageEnd(n, p, 0)
                        z0 == StageSize(n, p, 0)
                        l == p - 1
                        sl == StageStart(n, p, l)
                        zl == StageSize(n, p, l)
            <3>1. e0 \in Nat /\ z0 \in Nat \ {0} /\ e0 = StageStart(n, p, 0) + z0
                BY <1>1, <1>2, <2>2, StageNumbers
            <3>2. sl \in Nat /\ zl \in Nat \ {0} /\ StageEnd(n, p, l) = sl + zl
                <4>1. l \in 0 .. p - 1
                    BY <2>2
                <4>. HIDE DEF l
                <4>. QED
                    BY <1>1, <1>2, <4>1, StageNumbers
            <3>3. StageEnd(n, p, l) = n /\ StageStart(n, p, 0) = 0
                BY <2>1
            <3>. HIDE DEF e0, z0, l, sl, zl
            <3>4. e0 > 0 /\ sl < n
                BY <1>1, <3>1, <3>2, <3>3
            <3>. QED
                BY <3>1, <3>2, <3>4 DEF e0, sl, l
        <2>4. s # p - 1 => end <= StageStart(n, p, p - 1)
            BY <1>1, <1>2, <2>2, StagesInOrder
        <2>5. s # 0 => StageEnd(n, p, 0) <= first
            BY <1>1, <1>2, <2>2, StagesInOrder
        <2>6. s = p - 1 => end = n
            BY <2>1
        <2>7. p = 1 => s = 0 /\ s = p - 1
            BY <1>2
        <2>. HIDE DEF first, end
        <2>8. p = 1 => first = 0
            BY <2>1, <2>7 DEF first
        <2>. QED
            BY <1>1, <1>8, <2>1, <2>3, <2>4, <2>5, <2>6, <2>7, <2>8
    <1>. HIDE DEF first, end
    <1>10. /\ model \in Seq(Modules) /\ Len(model) = end - first
           /\ \A i \in 1 .. end - first : model[i] = L[first + i]
        <2>1. \A i \in first + 1 .. end : L[i] \in Modules
            BY <1>1, <1>8, <1>9
        <2>2. /\ model \in Seq(Modules)
              /\ Len(model) = IF first + 1 <= end THEN end - (first + 1) + 1 ELSE 0
              /\ \A i \in 1 .. end - (first + 1) + 1 : model[i] = L[(first + 1) + i - 1]
            BY <1>3, <1>8, <2>1, SubSeqProperties
        <2>3. /\ end - (first + 1) + 1 = end - first
              /\ \A i \in 1 .. end - first : (first + 1) + i - 1 = first + i
            BY <1>8
        <2>. QED
            BY <1>8, <2>2, <2>3
    <1>11. Len(model) \in Nat \ {0} /\ model \in [1 .. Len(model) -> Modules]
        BY <1>8, <1>10
    <1>12. s # p - 1 => model[Len(model)] # "head"
        <2>1. model[end - first] = L[first + (end - first)] /\ first + (end - first) = end
            BY <1>8, <1>10
        <2>2. end \in 1 .. n
            BY <1>1, <1>8, <1>9
        <2>. QED
            BY <1>1, <1>9, <1>10, <2>1, <2>2
    <1>13. s # 0 => model[1] # "embedding"
        <2>1. model[1] = L[first + 1] /\ first + 1 \in 1 .. n
            BY <1>1, <1>8, <1>9, <1>10
        <2>. QED
            BY <1>1, <1>8, <1>9, <2>1
    <1>14. c.shape.pp = 1 => Parts <= Len(model)
        BY <1>1, <1>6, <1>7, <1>9, <1>10
    <1>. QED
        BY <1>4, <1>5, <1>10, <1>11, <1>12, <1>13, <1>14 DEF model

-----------------------------------------------------------------------------
(* What the parts of a program are made of. *)

\* Operations of a set, every wait behind its call.
Paired(U) == {s \in Seq(U) : \A k \in Kinds : s \in PairedOn(k)}

\* Paired sequences of operations can be concatenated.
LEMMA PairedParts ==
    ASSUME NEW U \in SUBSET Operations
    PROVE  /\ Paired(U) \in Joined(Operations)
           /\ << >> \in Paired(U) /\ Paired(U) \subseteq Seq(U) /\ Seq(U) \subseteq Seq(Operations)
           /\ \A s, t \in Paired(U) : s \o t \in Paired(U)
    <1>1. Seq(U) \in Joined(Operations)
        BY SeqJoined
    <1>2. \A k \in Kinds : PairedOn(k) \in Joined(Operations)
        BY PairedJoined
    <1>3. << >> \in Paired(U) /\ Paired(U) \subseteq Seq(U) /\ Seq(U) \subseteq Seq(Operations)
        BY <1>1, <1>2 DEF Joined, Paired
    <1>4. ASSUME NEW s \in Paired(U), NEW t \in Paired(U)
          PROVE  s \o t \in Paired(U)
        <2>1. s \o t \in Seq(U)
            BY <1>1 DEF Joined, Paired
        <2>2. ASSUME NEW k \in Kinds PROVE s \o t \in PairedOn(k)
            BY <1>2 DEF Joined, Paired
        <2>. QED
            BY <2>1, <2>2 DEF Paired
    <1>5. Paired(U) \in SUBSET Seq(Operations)
        BY <1>3
    <1>. QED
        BY <1>3, <1>4, <1>5 DEF Joined

\* A paired sequence is one over a larger set of operations.
LEMMA PairedIn ==
    ASSUME NEW U, NEW V, U \subseteq V, NEW s \in Paired(U)
    PROVE  s \in Paired(V)
    <1>1. s \in Seq(V)
        BY DEF Paired
    <1>. QED
        BY <1>1 DEF Paired

\* The collectives of the tensor-parallel layers and the loss, and those on
\* the data group during a step.
TpNames == {"reduce", "copy", "max", "sum", "predicted"}
\* What is called on the data-parallel group in a step.
DpNames == {"forward", "backward", "bucket", "scatter"}
\* The operations of a step on the tensor-parallel group.
TpOps == Ops("tp", TpNames)
\* The operations of a step on the data-parallel group.
DpOps == Ops("dp", DpNames)

\* The sets of a step's operations are sets of operations.
LEMMA OpSets ==
    /\ TpNames \in SUBSET Names /\ DpNames \in SUBSET Names
    /\ TpOps \in SUBSET Operations /\ DpOps \in SUBSET Operations
    /\ TpOps \cup DpOps \in SUBSET Operations
    /\ TpOps \cup DpOps \cup Moves \in SUBSET Operations
    /\ {"tp", "dp", "pp", "world"} = Kinds
    <1>1. TpNames \in SUBSET Names /\ DpNames \in SUBSET Names
        BY DEF TpNames, DpNames, Names
    <1>2. TpOps \subseteq Operations /\ DpOps \subseteq Operations /\ Moves \subseteq Operations
        BY <1>1, OpTypes DEF TpOps, DpOps, Kinds
    <1>. QED
        BY <1>1, <1>2 DEF Kinds

\* One blocking collective.
LEMMA OneBlocking ==
    ASSUME NEW c, NEW j \in Kinds, NEW N \in SUBSET Names, NEW n \in N, NEW x \in Seq(Nat)
    PROVE  Blocking(c, j, <<n, x>>) \in Paired(Ops(j, N))
    BY BlockingPaired DEF Paired

\* The all-reduces of a number of layers.
LEMMA TpCallsPaired ==
    ASSUME NEW c, NEW n \in Nat, NEW name \in TpNames
    PROVE  /\ TpCalls(c, n, name) \in Paired(TpOps)
           /\ Size(c, "tp") > 1 => Tally(TpCalls(c, n, name), WaitsOn("tp")) = n
    <1>. DEFINE b == Blocking(c, "tp", <<name, << >>>>)
                f == [i \in 1 .. n |-> b]
                none == << >>
    <1>1. "tp" \in Kinds /\ none \in Seq(Nat)
        BY DEF Kinds
    <1>2. b \in Paired(TpOps) /\ Tally(b, WaitsOn("tp")) = IF Size(c, "tp") > 1 THEN 1 ELSE 0
        <2>. HIDE DEF none
        <2>1. Blocking(c, "tp", <<name, none>>) \in Paired(Ops("tp", TpNames))
            BY <1>1, OpSets, OneBlocking
        <2>2. Tally(Blocking(c, "tp", <<name, none>>), WaitsOn("tp")) = IF Size(c, "tp") > 1 THEN 1 ELSE 0
            BY <1>1, OpSets, BlockingPaired
        <2>. QED
            BY <2>1, <2>2 DEF TpOps, none
    <1>3. TpCalls(c, n, name) = InTurn(n, f)
        BY DEF TpCalls
    <1>. HIDE DEF b
    <1>4. f \in [1 .. n -> Paired(TpOps)]
        BY <1>2
    <1>5. f \in [1 .. n -> Seq(Operations)]
        BY <1>4, OpSets, PairedParts
    <1>6. \A i \in 1 .. n : f[i] = b
        OBVIOUS
    <1>. HIDE DEF f
    <1>7. InTurn(n, f) \in Paired(TpOps)
        BY <1>4, OpSets, PairedParts, InTurnJoined
    <1>8. ASSUME Size(c, "tp") > 1
          PROVE  Tally(InTurn(n, f), WaitsOn("tp")) = n
        <2>1. \A i \in 1 .. n : Tally(f[i], WaitsOn("tp")) = 1
            BY <1>2, <1>6, <1>8
        <2>. DEFINE one == 1
        <2>4. one \in Nat /\ EachHas(n, f, WaitsOn("tp"), one)
            BY <2>1 DEF EachHas
        <2>. HIDE DEF one
        <2>5. Tally(FlattenSeq(f), WaitsOn("tp")) = n * one
            BY <1>5, <2>4, FlattenTally
        <2>2. Tally(FlattenSeq(f), WaitsOn("tp")) = n
            BY <2>5 DEF one
        <2>3. InTurn(n, f) = FlattenSeq(f)
            BY <1>5, InTurnIsFlatten
        <2>. QED
            BY <2>2, <2>3
    <1>. QED
        BY <1>3, <1>7, <1>8

\* The vocabulary-parallel loss.
LEMMA LossPaired ==
    ASSUME NEW c
    PROVE  /\ Loss(c) \in Paired(TpOps)
           /\ Size(c, "tp") > 1 => Tally(Loss(c), WaitsOn("tp")) > 0
    <1>. DEFINE x == Blocking(c, "tp", <<"max", << >>>>)
                y == Blocking(c, "tp", <<"sum", << >>>>)
                z == Blocking(c, "tp", <<"predicted", << >>>>)
                none == << >>
    <1>1. "tp" \in Kinds /\ none \in Seq(Nat) /\ TpNames \in SUBSET Names
          /\ "max" \in TpNames /\ "sum" \in TpNames /\ "predicted" \in TpNames
        BY OpSets DEF Kinds, TpNames
    <1>2. x \in Paired(TpOps) /\ y \in Paired(TpOps) /\ z \in Paired(TpOps)
        <2>. HIDE DEF none
        <2>1. \A n \in TpNames : Blocking(c, "tp", <<n, none>>) \in Paired(Ops("tp", TpNames))
            BY <1>1, OneBlocking
        <2>. QED
            BY <1>1, <2>1 DEF TpOps, none
    <1>3. Tally(x, WaitsOn("tp")) = IF Size(c, "tp") > 1 THEN 1 ELSE 0
        <2>. HIDE DEF none
        <2>1. Tally(Blocking(c, "tp", <<"max", none>>), WaitsOn("tp")) = IF Size(c, "tp") > 1 THEN 1 ELSE 0
            BY <1>1, BlockingPaired
        <2>. QED
            BY <2>1 DEF none
    <1>4. Loss(c) = (x \o y) \o z
        BY DEF Loss
    <1>. HIDE DEF x, y, z
    <1>5. x \o y \in Paired(TpOps)
        BY <1>2, OpSets, PairedParts
    <1>6. (x \o y) \o z \in Paired(TpOps)
        BY <1>2, <1>5, OpSets, PairedParts
    <1>7. ASSUME Size(c, "tp") > 1
          PROVE  Tally((x \o y) \o z, WaitsOn("tp")) > 0
        <2>. DEFINE u == x \o y
        <2>1. x \in Seq(Operations) /\ y \in Seq(Operations) /\ z \in Seq(Operations)
              /\ u \in Seq(Operations)
            BY <1>2, <1>5, OpSets, PairedParts
        <2>2. Tally(x, WaitsOn("tp")) <= Tally(u, WaitsOn("tp"))
            BY <2>1, TallyPart
        <2>. HIDE DEF u
        <2>3. Tally(u, WaitsOn("tp")) <= Tally(u \o z, WaitsOn("tp"))
            BY <2>1, TallyPart
        <2>4. /\ Tally(u, WaitsOn("tp")) \in Nat /\ Tally(u \o z, WaitsOn("tp")) \in Nat
            <3>1. u \o z \in Seq(Operations)
                BY <2>1, ConcatProperties
            <3>. QED
                BY <2>1, <3>1, TallyType
        <2>5. Tally(x, WaitsOn("tp")) = 1
            BY <1>3, <1>7
        <2>. QED
            BY <2>2, <2>3, <2>4, <2>5 DEF u
    <1>. QED
        BY <1>4, <1>6, <1>7

\* FSDP's gathers.
LEMMA GatherPaired ==
    ASSUME NEW c, NEW pass \in {"forward", "backward"}
    PROVE  /\ Gather(c, pass) \in Paired(DpOps)
           /\ c.strategy # "fsdp" => Gather(c, pass) = << >>
           /\ c.strategy = "fsdp" /\ Size(c, "dp") > 1 => Tally(Gather(c, pass), CallsOn("dp")) = 1
    <1>. DEFINE none == << >>
                b == Blocking(c, "dp", <<pass, none>>)
    <1>1. "dp" \in Kinds /\ none \in Seq(Nat) /\ DpNames \in SUBSET Names /\ pass \in DpNames
        BY OpSets DEF Kinds, DpNames
    <1>2. Gather(c, pass) = IF c.strategy = "fsdp" THEN b ELSE << >>
        BY DEF Gather
    <1>. HIDE DEF none
    <1>3. b \in Paired(Ops("dp", DpNames))
        BY <1>1, OneBlocking
    <1>4. << >> \in Paired(DpOps)
        BY OpSets, PairedParts
    <1>5. Tally(b, WaitsOn("dp")) = IF Size(c, "dp") > 1 THEN 1 ELSE 0
        BY <1>1, BlockingPaired
    <1>. HIDE DEF b
    <1>6. Tally(b, CallsOn("dp")) = Tally(b, WaitsOn("dp"))
        BY <1>1, <1>3 DEF Paired, PairedOn, Equal
    <1>. QED
        BY <1>2, <1>3, <1>4, <1>5, <1>6 DEF DpOps

\* A whole forward: on the tensor and, with FSDP, on the data group.  Every
\* stage but the last has an all-reduce in its last module, and the last has
\* those of the loss.
LEMMA ForwardPaired ==
    ASSUME NEW c \in Configs, NEW r \in Ranks, NEW U \in {TpOps, TpOps \cup DpOps},
           U = TpOps \cup DpOps \/ c.strategy # "fsdp"
    PROVE  /\ ForwardOps(c, r) \in Paired(U)
           /\ Size(c, "tp") > 1 => Tally(ForwardOps(c, r), WaitsOn("tp")) > 0
    <1>. DEFINE model == Model(c, r)
                n == Len(model)
                f == [k \in DOMAIN model |-> TpCalls(c, Reduces[model[k]], "reduce")]
                gathers == Gather(c, "forward")
                layers == InTurn(n, f)
                loss == IF IsLastStage(c.shape, r) THEN Loss(c) ELSE << >>
                W == WaitsOn("tp")
    <1>1. /\ model \in [1 .. n -> Modules] /\ n \in Nat \ {0} /\ DOMAIN model = 1 .. n
          /\ ~IsLastStage(c.shape, r) => model[n] # "head"
        <2>1. /\ model \in [1 .. n -> Modules] /\ n \in Nat \ {0}
              /\ ~IsLastStage(c.shape, r) => model[n] # "head"
            BY StageModel
        <2>. HIDE DEF model
        <2>. QED
            BY <2>1
    <1>2. ForwardOps(c, r) = (gathers \o layers) \o loss
        BY DEF ForwardOps
    <1>3. U \in SUBSET Operations /\ TpOps \subseteq U /\ TpOps \subseteq Operations
        BY OpSets
    <1>. HIDE DEF model, n
    <1>4. ASSUME NEW k \in 1 .. n
          PROVE  /\ f[k] \in Paired(U)
                 /\ Size(c, "tp") > 1 => Tally(f[k], W) = Reduces[model[k]]
                 /\ model[k] # "head" => Reduces[model[k]] > 0
        <2>1. model[k] \in Modules /\ f[k] = TpCalls(c, Reduces[model[k]], "reduce")
            BY <1>1
        <2>2. Reduces[model[k]] \in Nat /\ (model[k] # "head" => Reduces[model[k]] > 0)
            BY <2>1 DEF Reduces, Modules
        <2>3. "reduce" \in TpNames
            BY DEF TpNames
        <2>. DEFINE many == Reduces[model[k]]
        <2>. HIDE DEF f
        <2>4. /\ TpCalls(c, many, "reduce") \in Paired(TpOps)
              /\ Size(c, "tp") > 1 => Tally(TpCalls(c, many, "reduce"), WaitsOn("tp")) = many
            <3>. HIDE DEF many
            <3>1. many \in Nat
                BY <2>2 DEF many
            <3>. QED
                BY <2>3, <3>1, TpCallsPaired
        <2>5. TpCalls(c, many, "reduce") \in Paired(U)
            BY <1>3, <2>4, PairedIn
        <2>. QED
            BY <2>1, <2>2, <2>4, <2>5
    <1>5. f \in [1 .. n -> Paired(U)]
        BY <1>1, <1>4
    <1>6. gathers \in Paired(U)
        <2>1. gathers \in Paired(DpOps) /\ (c.strategy # "fsdp" => gathers = << >>)
            BY GatherPaired
        <2>. HIDE DEF gathers
        <2>2. << >> \in Paired(U)
            BY <1>3, PairedParts
        <2>3. CASE U = TpOps \cup DpOps
            <3>1. DpOps \subseteq U
                BY <2>3
            <3>. QED
                BY <2>1, <3>1, PairedIn
        <2>. QED
            BY <2>1, <2>2, <2>3
    <1>7. loss \in Paired(U)
        <2>1. Loss(c) \in Paired(U)
            BY <1>3, LossPaired, PairedIn
        <2>2. << >> \in Paired(U)
            BY <1>3, PairedParts
        <2>. QED
            BY <2>1, <2>2
    <1>8. IsLastStage(c.shape, r) => loss = Loss(c)
        OBVIOUS
    <1>. HIDE DEF f, gathers, loss
    <1>9. layers \in Paired(U)
        <2>1. n \in Nat /\ Paired(U) \in Joined(Operations)
            BY <1>1, <1>3, PairedParts
        <2>. QED
            BY <1>5, <2>1, InTurnJoined
    <1>10. gathers \o layers \in Paired(U)
        BY <1>3, <1>6, <1>9, PairedParts
    <1>11. (gathers \o layers) \o loss \in Paired(U)
        <2>. DEFINE u == gathers \o layers
        <2>1. u \in Paired(U)
            BY <1>10
        <2>. HIDE DEF u
        <2>2. u \o loss \in Paired(U)
            BY <1>3, <1>7, <2>1, PairedParts
        <2>. QED
            BY <2>2 DEF u
    <1>12. ASSUME Size(c, "tp") > 1
           PROVE  Tally((gathers \o layers) \o loss, W) > 0
        <2>. DEFINE u == gathers \o layers
        <2>1. u \in Seq(Operations) /\ gathers \in Seq(Operations) /\ layers \in Seq(Operations)
              /\ loss \in Seq(Operations)
            BY <1>3, <1>6, <1>7, <1>9, <1>10, PairedParts
        <2>2. Tally(layers, W) <= Tally(u, W)
            <3>. HIDE DEF layers
            <3>. QED
                BY <2>1, TallyPart
        <2>. HIDE DEF u, layers
        <2>3. Tally(u, W) <= Tally(u \o loss, W) /\ Tally(loss, W) <= Tally(u \o loss, W)
            BY <2>1, TallyPart
        <2>4. /\ Tally(u, W) \in Nat /\ Tally(u \o loss, W) \in Nat
              /\ Tally(layers, W) \in Nat /\ Tally(loss, W) \in Nat
            <3>1. u \o loss \in Seq(Operations)
                BY <2>1, ConcatProperties
            <3>. QED
                BY <2>1, <3>1, TallyType
        <2>5. CASE IsLastStage(c.shape, r)
            <3>1. Tally(loss, W) > 0
                BY <1>8, <1>12, <2>5, LossPaired
            <3>. HIDE DEF W
            <3>. QED
                BY <2>3, <2>4, <3>1 DEF u
        <2>6. CASE ~IsLastStage(c.shape, r)
            <3>1. n \in 1 .. n /\ n \in Nat
                BY <1>1
            <3>2. Tally(f[n], W) > 0
                BY <1>1, <1>4, <1>12, <2>6, <3>1
            <3>3. f \in [1 .. n -> Seq(Operations)]
                BY <1>3, <1>5, PairedParts
            <3>4. Tally(f[n], W) <= Tally(layers, W)
                BY <3>1, <3>3, InTurnHas DEF layers
            <3>5. Tally(f[n], W) \in Nat
                BY <3>1, <3>3, TallyType
            <3>. HIDE DEF W
            <3>. QED
                BY <2>2, <2>3, <2>4, <3>2, <3>4, <3>5 DEF u
        <2>. QED
            BY <2>5, <2>6
    <1>. QED
        BY <1>2, <1>11, <1>12

\* What a hook calls is waited for at once, unless DDP overlaps.
LEMMA HookPaired ==
    ASSUME NEW c \in Configs, NEW b \in Nat, NEW U \in {TpOps, TpOps \cup DpOps},
           U = TpOps \cup DpOps \/ c.strategy # "fsdp", ~c.overlap
    PROVE  Hook(c, b) \in Paired(U)
    <1>. DEFINE x == <<b>>
    <1>1. U \in SUBSET Operations /\ x \in Seq(Nat)
        BY OpSets
    <1>2. << >> \in Paired(U)
        BY <1>1, PairedParts
    <1>3. CASE c.strategy = "fsdp"
        <2>1. Hook(c, b) = Blocking(c, "dp", <<"scatter", x>>)
            BY <1>3 DEF Hook, Scatter
        <2>2. "scatter" \in DpNames /\ "dp" \in Kinds /\ DpNames \in SUBSET Names
            BY OpSets DEF DpNames, Kinds
        <2>. HIDE DEF x
        <2>3. Blocking(c, "dp", <<"scatter", x>>) \in Paired(Ops("dp", DpNames))
            BY <1>1, <2>2, OneBlocking
        <2>4. DpOps \subseteq U
            BY <1>3
        <2>. DEFINE y == Blocking(c, "dp", <<"scatter", x>>)
        <2>5. y \in Paired(DpOps)
            BY <2>3 DEF DpOps
        <2>. HIDE DEF y
        <2>6. y \in Paired(U)
            BY <2>4, <2>5, PairedIn
        <2>. QED
            BY <2>1, <2>6 DEF y
    <1>4. CASE c.strategy # "fsdp"
        BY <1>2, <1>4 DEF Hook
    <1>. QED
        BY <1>3, <1>4

\* A whole backward that leaves nothing under way, as its hooks are off or wait
\* for what they call.  Every stage but the first has an all-reduce in its first
\* module, and FSDP gathers.
LEMMA BackwardPaired ==
    ASSUME NEW c \in Configs, NEW r \in Ranks, NEW U \in {TpOps, TpOps \cup DpOps},
           U = TpOps \cup DpOps \/ c.strategy # "fsdp", NEW h \in BOOLEAN, ~h \/ ~c.overlap
    PROVE  /\ BackwardOps(c, r, h) \in Paired(U)
           /\ Size(c, "tp") > 1 /\ ~IsFirstStage(c.shape, r)
                => Tally(BackwardOps(c, r, h), WaitsOn("tp")) > 0
           /\ c.strategy = "fsdp" /\ Size(c, "dp") > 1
                => Tally(BackwardOps(c, r, h), CallsOn("dp")) > 0
    <1>. DEFINE model == Model(c, r)
                n == Len(model)
                hooks(left) == IF h /\ left < Parts THEN Hook(c, Parts - left) ELSE << >>
                piece(k) == TpCalls(c, Copies[model[n + 1 - k]], "copy") \o hooks(n - k)
                f == [k \in DOMAIN model |-> piece(k)]
                gathers == Gather(c, "backward")
                layers == InTurn(n, f)
                W == WaitsOn("tp")
    <1>1. /\ model \in [1 .. n -> Modules] /\ n \in Nat \ {0} /\ DOMAIN model = 1 .. n
          /\ ~IsFirstStage(c.shape, r) => model[1] # "embedding"
        <2>1. /\ model \in [1 .. n -> Modules] /\ n \in Nat \ {0}
              /\ ~IsFirstStage(c.shape, r) => model[1] # "embedding"
            BY StageModel
        <2>. HIDE DEF model
        <2>. QED
            BY <2>1
    <1>2. BackwardOps(c, r, h) = gathers \o layers
        BY DEF BackwardOps
    <1>3. U \in SUBSET Operations /\ TpOps \subseteq U /\ TpOps \subseteq Operations
        BY OpSets
    <1>. HIDE DEF model, n
    <1>4. ASSUME NEW k \in 1 .. n
          PROVE  /\ piece(k) \in Paired(U)
                 /\ Size(c, "tp") > 1 => Tally(piece(k), W) >= Copies[model[n + 1 - k]]
                 /\ Tally(piece(k), W) \in Nat /\ Copies[model[n + 1 - k]] \in Nat
                 /\ model[n + 1 - k] # "embedding" => Copies[model[n + 1 - k]] > 0
        <2>. DEFINE i == n + 1 - k
                    many == Copies[model[i]]
        <2>0. i \in 1 .. n
            BY <1>1
        <2>. HIDE DEF i
        <2>1. model[i] \in Modules
            BY <1>1, <2>0
        <2>2. many \in Nat /\ (model[i] # "embedding" => many > 0)
            BY <2>1 DEF Copies, Modules
        <2>3. "copy" \in TpNames
            BY DEF TpNames
        <2>. HIDE DEF many
        <2>4. /\ TpCalls(c, many, "copy") \in Paired(TpOps)
              /\ Size(c, "tp") > 1 => Tally(TpCalls(c, many, "copy"), WaitsOn("tp")) = many
            BY <2>2, <2>3, TpCallsPaired
        <2>5. TpCalls(c, many, "copy") \in Paired(U)
            BY <1>3, <2>4, PairedIn
        <2>6. TpCalls(c, many, "copy") \in Seq(Operations)
            BY <1>3, <2>5, PairedParts
        <2>. DEFINE left == n - k
                    a == TpCalls(c, many, "copy")
                    b == hooks(left)
        <2>7. b \in Paired(U)
            <3>1. left \in Nat
                BY <1>1
            <3>. HIDE DEF left
            <3>2. b = IF h /\ left < Parts THEN Hook(c, Parts - left) ELSE << >>
                OBVIOUS
            <3>. HIDE DEF b
            <3>3. CASE h /\ left < Parts
                <4>. DEFINE p == Parts - left
                <4>1. p \in Nat
                    BY <3>1, <3>3, TrainStepAssumption
                <4>. HIDE DEF p
                <4>2. ~c.overlap
                    BY <3>3
                <4>3. Hook(c, p) \in Paired(U)
                    BY <4>1, <4>2, HookPaired
                <4>. QED
                    BY <3>2, <3>3, <4>3 DEF p
            <3>4. CASE ~(h /\ left < Parts)
                BY <1>3, <3>2, <3>4, PairedParts
            <3>. QED
                BY <3>3, <3>4
        <2>8. piece(k) = a \o b
            BY DEF many, i
        <2>. HIDE DEF a, b, piece, left
        <2>9. a \o b \in Paired(U) /\ a \in Seq(Operations) /\ b \in Seq(Operations)
              /\ a \o b \in Seq(Operations)
            BY <1>3, <2>5, <2>7, PairedParts DEF a
        <2>10. Tally(a, W) <= Tally(a \o b, W)
            BY <2>9, TallyPart
        <2>11. Tally(a \o b, W) \in Nat
            <3>. DEFINE ab == a \o b
            <3>1. ab \in Seq(Operations)
                BY <2>9
            <3>. HIDE DEF ab
            <3>2. Tally(ab, W) \in Nat
                BY <3>1, TallyType
            <3>. QED
                BY <3>2 DEF ab
        <2>12. Size(c, "tp") > 1 => Tally(a, W) = many
            BY <2>4 DEF a
        <2>13. Size(c, "tp") > 1 => Tally(piece(k), W) >= many
            <3>. HIDE DEF W
            <3>. QED
                BY <2>2, <2>8, <2>10, <2>11, <2>12
        <2>. QED
            BY <2>2, <2>8, <2>9, <2>11, <2>13 DEF many, i
    <1>5. f = [k \in 1 .. n |-> piece(k)]
        BY <1>1
    <1>. HIDE DEF piece
    <1>6. f \in [1 .. n -> Paired(U)] /\ \A k \in 1 .. n : f[k] = piece(k)
        BY <1>4, <1>5
    <1>15. c.strategy = "fsdp" /\ Size(c, "dp") > 1 => Tally(gathers, CallsOn("dp")) = 1
        BY GatherPaired
    <1>7. gathers \in Paired(U)
        <2>1. gathers \in Paired(DpOps) /\ (c.strategy # "fsdp" => gathers = << >>)
            BY GatherPaired
        <2>. HIDE DEF gathers
        <2>2. << >> \in Paired(U)
            BY <1>3, PairedParts
        <2>3. CASE U = TpOps \cup DpOps
            <3>1. DpOps \subseteq U
                BY <2>3
            <3>. QED
                BY <2>1, <3>1, PairedIn
        <2>. QED
            BY <2>1, <2>2, <2>3
    <1>. HIDE DEF f, gathers
    <1>8. layers \in Paired(U)
        <2>1. n \in Nat /\ Paired(U) \in Joined(Operations)
            BY <1>1, <1>3, PairedParts
        <2>. QED
            BY <1>6, <2>1, InTurnJoined
    <1>9. gathers \o layers \in Paired(U)
        BY <1>3, <1>7, <1>8, PairedParts
    <1>10. ASSUME Size(c, "tp") > 1, ~IsFirstStage(c.shape, r)
           PROVE  Tally(gathers \o layers, W) > 0
        <2>1. gathers \in Seq(Operations) /\ layers \in Seq(Operations)
            BY <1>3, <1>7, <1>8, PairedParts
        <2>2. n \in 1 .. n /\ n \in Nat /\ n + 1 - n = 1
            BY <1>1
        <2>3. Tally(f[n], W) > 0
            <3>1. model[n + 1 - n] # "embedding" /\ f[n] = piece(n)
                BY <1>1, <1>6, <1>10, <2>2
            <3>2. /\ Tally(piece(n), W) >= Copies[model[n + 1 - n]]
                  /\ Tally(piece(n), W) \in Nat /\ Copies[model[n + 1 - n]] \in Nat
                  /\ Copies[model[n + 1 - n]] > 0
                BY <1>4, <1>10, <2>2, <3>1
            <3>. HIDE DEF W
            <3>. QED
                BY <3>1, <3>2
        <2>4. f \in [1 .. n -> Seq(Operations)]
            BY <1>3, <1>6, PairedParts
        <2>5. Tally(f[n], W) <= Tally(layers, W)
            BY <2>2, <2>4, InTurnHas
        <2>. HIDE DEF layers
        <2>6. Tally(layers, W) <= Tally(gathers \o layers, W)
            BY <2>1, TallyPart
        <2>7. Tally(f[n], W) \in Nat /\ Tally(layers, W) \in Nat
              /\ Tally(gathers \o layers, W) \in Nat
            <3>1. gathers \o layers \in Seq(Operations)
                BY <2>1, ConcatProperties
            <3>. QED
                BY <2>1, <2>2, <2>4, <3>1, TallyType
        <2>. HIDE DEF W
        <2>. QED
            BY <2>3, <2>5, <2>6, <2>7
    <1>11. ASSUME c.strategy = "fsdp", Size(c, "dp") > 1
           PROVE  Tally(gathers \o layers, CallsOn("dp")) > 0
        <2>. DEFINE D == CallsOn("dp")
                    all == gathers \o layers
        <2>1. gathers \in Seq(Operations) /\ layers \in Seq(Operations) /\ all \in Seq(Operations)
            BY <1>3, <1>7, <1>8, <1>9, PairedParts
        <2>. HIDE DEF layers
        <2>2. Tally(gathers, D) <= Tally(all, D)
            BY <2>1, TallyPart
        <2>3. Tally(gathers, D) = 1
            BY <1>11, <1>15
        <2>. HIDE DEF D, all
        <2>4. Tally(all, D) \in Nat
            BY <2>1, TallyType
        <2>5. Tally(all, D) > 0
            BY <2>2, <2>3, <2>4
        <2>. QED
            BY <2>5 DEF all, D
    <1>. QED
        BY <1>2, <1>9, <1>10, <1>11

-----------------------------------------------------------------------------
(* The gradients' synchronisation. *)

\* The launches of the buckets' all-reduces.
Buckets == {Call("dp", <<"bucket", x>>) : x \in Seq(Nat)}

\* A bucket's all-reduce is launched on the data-parallel group and waited for there.
LEMMA BucketOps ==
    /\ Buckets \subseteq DpOps /\ Buckets \subseteq CallsOn("dp") /\ Buckets \cap WaitsOn("dp") = {}
    /\ \A x \in Nat : Call("dp", <<"bucket", <<x>>>>) \in Buckets
    /\ Wait("dp") \in DpOps /\ Wait("dp") \notin CallsOn("dp")
    <1>1. ASSUME NEW x \in Seq(Nat)
          PROVE  /\ Call("dp", <<"bucket", x>>) \in DpOps
                 /\ Call("dp", <<"bucket", x>>) \in CallsOn("dp")
                 /\ Call("dp", <<"bucket", x>>) \notin WaitsOn("dp")
        <2>. DEFINE n == <<"bucket", x>>
        <2>1. n \in DpNames \X Seq(Nat) /\ n \in Names \X Seq(Nat)
            BY DEF DpNames, Names
        <2>. HIDE DEF n
        <2>2. Call("dp", n) \in DpOps /\ Call("dp", n) \in CallsOn("dp")
            BY <2>1 DEF DpOps, Ops, CallsOn
        <2>3. Call("dp", n) \notin WaitsOn("dp")
            BY CallIsNoWait
        <2>. QED
            BY <2>2, <2>3 DEF n
    <1>2. \A x \in Nat : <<x>> \in Seq(Nat)
        OBVIOUS
    <1>3. Wait("dp") \in DpOps
        BY DEF DpOps, Ops
    <1>4. Wait("dp") \notin CallsOn("dp")
        BY CallIsNoWait
    <1>5. \A x \in Nat : Call("dp", <<"bucket", <<x>>>>) \in Buckets
        <2>. TAKE x \in Nat
        <2>. DEFINE y == <<x>>
        <2>1. y \in Seq(Nat)
            OBVIOUS
        <2>. HIDE DEF y
        <2>2. Call("dp", <<"bucket", y>>) \in Buckets
            BY <2>1 DEF Buckets
        <2>. QED
            BY <2>2 DEF y
    <1>. QED
        BY <1>1, <1>3, <1>4, <1>5 DEF Buckets

\* An overlapping DDP launches every bucket while it goes back through a model, which has at
\* least as many modules.
LEMMA BackwardLaunches ==
    ASSUME NEW c \in Configs, NEW r \in Ranks, c.overlap
    PROVE  /\ BackwardOps(c, r, TRUE) \in Seq(TpOps \cup Buckets)
           /\ \A k \in Kinds \ {"dp"} : BackwardOps(c, r, TRUE) \in PairedOn(k)
           /\ Tally(BackwardOps(c, r, TRUE), CallsOn("dp")) = IF Size(c, "dp") > 1 THEN Parts ELSE 0
    <1>. DEFINE model == Model(c, r)
                n == Len(model)
                all(k) == TpCalls(c, Copies[model[n + 1 - k]], "copy")
                launch(left) == IF TRUE /\ left < Parts THEN Hook(c, Parts - left) ELSE << >>
                piece(k) == all(k) \o launch(n - k)
                f == [k \in DOMAIN model |-> piece(k)]
                D == CallsOn("dp")
                U == TpOps \cup Buckets
                some == IF Size(c, "dp") > 1 THEN 1 ELSE 0
    <1>1. /\ model \in [1 .. n -> Modules] /\ n \in Nat \ {0} /\ DOMAIN model = 1 .. n
          /\ Parts <= n
        <2>1. /\ model \in [1 .. n -> Modules] /\ n \in Nat \ {0} /\ Parts <= n
            BY ShapeOf, StageModel
        <2>. HIDE DEF model
        <2>. QED
            BY <2>1
    <1>2. Parts \in Nat \ {0}
        BY TrainStepAssumption
    <1>3. BackwardOps(c, r, TRUE) = Gather(c, "backward") \o InTurn(n, f)
        BY DEF BackwardOps
    <1>4. Gather(c, "backward") = << >>
        BY ShapeOf, GatherPaired
    <1>5. U \in SUBSET Operations /\ TpOps \subseteq U /\ Buckets \subseteq U
          /\ TpOps \in SUBSET Operations /\ Buckets \subseteq Operations
        BY OpSets, BucketOps
    <1>. HIDE DEF model, n
    <1>6. ASSUME NEW k \in 1 .. n
          PROVE  /\ all(k) \in Seq(TpOps) /\ \A j \in Kinds : all(k) \in PairedOn(j)
                 /\ Tally(all(k), D) = 0
        <2>. DEFINE i == n + 1 - k
                    many == Copies[model[i]]
        <2>0. i \in 1 .. n
            BY <1>1
        <2>. HIDE DEF i
        <2>1. model[i] \in Modules
            BY <1>1, <2>0
        <2>2. many \in Nat
            BY <2>1 DEF Copies, Modules
        <2>3. "copy" \in TpNames
            BY DEF TpNames
        <2>. HIDE DEF many
        <2>4. TpCalls(c, many, "copy") \in Paired(TpOps)
            BY <2>2, <2>3, TpCallsPaired
        <2>5. TpOps \cap D = {}
            BY OpsApart DEF TpOps
        <2>6. TpCalls(c, many, "copy") \in Seq(TpOps)
            BY <2>4 DEF Paired
        <2>7. Tally(TpCalls(c, many, "copy"), D) = 0
            <3>. DEFINE t == TpCalls(c, many, "copy")
            <3>1. t \in Seq(TpOps)
                BY <2>6
            <3>. HIDE DEF t, D
            <3>2. Tally(t, D) = 0
                BY <2>5, <3>1, TallyNone
            <3>. QED
                BY <3>2 DEF t
        <2>. QED
            BY <2>4, <2>6, <2>7 DEF Paired, many, i
    <1>7. ASSUME NEW k \in 1 .. n
          PROVE  /\ launch(n - k) \in Seq(Buckets)
                 /\ Tally(launch(n - k), D) = IF n - k < Parts THEN some ELSE 0
        <2>. DEFINE left == n - k
                    call == Call("dp", <<"bucket", <<Parts - left>>>>)
                    one == <<call>>
        <2>1. left \in Nat
            BY <1>1
        <2>. HIDE DEF left
        <2>2. left < Parts => call \in Buckets
            <3>1. left < Parts => Parts - left \in Nat
                BY <1>2, <2>1
            <3>. QED
                BY <3>1, BucketOps
        <2>3. launch(left) = IF left < Parts /\ Size(c, "dp") > 1 THEN one ELSE << >>
            <3>1. c.strategy # "fsdp"
                BY ShapeOf
            <3>. QED
                BY <3>1 DEF Hook, Launch, OnGroup
        <2>. HIDE DEF call, launch
        <2>4. << >> \in Seq(Buckets) /\ Tally(<< >>, D) = 0
            BY TallyEmpty
        <2>5. left < Parts => one \in Seq(Buckets) /\ Tally(one, D) = 1
            <3>1. left < Parts => call \in D
                BY <2>2, BucketOps
            <3>. QED
                BY <2>2, <3>1, TallyOne
        <2>. HIDE DEF one, D
        <2>6. launch(left) \in Seq(Buckets) /\ Tally(launch(left), D) = IF left < Parts THEN some ELSE 0
            BY <2>3, <2>4, <2>5
        <2>. QED
            BY <2>6 DEF left
    <1>. HIDE DEF all, launch
    <1>8. ASSUME NEW k \in 1 .. n
          PROVE  /\ piece(k) \in Seq(U)
                 /\ \A j \in Kinds \ {"dp"} : piece(k) \in PairedOn(j)
                 /\ Tally(piece(k), D) = IF n - k < Parts THEN some ELSE 0
        <2>. DEFINE a == all(k)
                    b == launch(n - k)
        <2>1. /\ a \in Seq(TpOps) /\ b \in Seq(Buckets) /\ Tally(a, D) = 0
              /\ Tally(b, D) = IF n - k < Parts THEN some ELSE 0
              /\ \A j \in Kinds : a \in PairedOn(j)
            BY <1>6, <1>7
        <2>. HIDE DEF a, b
        <2>2. a \in Seq(U) /\ b \in Seq(U) /\ a \in Seq(Operations) /\ b \in Seq(Operations)
            <3>. HIDE DEF U
            <3>. QED
                BY <1>5, <2>1
        <2>3. a \o b \in Seq(U)
            <3>. HIDE DEF U
            <3>. QED
                BY <2>2, ConcatProperties
        <2>4. Tally(a \o b, D) = Tally(a, D) + Tally(b, D)
            BY <2>2, TallyConcat
        <2>5. ASSUME NEW j \in Kinds \ {"dp"}
              PROVE  a \o b \in PairedOn(j)
            <3>1. Buckets \cap CallsOn(j) = {} /\ Buckets \cap WaitsOn(j) = {}
                <4>1. DpOps \cap CallsOn(j) = {} /\ DpOps \cap WaitsOn(j) = {}
                    BY OpsApart DEF DpOps
                <4>. QED
                    BY <4>1, BucketOps
            <3>2. b \in PairedOn(j)
                BY <1>5, <2>1, <3>1, PairedNone
            <3>3. a \in PairedOn(j)
                BY <2>1
            <3>. QED
                BY <3>2, <3>3, PairedJoined DEF Joined
        <2>6. Tally(a \o b, D) = IF n - k < Parts THEN some ELSE 0
            <3>. HIDE DEF D
            <3>. QED
                BY <2>1, <2>4
        <2>. QED
            BY <2>3, <2>5, <2>6 DEF a, b
    <1>9. f = [k \in 1 .. n |-> piece(k)]
        BY <1>1
    <1>. HIDE DEF piece, U
    <1>10. f \in [1 .. n -> Seq(U)] /\ f \in [1 .. n -> Seq(Operations)]
           /\ \A k \in 1 .. n : f[k] = piece(k)
        BY <1>5, <1>8, <1>9
    <1>. HIDE DEF f
    <1>11. InTurn(n, f) \in Seq(U)
        <2>1. n \in Nat
            BY <1>1
        <2>. QED
            BY <1>10, <2>1, InTurnType
    <1>12. ASSUME NEW j \in Kinds \ {"dp"}
           PROVE  InTurn(n, f) \in PairedOn(j)
        <2>1. n \in Nat /\ f \in [1 .. n -> PairedOn(j)]
            BY <1>1, <1>8, <1>10
        <2>2. PairedOn(j) \in Joined(Operations)
            BY PairedJoined
        <2>. QED
            BY <2>1, <2>2, InTurnJoined
    <1>13. Tally(InTurn(n, f), D) = IF Size(c, "dp") > 1 THEN Parts ELSE 0
        <2>. DEFINE start == n - Parts
                    g == [k \in 0 .. n |-> IF k <= start THEN 0 ELSE (k - start) * some]
        <2>1. start \in Nat /\ n \in Nat /\ start < n /\ n - start = Parts /\ some \in {0, 1}
            BY <1>1, <1>2
        <2>2. g \in [0 .. n -> Nat] /\ g[0] = 0
            BY <2>1
        <2>3. ASSUME NEW k \in 1 .. n
              PROVE  g[k] = g[k - 1] + Tally(f[k], D)
            <3>1. Tally(f[k], D) = IF n - k < Parts THEN some ELSE 0
                BY <1>8, <1>10
            <3>2. n - k < Parts <=> k > start
                BY <1>2, <2>1
            <3>3. k \in 0 .. n /\ k - 1 \in 0 .. n
                BY <2>1
            <3>4. /\ g[k] = IF k <= start THEN 0 ELSE (k - start) * some
                  /\ g[k - 1] = IF k - 1 <= start THEN 0 ELSE ((k - 1) - start) * some
                BY <3>3
            <3>. HIDE DEF g, start, some, D
            <3>5. CASE some = 0
                BY <2>1, <3>1, <3>2, <3>4, <3>5
            <3>6. CASE some = 1
                BY <2>1, <3>1, <3>2, <3>4, <3>6
            <3>. QED
                BY <2>1, <3>5, <3>6
        <2>4. g[n] = IF Size(c, "dp") > 1 THEN Parts ELSE 0
            <3>1. g[n] = (n - start) * some
                BY <2>1
            <3>. HIDE DEF g, start
            <3>2. g[n] = Parts * some
                BY <2>1, <3>1
            <3>. QED
                BY <1>2, <3>2
        <2>. HIDE DEF g, D
        <2>5. g \in Sums(Operations, n, f, D)
            BY <2>2, <2>3 DEF Sums
        <2>6. Tally(InTurn(n, f), D) = g[n]
            BY <1>10, <2>1, <2>5, InTurnSum
        <2>. QED
            BY <2>4, <2>6
    <1>14. << >> \o InTurn(n, f) = InTurn(n, f)
        BY <1>11, ConcatEmptySeq
    <1>. QED
        BY <1>3, <1>4, <1>11, <1>12, <1>13, <1>14 DEF U

\* DDP's waits, as many as buckets.
LEMMA WaitsPlain ==
    ASSUME NEW c
    PROVE  /\ Waits(c) \in Seq(WaitsOn("dp"))
           /\ Tally(Waits(c), WaitsOn("dp")) = IF Size(c, "dp") > 1 THEN Parts ELSE 0
    <1>. DEFINE w == [b \in 1 .. Parts |-> Wait("dp")]
    <1>1. w \in [1 .. Parts -> WaitsOn("dp")] /\ Parts \in Nat
        BY TrainStepAssumption DEF WaitsOn
    <1>2. Waits(c) = IF Size(c, "dp") > 1 THEN w ELSE << >>
        BY DEF Waits, OnGroup
    <1>. HIDE DEF w
    <1>3. w \in Seq(WaitsOn("dp")) /\ Len(w) = Parts
        BY <1>1
    <1>4. Tally(w, WaitsOn("dp")) = Parts
        BY <1>3, TallyAll
    <1>5. << >> \in Seq(WaitsOn("dp")) /\ Tally(<< >>, WaitsOn("dp")) = 0
        BY TallyEmpty
    <1>. QED
        BY <1>2, <1>3, <1>4, <1>5

\* FSDP's reduce-scatters.
LEMMA ScattersPaired ==
    ASSUME NEW c
    PROVE  /\ Scatters(c) \in Paired(DpOps)
           /\ Size(c, "dp") > 1 => Tally(Scatters(c), CallsOn("dp")) > 0
    <1>. DEFINE f == [b \in 1 .. Parts |-> Scatter(c, b)]
    <1>1. Parts \in Nat /\ 1 \in 1 .. Parts
        BY TrainStepAssumption
    <1>2. ASSUME NEW b \in 1 .. Parts
          PROVE  /\ f[b] \in Paired(DpOps)
                 /\ Tally(f[b], WaitsOn("dp")) = IF Size(c, "dp") > 1 THEN 1 ELSE 0
        <2>. DEFINE x == <<b>>
        <2>1. x \in Seq(Nat) /\ "scatter" \in DpNames /\ "dp" \in Kinds /\ DpNames \in SUBSET Names
            BY OpSets DEF DpNames, Kinds
        <2>2. f[b] = Blocking(c, "dp", <<"scatter", x>>)
            BY DEF Scatter
        <2>. HIDE DEF x, f
        <2>3. Blocking(c, "dp", <<"scatter", x>>) \in Paired(Ops("dp", DpNames))
            BY <2>1, OneBlocking
        <2>4. Tally(Blocking(c, "dp", <<"scatter", x>>), WaitsOn("dp")) = IF Size(c, "dp") > 1 THEN 1 ELSE 0
            BY <2>1, BlockingPaired
        <2>. QED
            BY <2>2, <2>3, <2>4 DEF DpOps
    <1>3. Scatters(c) = InTurn(Parts, f)
        BY DEF Scatters
    <1>4. f \in [1 .. Parts -> Paired(DpOps)]
        <2>1. f = [b \in 1 .. Parts |-> f[b]]
            OBVIOUS
        <2>. HIDE DEF f
        <2>. QED
            BY <1>2, <2>1
    <1>. HIDE DEF f
    <1>5. Paired(DpOps) \in Joined(Operations) /\ Paired(DpOps) \subseteq Seq(Operations)
        BY OpSets, PairedParts
    <1>6. InTurn(Parts, f) \in Paired(DpOps)
        BY <1>1, <1>4, <1>5, InTurnJoined
    <1>7. ASSUME Size(c, "dp") > 1
          PROVE  Tally(InTurn(Parts, f), CallsOn("dp")) > 0
        <2>1. Tally(f[1], WaitsOn("dp")) = 1
            BY <1>1, <1>2, <1>7
        <2>2. f[1] \in PairedOn("dp")
            BY <1>1, <1>4 DEF Paired, Kinds
        <2>3. Tally(f[1], CallsOn("dp")) = 1
            BY <2>1, <2>2 DEF PairedOn, Equal
        <2>4. f \in [1 .. Parts -> Seq(Operations)]
            BY <1>4, <1>5
        <2>5. Tally(f[1], CallsOn("dp")) <= Tally(InTurn(Parts, f), CallsOn("dp"))
            BY <1>1, <2>4, InTurnHas
        <2>6. Tally(InTurn(Parts, f), CallsOn("dp")) \in Nat
            BY <1>5, <1>6, TallyType
        <2>. QED
            BY <2>3, <2>5, <2>6
    <1>. QED
        BY <1>3, <1>6, <1>7

\* A flush whose launches are all its own.
LEMMA FlushPaired ==
    ASSUME NEW c, ~c.overlap
    PROVE  /\ Flush(c) \in Paired(DpOps)
           /\ Size(c, "dp") > 1 => Tally(Flush(c), CallsOn("dp")) > 0
    <1>. DEFINE calls == [b \in 1 .. Parts |-> Call("dp", <<"bucket", <<b>>>>)]
                s == Launches(c)
                t == Waits(c)
                W == WaitsOn("dp")
                D == CallsOn("dp")
                many == IF Size(c, "dp") > 1 THEN Parts ELSE 0
    <1>1. Flush(c) = s \o t
        BY DEF Flush
    <1>2. Parts \in Nat \ {0}
        BY TrainStepAssumption
    <1>3. calls \in [1 .. Parts -> Buckets]
        BY BucketOps
    <1>4. s = IF Size(c, "dp") > 1 THEN calls ELSE << >>
        BY DEF Launches, OnGroup
    <1>. HIDE DEF calls, s, t
    <1>5. calls \in Seq(Buckets) /\ Len(calls) = Parts
        BY <1>2, <1>3
    <1>6. s \in Seq(Buckets) /\ Len(s) = many
        BY <1>4, <1>5
    <1>7. t \in Seq(W) /\ Tally(t, W) = many
        BY WaitsPlain DEF t
    <1>8. /\ Buckets \subseteq DpOps /\ W \subseteq DpOps /\ DpOps \in SUBSET Operations
          /\ W \cap D = {} /\ Buckets \cap W = {} /\ Buckets \subseteq D
        BY BucketOps, OpSets DEF WaitsOn
    <1>. HIDE DEF W, D, many
    <1>9. Tally(s, D) = many
        <2>1. s \in Seq(D)
            BY <1>6, <1>8
        <2>. QED
            BY <1>6, <2>1, TallyAll
    <1>10. Tally(s, W) = 0
        BY <1>6, <1>8, TallyNone
    <1>11. Tally(t, D) = 0
        BY <1>7, <1>8, TallyNone
    <1>12. s \in Seq(DpOps) /\ t \in Seq(DpOps) /\ s \in Seq(Operations) /\ t \in Seq(Operations)
        BY <1>6, <1>7, <1>8
    <1>13. s \o t \in PairedOn("dp")
        BY <1>7, <1>9, <1>10, <1>11, <1>12, PairedBehind DEF W, D
    <1>14. s \o t \in Seq(DpOps)
        BY <1>12, ConcatProperties
    <1>15. ASSUME NEW k \in Kinds, k # "dp"
           PROVE  s \o t \in PairedOn(k)
        <2>. DEFINE u == s \o t
        <2>1. DpOps \cap CallsOn(k) = {} /\ DpOps \cap WaitsOn(k) = {}
            BY <1>15, OpsApart DEF DpOps
        <2>2. u \in Seq(DpOps)
            BY <1>14
        <2>. HIDE DEF u
        <2>3. u \in PairedOn(k)
            BY <1>8, <2>1, <2>2, PairedNone
        <2>. QED
            BY <2>3 DEF u
    <1>16. s \o t \in Paired(DpOps)
        BY <1>13, <1>14, <1>15 DEF Paired
    <1>17. Tally(s \o t, D) = many
        <2>1. Tally(s \o t, D) = Tally(s, D) + Tally(t, D)
            BY <1>12, TallyConcat
        <2>2. many \in Nat
            BY <1>2 DEF many
        <2>. QED
            BY <1>9, <1>11, <2>1, <2>2
    <1>. QED
        BY <1>1, <1>2, <1>16, <1>17 DEF D, many

\* The synchronisation behind a pipeline's schedule.  A model that is not wrapped
\* has none.
LEMMA SyncPaired ==
    ASSUME NEW c \in Configs, ~c.overlap
    PROVE  /\ GradientSync(c) \in Paired(DpOps)
           /\ Size(c, "dp") > 1 /\ c.strategy # "none" => Tally(GradientSync(c), CallsOn("dp")) > 0
    <1>1. CASE c.strategy = "fsdp"
        BY <1>1, ScattersPaired DEF GradientSync
    <1>2. CASE c.strategy = "ddp"
        BY <1>2, FlushPaired DEF GradientSync
    <1>3. CASE c.strategy = "none"
        <2>1. << >> \in Paired(DpOps)
            BY OpSets, PairedParts
        <2>. QED
            BY <1>3, <2>1 DEF GradientSync
    <1>. QED
        BY <1>1, <1>2, <1>3, ShapeOf

-----------------------------------------------------------------------------
(* The neighbours of a stage. *)

\* The rank of the next stage, and the way back.
LEMMA SuccStage ==
    ASSUME NEW c \in Configs, NEW r \in Ranks, ~IsLastStage(c.shape, r)
    PROVE  /\ Succ(c.shape, r) \in Ranks
           /\ CoordOf(c.shape, Succ(c.shape, r)).pp = CoordOf(c.shape, r).pp + 1
           /\ ~IsFirstStage(c.shape, Succ(c.shape, r))
           /\ Prev(c.shape, Succ(c.shape, r)) = r
           /\ \A j \in Axes \ {"pp"} : CoordOf(c.shape, Succ(c.shape, r))[j] = CoordOf(c.shape, r)[j]
    <1>. DEFINE m == c.shape
                p == CoordOf(m, r).pp
                s == Succ(m, r)
    <1>1. IsShape(m) /\ RanksOf(m) = Ranks
        BY ShapeOf
    <1>2. p # m.pp - 1
        BY DEF IsLastStage
    <1>. HIDE DEF m
    <1>3. p \in 0 .. m.pp - 1 /\ m.pp \in Nat
        BY <1>1, RankOfCoordOf DEF IsShape
    <1>. HIDE DEF p
    <1>4. p + 1 \in 1 .. m.pp /\ p + 2 \in 1 .. m.pp /\ (p + 2) - 1 = p + 1 /\ p + 1 \in Nat /\ p + 1 # 0
        BY <1>2, <1>3
    <1>5. s = Member(m, CoordOf(m, r), "pp", p + 2)
        <2>1. s = GroupOf(m, r, "pp")[p + 2]
            BY DEF Succ, NextStageRank, p
        <2>2. GroupOf(m, r, "pp") = [e \in 1 .. m["pp"] |-> Member(m, CoordOf(m, r), "pp", e)]
            BY <1>1, GroupMembers DEF Axes
        <2>. HIDE DEF s
        <2>. QED
            BY <1>4, <2>1, <2>2
    <1>. HIDE DEF s
    <1>6. /\ s \in RanksOf(m) /\ CoordOf(m, s).pp = p + 1
          /\ \A j \in Axes \ {"pp"} : CoordOf(m, s)[j] = CoordOf(m, r)[j]
        <2>1. "pp" \in Axes /\ p + 2 \in 1 .. m["pp"]
            BY <1>4 DEF Axes
        <2>2. CoordOf(m, s)["pp"] = (p + 2) - 1
            BY <1>1, <1>5, <2>1, MemberCoord
        <2>. QED
            BY <1>1, <1>4, <1>5, <2>1, <2>2, MemberCoord
    <1>7. Prev(m, s) = Member(m, CoordOf(m, s), "pp", p + 1)
        <2>1. Prev(m, s) = GroupOf(m, s, "pp")[p + 1]
            BY <1>6 DEF Prev, PrevStageRank
        <2>2. GroupOf(m, s, "pp") = [e \in 1 .. m["pp"] |-> Member(m, CoordOf(m, s), "pp", e)]
            BY <1>1, <1>6, GroupMembers DEF Axes
        <2>. QED
            BY <1>4, <2>1, <2>2
    <1>8. Member(m, CoordOf(m, s), "pp", p + 1) = Member(m, CoordOf(m, r), "pp", p + 1)
        BY <1>6, MemberAlong DEF Axes
    <1>9. Member(m, CoordOf(m, r), "pp", p + 1) = r
        BY <1>1, OwnMember DEF Axes, p
    <1>10. ~IsFirstStage(m, s)
        BY <1>4, <1>6 DEF IsFirstStage
    <1>. QED
        BY <1>1, <1>6, <1>7, <1>8, <1>9, <1>10 DEF s, m, p

\* The rank of the stage before, and the way back.
LEMMA PrevStage ==
    ASSUME NEW c \in Configs, NEW r \in Ranks, ~IsFirstStage(c.shape, r)
    PROVE  /\ Prev(c.shape, r) \in Ranks
           /\ CoordOf(c.shape, Prev(c.shape, r)).pp = CoordOf(c.shape, r).pp - 1
           /\ ~IsLastStage(c.shape, Prev(c.shape, r))
           /\ Succ(c.shape, Prev(c.shape, r)) = r
           /\ \A j \in Axes \ {"pp"} : CoordOf(c.shape, Prev(c.shape, r))[j] = CoordOf(c.shape, r)[j]
    <1>. DEFINE m == c.shape
                p == CoordOf(m, r).pp
                s == Prev(m, r)
    <1>1. IsShape(m) /\ RanksOf(m) = Ranks
        BY ShapeOf
    <1>2. p # 0
        BY DEF IsFirstStage
    <1>. HIDE DEF m
    <1>3. p \in 0 .. m.pp - 1 /\ m.pp \in Nat
        BY <1>1, RankOfCoordOf DEF IsShape
    <1>. HIDE DEF p
    <1>4. /\ p \in 1 .. m.pp /\ p + 1 \in 1 .. m.pp /\ p - 1 \in Nat /\ p - 1 # m.pp - 1
          /\ (p - 1) + 2 = p + 1
        BY <1>2, <1>3
    <1>5. s = Member(m, CoordOf(m, r), "pp", p)
        <2>1. s = GroupOf(m, r, "pp")[p]
            BY DEF Prev, PrevStageRank, p
        <2>2. GroupOf(m, r, "pp") = [e \in 1 .. m["pp"] |-> Member(m, CoordOf(m, r), "pp", e)]
            BY <1>1, GroupMembers DEF Axes
        <2>. HIDE DEF s
        <2>. QED
            BY <1>4, <2>1, <2>2
    <1>. HIDE DEF s
    <1>6. /\ s \in RanksOf(m) /\ CoordOf(m, s).pp = p - 1
          /\ \A j \in Axes \ {"pp"} : CoordOf(m, s)[j] = CoordOf(m, r)[j]
        <2>1. "pp" \in Axes /\ p \in 1 .. m["pp"]
            BY <1>4 DEF Axes
        <2>2. CoordOf(m, s)["pp"] = p - 1
            BY <1>1, <1>5, <2>1, MemberCoord
        <2>. QED
            BY <1>1, <1>4, <1>5, <2>1, <2>2, MemberCoord
    <1>7. Succ(m, s) = Member(m, CoordOf(m, s), "pp", p + 1)
        <2>1. Succ(m, s) = GroupOf(m, s, "pp")[p + 1]
            <3>1. Succ(m, s) = GroupOf(m, s, "pp")[CoordOf(m, s).pp + 2]
                BY DEF Succ, NextStageRank
            <3>. QED
                BY <1>4, <1>6, <3>1
        <2>2. GroupOf(m, s, "pp") = [e \in 1 .. m["pp"] |-> Member(m, CoordOf(m, s), "pp", e)]
            BY <1>1, <1>6, GroupMembers DEF Axes
        <2>. QED
            BY <1>4, <2>1, <2>2
    <1>8. Member(m, CoordOf(m, s), "pp", p + 1) = Member(m, CoordOf(m, r), "pp", p + 1)
        BY <1>6, MemberAlong DEF Axes
    <1>9. Member(m, CoordOf(m, r), "pp", p + 1) = r
        BY <1>1, OwnMember DEF Axes, p
    <1>10. ~IsLastStage(m, s)
        BY <1>4, <1>6 DEF IsLastStage
    <1>. QED
        BY <1>1, <1>6, <1>7, <1>8, <1>9, <1>10 DEF s, m, p

\* The two neighbours of a stage are two ranks.
LEMMA TwoNeighbours ==
    ASSUME NEW c \in Configs, NEW r \in Ranks
    PROVE  ~IsFirstStage(c.shape, r) /\ ~IsLastStage(c.shape, r)
                => Prev(c.shape, r) # Succ(c.shape, r)
    <1>. SUFFICES ASSUME ~IsFirstStage(c.shape, r), ~IsLastStage(c.shape, r)
                  PROVE  Prev(c.shape, r) # Succ(c.shape, r)
        OBVIOUS
    <1>. DEFINE p == CoordOf(c.shape, r).pp
                a == CoordOf(c.shape, Prev(c.shape, r)).pp
                b == CoordOf(c.shape, Succ(c.shape, r)).pp
    <1>1. a = p - 1 /\ b = p + 1 /\ p \in 0 .. c.shape.pp - 1
        BY PrevStage, SuccStage, ShapeOf
    <1>2. a # b
        <2>. HIDE DEF a, b, p
        <2>. QED
            BY <1>1
    <1>. QED
        BY <1>2

-----------------------------------------------------------------------------
(* One microbatch. *)

\* The operations of a pass over a stage.
StageOps == TpOps \cup DpOps \cup Moves

\* Operations after a message is received and before one is sent.
Framed(ops, receives, sends, q, o) ==
    (IF receives THEN <<Recv(q)>> ELSE << >>) \o ops \o (IF sends THEN <<Send(o)>> ELSE << >>)

\* A pass s of one microbatch over a stage whose module runs ops: it receives from
\* q and sends to o, if at all, each once, and sends only after it has received and
\* after a collective of the module.
Microbatch(s, ops, receives, sends, q, o) ==
    /\ s \in Paired(StageOps)
    /\ \A p : Tally(s, {Recv(p)}) = IF receives /\ p = q THEN 1 ELSE 0
    /\ \A p : Tally(s, {Send(p)}) = IF sends /\ p = o THEN 1 ELSE 0
    /\ receives => \A p : s \in Leading(Operations, {Send(p)}, {Recv(q)})
    /\ Tally(ops, WaitsOn("tp")) > 0
         => \A p : s \in Leading(Operations, {Send(p)}, WaitsOn("tp"))
    /\ \A k : Only(s, CallsOn(k)) = Only(ops, CallsOn(k))
    /\ Tally(s, WaitsOn("tp")) >= Tally(ops, WaitsOn("tp"))

\* Perhaps a message received, a pass through the stage, perhaps one sent.
LEMMA OneMicrobatch ==
    ASSUME NEW ops \in Paired(TpOps \cup DpOps), NEW receives \in BOOLEAN, NEW sends \in BOOLEAN,
           NEW q, receives => q \in Ranks, NEW o, sends => o \in Ranks,
           NEW s, s = Framed(ops, receives, sends, q, o)
    PROVE  Microbatch(s, ops, receives, sends, q, o)
    <1>. DEFINE x == IF receives THEN <<Recv(q)>> ELSE << >>
                y == IF sends THEN <<Send(o)>> ELSE << >>
                u == x \o ops
    <1>1. s = u \o y
        BY DEF Framed
    <1>2. StageOps \in SUBSET Operations /\ TpOps \cup DpOps \subseteq StageOps /\ Moves \subseteq StageOps
        BY OpSets DEF StageOps
    <1>3. x \in Seq(Moves) /\ y \in Seq(Moves)
        <2>1. receives => Recv(q) \in Moves
            BY DEF Moves
        <2>2. sends => Send(o) \in Moves
            BY DEF Moves
        <2>. QED
            BY <2>1, <2>2
    <1>4. \A p : /\ Tally(x, {Recv(p)}) = IF receives /\ p = q THEN 1 ELSE 0
                 /\ Tally(y, {Send(p)}) = IF sends /\ p = o THEN 1 ELSE 0
                 /\ Tally(x, {Send(p)}) = 0 /\ Tally(y, {Recv(p)}) = 0
        <2>. TAKE p
        <2>1. /\ Recv(q) \in {Recv(p)} <=> p = q
              /\ Send(o) \in {Send(p)} <=> p = o
              /\ Recv(q) \notin {Send(p)} /\ Send(o) \notin {Recv(p)}
            BY DEF Recv, Send
        <2>2. /\ Tally(<<Recv(q)>>, {Recv(p)}) = IF p = q THEN 1 ELSE 0
              /\ Tally(<<Send(o)>>, {Send(p)}) = IF p = o THEN 1 ELSE 0
              /\ Tally(<<Recv(q)>>, {Send(p)}) = 0 /\ Tally(<<Send(o)>>, {Recv(p)}) = 0
            BY <2>1, TallyOne
        <2>3. \A R : Tally(<< >>, R) = 0
            BY TallyEmpty
        <2>. QED
            BY <2>2, <2>3
    <1>. HIDE DEF x, y
    <1>5. x \in Paired(StageOps) /\ y \in Paired(StageOps) /\ ops \in Paired(StageOps)
        <2>1. \A k : Moves \cap CallsOn(k) = {} /\ Moves \cap WaitsOn(k) = {}
            BY MovesApart
        <2>2. Moves \in SUBSET Operations
            BY OpTypes
        <2>3. \A k \in Kinds : x \in PairedOn(k) /\ y \in PairedOn(k)
            BY <1>3, <2>1, <2>2, PairedNone
        <2>4. x \in Seq(StageOps) /\ y \in Seq(StageOps)
            BY <1>2, <1>3
        <2>5. ops \in Paired(StageOps)
            BY <1>2, PairedIn
        <2>. QED
            BY <2>3, <2>4, <2>5 DEF Paired
    <1>6. u \in Paired(StageOps) /\ u \o y \in Paired(StageOps)
        <2>1. u \in Paired(StageOps)
            BY <1>2, <1>5, PairedParts
        <2>. HIDE DEF u
        <2>. QED
            BY <1>2, <1>5, <2>1, PairedParts
    <1>7. /\ x \in Seq(Operations) /\ y \in Seq(Operations) /\ ops \in Seq(Operations)
          /\ u \in Seq(Operations) /\ ops \in Seq(TpOps \cup DpOps)
        BY <1>2, <1>5, <1>6, PairedParts DEF Paired
    <1>8. \A p : Tally(ops, {Recv(p)}) = 0 /\ Tally(ops, {Send(p)}) = 0
        <2>. TAKE p
        <2>1. (TpOps \cup DpOps) \cap {Recv(p)} = {} /\ (TpOps \cup DpOps) \cap {Send(p)} = {}
            BY OpsApart DEF TpOps, DpOps
        <2>. QED
            BY <1>7, <2>1, TallyNone
    <1>9. \A R : Tally(u, R) = Tally(x, R) + Tally(ops, R)
        BY <1>7, TallyConcat
    <1>10. \A R : Only(u, R) = Only(x, R) \o Only(ops, R)
        BY <1>7, OnlyConcat
    <1>. HIDE DEF u
    <1>11. \A R : Tally(u \o y, R) = Tally(u, R) + Tally(y, R)
        BY <1>7, TallyConcat
    <1>12. \A R : Only(u \o y, R) = Only(u, R) \o Only(y, R)
        BY <1>7, OnlyConcat
    <1>13. \A p : /\ Tally(u, {Recv(p)}) = IF receives /\ p = q THEN 1 ELSE 0
                  /\ Tally(u, {Send(p)}) = 0
        <2>. TAKE p
        <2>1. /\ Tally(u, {Recv(p)}) = Tally(x, {Recv(p)}) + Tally(ops, {Recv(p)})
              /\ Tally(u, {Send(p)}) = Tally(x, {Send(p)}) + Tally(ops, {Send(p)})
            BY <1>9
        <2>2. /\ Tally(x, {Recv(p)}) = (IF receives /\ p = q THEN 1 ELSE 0)
              /\ Tally(x, {Send(p)}) = 0 /\ Tally(ops, {Recv(p)}) = 0 /\ Tally(ops, {Send(p)}) = 0
            BY <1>4, <1>8
        <2>. QED
            BY <2>1, <2>2
    <1>14. \A p : Tally(u \o y, {Recv(p)}) = IF receives /\ p = q THEN 1 ELSE 0
        BY <1>4, <1>11, <1>13
    <1>15. \A p : Tally(u \o y, {Send(p)}) = IF sends /\ p = o THEN 1 ELSE 0
        <2>. TAKE p
        <2>1. Tally(u \o y, {Send(p)}) = Tally(u, {Send(p)}) + Tally(y, {Send(p)})
            BY <1>11
        <2>2. /\ Tally(y, {Send(p)}) = (IF sends /\ p = o THEN 1 ELSE 0) /\ Tally(u, {Send(p)}) = 0
            BY <1>4, <1>13
        <2>. QED
            BY <2>1, <2>2
    <1>16. ASSUME receives, NEW p
           PROVE  u \o y \in Leading(Operations, {Send(p)}, {Recv(q)})
        <2>1. Tally(u, {Send(p)}) = 0 /\ Tally(y, {Send(p)}) <= Tally(u, {Recv(q)})
            BY <1>4, <1>13, <1>16
        <2>. QED
            BY <1>7, <2>1, LeadingBehind
    <1>17. ASSUME Tally(ops, WaitsOn("tp")) > 0, NEW p
           PROVE  u \o y \in Leading(Operations, {Send(p)}, WaitsOn("tp"))
        <2>1. Tally(u, WaitsOn("tp")) = Tally(x, WaitsOn("tp")) + Tally(ops, WaitsOn("tp"))
            BY <1>9
        <2>2. Tally(x, WaitsOn("tp")) \in Nat /\ Tally(ops, WaitsOn("tp")) \in Nat
            BY <1>7, TallyType
        <2>3. Tally(y, {Send(p)}) <= 1 /\ Tally(y, {Send(p)}) \in Nat
            BY <1>4
        <2>4. Tally(u, {Send(p)}) = 0 /\ Tally(y, {Send(p)}) <= Tally(u, WaitsOn("tp"))
            BY <1>13, <1>17, <2>1, <2>2, <2>3
        <2>. QED
            BY <1>7, <2>4, LeadingBehind
    <1>18. ASSUME NEW k
           PROVE  Only(u \o y, CallsOn(k)) = Only(ops, CallsOn(k))
        <2>1. Moves \cap CallsOn(k) = {}
            BY MovesApart
        <2>2. Only(x, CallsOn(k)) = << >> /\ Only(y, CallsOn(k)) = << >>
            BY <1>3, <2>1, OnlyNone
        <2>. DEFINE w == Only(ops, CallsOn(k))
        <2>3. w \in Seq(Operations \cap CallsOn(k))
            BY <1>7, OnlyType
        <2>4. Only(u, CallsOn(k)) = << >> \o w
            BY <1>10, <2>2
        <2>5. Only(u \o y, CallsOn(k)) = (<< >> \o w) \o << >>
            BY <1>12, <2>2, <2>4
        <2>. HIDE DEF w
        <2>6. << >> \o w = w /\ w \o << >> = w
            BY <2>3, ConcatEmptySeq
        <2>. QED
            BY <2>5, <2>6 DEF w
    <1>19. Tally(u \o y, WaitsOn("tp")) >= Tally(ops, WaitsOn("tp"))
        <2>1. /\ Tally(u, WaitsOn("tp")) = Tally(x, WaitsOn("tp")) + Tally(ops, WaitsOn("tp"))
              /\ Tally(u \o y, WaitsOn("tp")) = Tally(u, WaitsOn("tp")) + Tally(y, WaitsOn("tp"))
            BY <1>9, <1>11
        <2>2. Tally(x, WaitsOn("tp")) \in Nat /\ Tally(ops, WaitsOn("tp")) \in Nat
              /\ Tally(y, WaitsOn("tp")) \in Nat
            BY <1>7, TallyType
        <2>. QED
            BY <2>1, <2>2
    <1>. QED
        BY <1>1, <1>6, <1>14, <1>15, <1>16, <1>17, <1>18, <1>19 DEF Microbatch

-----------------------------------------------------------------------------
(* The schedule. *)

\* Pieces of which each has no more of R than those before it have of Q.
LEMMA InTurnLeading ==
    ASSUME NEW S, NEW R, NEW Q, NEW n \in Nat \ {0}, NEW f \in [1 .. n -> Seq(S)],
           NEW g \in Sums(S, n, f, R), NEW h \in Sums(S, n, f, Q),
           \A i \in 1 .. n : g[i] <= h[i - 1]
    PROVE  InTurn(n, f) \in Leading(S, R, Q)
    <1>1. n \in Nat /\ g \in [0 .. n -> Nat] /\ h \in [0 .. n -> Nat]
          /\ \A i \in 1 .. n : g[i] = g[i - 1] + Tally(f[i], R)
        BY DEF Sums
    <1>2. InTurn(n, f) = FlattenSeq(f) /\ InTurn(n, f) \in Seq(S)
        <2>1. InTurn(n, f) = FlattenSeq(f)
            BY <1>1, InTurnIsFlatten
        <2>2. InTurn(n, f) \in Seq(S)
            BY <1>1, InTurnType
        <2>. QED
            BY <2>1, <2>2
    <1>3. \A k \in 0 .. n : Tally(FlattenSeq(FirstOf(f, k)), R) = g[k]
        <2>1. n \in Nat
            OBVIOUS
        <2>. QED
            BY <2>1, FlattenSums
    <1>4. \A k \in 0 .. n : Tally(FlattenSeq(FirstOf(f, k)), Q) = h[k]
        <2>1. n \in Nat
            OBVIOUS
        <2>. QED
            BY <2>1, FlattenSums
    <1>5. ASSUME NEW i \in 1 .. n, NEW u \in Seq(S), NEW v \in Seq(S), f[i] = u \o v
          PROVE  Tally(FlattenSeq(FirstOf(f, i - 1)) \o u, R)
                    <= Tally(FlattenSeq(FirstOf(f, i - 1)) \o u, Q)
        <2>. DEFINE j == i - 1
                    w == FlattenSeq(FirstOf(f, j))
                    part == Tally(u, R)
                    piece == Tally(u \o v, R)
                    before == Tally(u, Q)
        <2>1. j \in 0 .. n /\ j \in Nat
            OBVIOUS
        <2>2. g[i] = g[j] + Tally(f[i], R) /\ g[i] <= h[j] /\ g[j] \in Nat /\ h[j] \in Nat /\ g[i] \in Nat
            <3>1. g[i] = g[i - 1] + Tally(f[i], R) /\ g[i] <= h[i - 1]
                BY <1>1
            <3>2. g[j] \in Nat /\ h[j] \in Nat /\ g[i] \in Nat
                BY <1>1, <2>1
            <3>. QED
                BY <3>1, <3>2
        <2>. HIDE DEF j
        <2>3. w \in Seq(S)
            <3>1. FirstOf(f, j) \in [1 .. j -> Seq(S)]
                BY <2>1 DEF FirstOf
            <3>. QED
                BY <2>1, <3>1, FlattenType
        <2>4. Tally(w, R) = g[j] /\ Tally(w, Q) = h[j]
            BY <1>3, <1>4, <2>1
        <2>. HIDE DEF w
        <2>5. Tally(w \o u, R) = Tally(w, R) + Tally(u, R)
            BY <2>3, TallyConcat
        <2>6. Tally(w \o u, Q) = Tally(w, Q) + Tally(u, Q)
            BY <2>3, TallyConcat
        <2>7. part \in Nat /\ piece \in Nat /\ before \in Nat /\ part <= piece
            <3>1. u \o v \in Seq(S)
                OBVIOUS
            <3>2. part \in Nat
                BY TallyType
            <3>3. piece \in Nat
                <4>. DEFINE both == u \o v
                <4>. HIDE DEF both
                <4>1. Tally(both, R) \in Nat
                    BY <3>1, TallyType DEF both
                <4>. QED
                    BY <4>1 DEF both
            <3>4. before \in Nat
                BY TallyType
            <3>5. part <= piece
                BY TallyPart
            <3>. QED
                BY <3>2, <3>3, <3>4, <3>5
        <2>8. Tally(f[i], R) = piece
            BY <1>5
        <2>9. Tally(w \o u, R) = g[j] + part /\ Tally(w \o u, Q) = h[j] + before
            BY <2>4, <2>5, <2>6
        <2>. HIDE DEF part, piece, before
        <2>10. g[j] + part <= h[j] + before
            <3>1. g[i] = g[j] + piece
                BY <2>2, <2>8
            <3>2. g[i] <= h[j] /\ g[j] \in Nat /\ h[j] \in Nat /\ g[i] \in Nat
                BY <2>2
            <3>. DEFINE x == g[i]
                        y == g[j]
                        z == h[j]
            <3>3. x = y + piece /\ x <= z /\ x \in Nat /\ y \in Nat /\ z \in Nat
                BY <3>1, <3>2
            <3>. HIDE DEF x, y, z
            <3>4. y + part <= z + before
                BY <2>7, <3>3
            <3>. QED
                BY <3>4 DEF y, z
        <2>11. Tally(w \o u, R) <= Tally(w \o u, Q)
            BY <2>9, <2>10
        <2>. QED
            BY <2>11 DEF w, j
    <1>6. ASSUME NEW a \in Seq(S), NEW b \in Seq(S), a \o b = InTurn(n, f)
          PROVE  Tally(a, R) <= Tally(a, Q)
        <2>1. a \o b = FlattenSeq(f)
            BY <1>2, <1>6
        <2>2. \E i \in 1 .. n : \E u, v \in Seq(S) :
                 f[i] = u \o v /\ a = FlattenSeq(FirstOf(f, i - 1)) \o u
            <3>1. CutIn(S, n, f, a)
                BY <2>1, SplitFlatten
            <3>. QED
                BY <3>1 DEF CutIn
        <2>3. PICK i \in 1 .. n : \E u, v \in Seq(S) :
                 f[i] = u \o v /\ a = FlattenSeq(FirstOf(f, i - 1)) \o u
            BY <2>2
        <2>4. PICK u \in Seq(S), v \in Seq(S) :
                 f[i] = u \o v /\ a = FlattenSeq(FirstOf(f, i - 1)) \o u
            BY <2>3
        <2>. QED
            BY <1>5, <2>4
    <1>. QED
        BY <1>2, <1>6 DEF Leading

\* Forwards among the first k operations of a schedule.
Forwards(w, k) ==
    IF k <= w THEN k ELSE IF k < 2 * M - w THEN w + (k - w + 1) \div 2 ELSE M

\* The two halves of a number.
LEMMA Halves ==
    ASSUME NEW x \in Nat
    PROVE  /\ x \div 2 \in Nat /\ (x + 1) \div 2 \in Nat /\ x % 2 \in {0, 1}
           /\ x <= 2 * ((x + 1) \div 2) /\ 2 * ((x + 1) \div 2) <= x + 1
           /\ x % 2 = 1 => (x + 1) \div 2 = x \div 2 + 1
           /\ x % 2 = 0 => (x + 1) \div 2 = x \div 2
    BY SMT

\* The forwards of a schedule: never fewer than half of the passes so far, M in all.
LEMMA ForwardCount ==
    ASSUME NEW c \in Configs, NEW r \in Ranks
    PROVE  LET w == Warmup(c, r)
           IN  /\ w \in 0 .. M /\ M \in Nat \ {0}
               /\ \A k \in 0 .. 2 * M : Forwards(w, k) \in Nat /\ Forwards(w, k) <= k /\ k <= 2 * Forwards(w, k)
               /\ Forwards(w, 0) = 0 /\ Forwards(w, 2 * M) = M
               /\ \A k \in 1 .. 2 * M :
                     Forwards(w, k) = Forwards(w, k - 1) + (IF IsForward(c, r, k) THEN 1 ELSE 0)
               /\ IsForward(c, r, 1)
    <1>. DEFINE w == Warmup(c, r)
    <1>1. M \in Nat \ {0}
        BY TrainStepAssumption
    <1>2. w \in 0 .. M
        <2>. DEFINE v == c.shape.pp - 1 - CoordOf(c.shape, r).pp
        <2>1. v \in Nat
            BY ShapeOf
        <2>2. w = IF c.sched = "1f1b" /\ v < M THEN v ELSE M
            BY DEF Warmup
        <2>. HIDE DEF v, w
        <2>. QED
            BY <1>1, <2>1, <2>2
    <1>3. \A k : IsForward(c, r, k) <=> k <= w \/ (k < 2 * M - w /\ (k - w) % 2 = 1)
        BY DEF IsForward
    <1>. HIDE DEF w
    <1>4. ASSUME NEW k \in 0 .. 2 * M
          PROVE  Forwards(w, k) \in Nat /\ Forwards(w, k) <= k /\ k <= 2 * Forwards(w, k)
        <2>1. CASE k <= w
            BY <1>1, <1>2, <2>1 DEF Forwards
        <2>2. CASE ~(k <= w) /\ k < 2 * M - w
            <3>. DEFINE x == k - w
                        y == (x + 1) \div 2
            <3>1. x \in Nat /\ x > 0
                BY <1>2, <2>2
            <3>. HIDE DEF x
            <3>2. y \in Nat /\ x <= 2 * y /\ 2 * y <= x + 1
                BY <3>1, Halves
            <3>. HIDE DEF y
            <3>3. y <= x
                BY <3>1, <3>2
            <3>4. Forwards(w, k) = w + y
                BY <2>2 DEF Forwards, x, y
            <3>. QED
                BY <1>2, <3>1, <3>2, <3>3, <3>4 DEF x
        <2>3. CASE ~(k <= w) /\ ~(k < 2 * M - w)
            BY <1>1, <1>2, <2>3 DEF Forwards
        <2>. QED
            BY <2>1, <2>2, <2>3
    <1>5. Forwards(w, 0) = 0
        BY <1>2 DEF Forwards
    <1>6. Forwards(w, 2 * M) = M
        BY <1>1, <1>2 DEF Forwards
    <1>7. ASSUME NEW k \in 1 .. 2 * M
          PROVE  Forwards(w, k) = Forwards(w, k - 1) + (IF IsForward(c, r, k) THEN 1 ELSE 0)
        <2>1. CASE k <= w
            BY <1>1, <1>2, <1>3, <2>1 DEF Forwards
        <2>2. CASE ~(k <= w) /\ k < 2 * M - w
            <3>. DEFINE x == k - w
            <3>1. x \in Nat /\ x > 0 /\ (k - 1) - w + 1 = x
                BY <1>2, <2>2
            <3>2. IsForward(c, r, k) <=> x % 2 = 1
                BY <1>3, <2>2
            <3>. HIDE DEF x
            <3>3. /\ x \div 2 \in Nat /\ (x + 1) \div 2 \in Nat /\ x % 2 \in {0, 1}
                  /\ x % 2 = 1 => (x + 1) \div 2 = x \div 2 + 1
                  /\ x % 2 = 0 => (x + 1) \div 2 = x \div 2
                BY <3>1, Halves
            <3>4. Forwards(w, k) = w + (x + 1) \div 2
                BY <2>2 DEF Forwards, x
            <3>5. Forwards(w, k - 1) = w + x \div 2
                <4>1. CASE k - 1 = w
                    <5>1. x = 1 /\ x \div 2 = 0
                        <6>1. x = 1
                            BY <1>2, <4>1 DEF x
                        <6>. QED
                            BY <6>1
                    <5>2. Forwards(w, k - 1) = k - 1
                        BY <1>2, <4>1 DEF Forwards
                    <5>. QED
                        BY <1>2, <4>1, <5>1, <5>2
                <4>2. CASE k - 1 # w
                    <5>1. ~(k - 1 <= w) /\ k - 1 < 2 * M - w
                        BY <1>1, <1>2, <2>2, <4>2
                    <5>2. Forwards(w, k - 1) = w + ((k - 1) - w + 1) \div 2
                        BY <5>1 DEF Forwards
                    <5>. QED
                        BY <3>1, <5>2
                <4>. QED
                    BY <4>1, <4>2
            <3>. QED
                BY <1>2, <3>2, <3>3, <3>4, <3>5
        <2>3. CASE ~(k <= w) /\ ~(k < 2 * M - w)
            <3>1. ~IsForward(c, r, k) /\ Forwards(w, k) = M
                BY <1>3, <2>3 DEF Forwards
            <3>2. Forwards(w, k - 1) = M
                <4>1. CASE k - 1 <= w
                    <5>1. k - 1 = M
                        BY <1>1, <1>2, <2>3, <4>1
                    <5>. QED
                        BY <4>1, <5>1 DEF Forwards
                <4>2. CASE ~(k - 1 <= w) /\ k - 1 < 2 * M - w
                    <5>1. (k - 1) - w + 1 = 2 * (M - w)
                        BY <1>1, <1>2, <2>3, <4>2
                    <5>2. Forwards(w, k - 1) = w + (2 * (M - w)) \div 2
                        BY <4>2, <5>1 DEF Forwards
                    <5>3. (2 * (M - w)) \div 2 = M - w
                        BY <1>1, <1>2
                    <5>. QED
                        BY <1>1, <1>2, <5>2, <5>3
                <4>3. CASE ~(k - 1 <= w) /\ ~(k - 1 < 2 * M - w)
                    BY <4>3 DEF Forwards
                <4>. QED
                    BY <4>1, <4>2, <4>3
            <3>. QED
                BY <1>1, <3>1, <3>2
        <2>. QED
            BY <2>1, <2>2, <2>3
    <1>8. IsForward(c, r, 1)
        <2>1. CASE 1 <= w
            BY <1>3, <2>1
        <2>2. CASE ~(1 <= w)
            <3>1. w = 0 /\ 1 < 2 * M - w /\ (1 - w) % 2 = 1
                BY <1>1, <1>2, <2>2
            <3>. QED
                BY <1>3, <3>1
        <2>. QED
            BY <2>1, <2>2
    <1>. QED
        BY <1>1, <1>2, <1>4, <1>5, <1>6, <1>7, <1>8 DEF w

\* A schedule of forwards a and backwards b.
Turn(c, r, a, b) == [k \in 1 .. 2 * M |-> IF IsForward(c, r, k) THEN a ELSE b]

\* What the passes of a schedule have counted, by the forwards and backwards so far.
LEMMA TurnSums ==
    ASSUME NEW c \in Configs, NEW r \in Ranks, NEW a \in Seq(Operations), NEW b \in Seq(Operations),
           NEW R, NEW x \in {0, 1}, NEW y \in {0, 1}, Tally(a, R) = x, Tally(b, R) = y
    PROVE  [k \in 0 .. 2 * M |-> (IF x = 1 THEN Forwards(Warmup(c, r), k) ELSE 0)
                                     + (IF y = 1 THEN k - Forwards(Warmup(c, r), k) ELSE 0)]
                  \in Sums(Operations, 2 * M, Turn(c, r, a, b), R)
    <1>. DEFINE F(k) == Forwards(Warmup(c, r), k)
                g == [k \in 0 .. 2 * M |-> (IF x = 1 THEN F(k) ELSE 0) + (IF y = 1 THEN k - F(k) ELSE 0)]
                f == Turn(c, r, a, b)
    <1>1. /\ M \in Nat \ {0} /\ F(0) = 0
          /\ \A k \in 0 .. 2 * M : F(k) \in Nat /\ F(k) <= k
          /\ \A k \in 1 .. 2 * M : F(k) = F(k - 1) + (IF IsForward(c, r, k) THEN 1 ELSE 0)
        BY ForwardCount
    <1>2. \A k \in 1 .. 2 * M : Tally(f[k], R) = IF IsForward(c, r, k) THEN x ELSE y
        BY DEF Turn
    <1>. HIDE DEF F, f
    <1>3. g \in [0 .. 2 * M -> Nat]
        <2>1. \A k \in 0 .. 2 * M :
                 (IF x = 1 THEN F(k) ELSE 0) + (IF y = 1 THEN k - F(k) ELSE 0) \in Nat
            BY <1>1
        <2>. QED
            BY <2>1
    <1>4. g[0] = 0
        BY <1>1
    <1>5. ASSUME NEW k \in 1 .. 2 * M
          PROVE  g[k] = g[k - 1] + Tally(f[k], R)
        <2>1. k \in 0 .. 2 * M /\ k - 1 \in 0 .. 2 * M
            BY <1>1
        <2>2. /\ g[k] = (IF x = 1 THEN F(k) ELSE 0) + (IF y = 1 THEN k - F(k) ELSE 0)
              /\ g[k - 1] = (IF x = 1 THEN F(k - 1) ELSE 0) + (IF y = 1 THEN (k - 1) - F(k - 1) ELSE 0)
            BY <2>1
        <2>3. /\ F(k) \in Nat /\ F(k - 1) \in Nat
              /\ F(k) = F(k - 1) + (IF IsForward(c, r, k) THEN 1 ELSE 0)
              /\ Tally(f[k], R) = IF IsForward(c, r, k) THEN x ELSE y
            BY <1>1, <1>2, <2>1
        <2>. HIDE DEF g
        <2>4. CASE IsForward(c, r, k)
            BY <2>2, <2>3, <2>4
        <2>5. CASE ~IsForward(c, r, k)
            BY <2>2, <2>3, <2>5
        <2>. QED
            BY <2>4, <2>5
    <1>6. g \in Sums(Operations, 2 * M, f, R)
        <2>. HIDE DEF g
        <2>. QED
            BY <1>3, <1>4, <1>5 DEF Sums
    <1>. QED
        BY <1>6 DEF F, f

\* As many forwards as backwards, a forward before every backward, and what
\* holds in each.
LEMMA TurnTally ==
    ASSUME NEW c \in Configs, NEW r \in Ranks, NEW a \in Seq(Operations), NEW b \in Seq(Operations),
           NEW R, NEW x \in {0, 1}, NEW y \in {0, 1}, Tally(a, R) = x, Tally(b, R) = y
    PROVE  Tally(InTurn(2 * M, Turn(c, r, a, b)), R) = (IF x = 1 THEN M ELSE 0) + (IF y = 1 THEN M ELSE 0)
    <1>. DEFINE F(k) == Forwards(Warmup(c, r), k)
                g == [k \in 0 .. 2 * M |-> (IF x = 1 THEN F(k) ELSE 0) + (IF y = 1 THEN k - F(k) ELSE 0)]
                f == Turn(c, r, a, b)
                n == 2 * M
    <1>1. M \in Nat \ {0} /\ F(n) = M /\ n \in Nat /\ n \in 0 .. 2 * M /\ n - M = M
        BY ForwardCount
    <1>2. g \in Sums(Operations, n, f, R)
        BY TurnSums
    <1>3. f \in [1 .. n -> Seq(Operations)]
        BY DEF Turn
    <1>4. g[n] = (IF x = 1 THEN M ELSE 0) + (IF y = 1 THEN M ELSE 0)
        <2>1. g[n] = (IF x = 1 THEN F(n) ELSE 0) + (IF y = 1 THEN n - F(n) ELSE 0)
            BY <1>1
        <2>. HIDE DEF g, F, n
        <2>. QED
            BY <1>1, <2>1
    <1>. HIDE DEF g, f, n
    <1>5. Tally(InTurn(n, f), R) = g[n]
        BY <1>1, <1>2, <1>3, InTurnSum
    <1>. QED
        BY <1>4, <1>5 DEF n, f

\* What every backward does once is never ahead of what every forward does once.
LEMMA TurnLeading ==
    ASSUME NEW c \in Configs, NEW r \in Ranks, NEW a \in Seq(Operations), NEW b \in Seq(Operations),
           NEW R, NEW Q, NEW y \in {0, 1}, Tally(a, R) = 0, Tally(b, R) = y,
           Tally(a, Q) = 1, Tally(b, Q) = 0
    PROVE  InTurn(2 * M, Turn(c, r, a, b)) \in Leading(Operations, R, Q)
    <1>. DEFINE F(k) == Forwards(Warmup(c, r), k)
                G(x, z) == [k \in 0 .. 2 * M |-> (IF x = 1 THEN F(k) ELSE 0) + (IF z = 1 THEN k - F(k) ELSE 0)]
                g == G(0, y)
                h == G(1, 0)
                f == Turn(c, r, a, b)
                n == 2 * M
    <1>1. /\ n \in Nat \ {0} /\ n \in Nat
          /\ \A k \in 0 .. n : F(k) \in Nat /\ F(k) <= k /\ k <= 2 * F(k)
          /\ \A k \in 1 .. n : F(k) = F(k - 1) + (IF IsForward(c, r, k) THEN 1 ELSE 0)
        BY ForwardCount
    <1>2. g \in Sums(Operations, n, f, R)
        BY TurnSums
    <1>3. h \in Sums(Operations, n, f, Q)
        BY TurnSums
    <1>4. f \in [1 .. n -> Seq(Operations)]
        BY DEF Turn
    <1>5. ASSUME NEW k \in 1 .. n
          PROVE  g[k] <= h[k - 1]
        <2>1. k \in 0 .. n /\ k - 1 \in 0 .. n
            BY <1>1
        <2>2. g[k] = (IF y = 1 THEN k - F(k) ELSE 0) + 0 \/ g[k] = 0 + (IF y = 1 THEN k - F(k) ELSE 0)
            BY <2>1
        <2>3. h[k - 1] = F(k - 1) + 0
            BY <2>1
        <2>4. /\ F(k) \in Nat /\ F(k - 1) \in Nat /\ F(k) <= k /\ k <= 2 * F(k) /\ k - 1 <= 2 * F(k - 1)
              /\ F(k) = F(k - 1) + (IF IsForward(c, r, k) THEN 1 ELSE 0)
            BY <1>1, <2>1
        <2>. HIDE DEF g, h, F, n
        <2>. QED
            BY <2>2, <2>3, <2>4
    <1>. HIDE DEF g, h, f, n, F
    <1>6. InTurn(n, f) \in Leading(Operations, R, Q)
        BY <1>1, <1>2, <1>3, <1>4, <1>5, InTurnLeading
    <1>. QED
        BY <1>6 DEF n, f

\* A microbatch on its way forward: received from the stage before, sent to
\* the one behind, nothing sent before it was received and computed.
LEMMA ForwardOneParts ==
    ASSUME NEW c \in Configs, NEW r \in Ranks
    PROVE  LET s == ForwardOne(c, r)
               first == IsFirstStage(c.shape, r)
               last == IsLastStage(c.shape, r)
           IN  /\ s \in Paired(StageOps)
               /\ \A p : Tally(s, {Recv(p)}) = IF ~first /\ p = Prev(c.shape, r) THEN 1 ELSE 0
               /\ \A p : Tally(s, {Send(p)}) = IF ~last /\ p = Succ(c.shape, r) THEN 1 ELSE 0
               /\ ~first => \A p : s \in Leading(Operations, {Send(p)}, {Recv(Prev(c.shape, r))})
               /\ Size(c, "tp") > 1 => \A p : s \in Leading(Operations, {Send(p)}, WaitsOn("tp"))
               /\ Size(c, "tp") > 1 => Tally(s, WaitsOn("tp")) > 0
               /\ \A k : Only(s, CallsOn(k)) = Only(ForwardOps(c, r), CallsOn(k))
    <1>. DEFINE s == ForwardOne(c, r)
                ops == ForwardOps(c, r)
                receives == ~IsFirstStage(c.shape, r)
                sends == ~IsLastStage(c.shape, r)
                q == Prev(c.shape, r)
                o == Succ(c.shape, r)
    <1>1. ops \in Paired(TpOps \cup DpOps) /\ (Size(c, "tp") > 1 => Tally(ops, WaitsOn("tp")) > 0)
        BY ForwardPaired
    <1>2. s = Framed(ops, receives, sends, q, o)
        BY DEF ForwardOne, Framed
    <1>3. receives => q \in Ranks
        BY PrevStage
    <1>4. sends => o \in Ranks
        BY SuccStage
    <1>5. receives \in BOOLEAN /\ sends \in BOOLEAN
        BY DEF IsFirstStage, IsLastStage
    <1>. HIDE DEF s, ops, receives, sends, q, o
    <1>6. /\ s \in Paired(StageOps)
          /\ \A p : Tally(s, {Recv(p)}) = IF receives /\ p = q THEN 1 ELSE 0
          /\ \A p : Tally(s, {Send(p)}) = IF sends /\ p = o THEN 1 ELSE 0
          /\ receives => \A p : s \in Leading(Operations, {Send(p)}, {Recv(q)})
          /\ Tally(ops, WaitsOn("tp")) > 0
               => \A p : s \in Leading(Operations, {Send(p)}, WaitsOn("tp"))
          /\ \A k : Only(s, CallsOn(k)) = Only(ops, CallsOn(k))
          /\ Tally(s, WaitsOn("tp")) >= Tally(ops, WaitsOn("tp"))
        <2>1. ops \in Paired(TpOps \cup DpOps)
            BY <1>1
        <2>2. Microbatch(s, ops, receives, sends, q, o)
            BY <1>2, <1>3, <1>4, <1>5, <2>1, OneMicrobatch
        <2>. QED
            BY <2>2 DEF Microbatch
    <1>7. Size(c, "tp") > 1 => Tally(s, WaitsOn("tp")) > 0
        <2>. DEFINE a == Tally(s, WaitsOn("tp"))
                    b == Tally(ops, WaitsOn("tp"))
        <2>1. s \in Seq(Operations) /\ ops \in Seq(Operations)
            BY <1>1, <1>6, OpSets, PairedParts DEF StageOps
        <2>2. a \in Nat /\ b \in Nat
            BY <2>1, TallyType
        <2>3. a >= b /\ (Size(c, "tp") > 1 => b > 0)
            BY <1>1, <1>6
        <2>. HIDE DEF a, b
        <2>4. Size(c, "tp") > 1 => a > 0
            BY <2>2, <2>3
        <2>. QED
            BY <2>4 DEF a
    <1>. QED
        BY <1>1, <1>6, <1>7 DEF s, ops, receives, sends, q, o

\* A microbatch on its way back.
LEMMA BackwardOneParts ==
    ASSUME NEW c \in Configs, NEW r \in Ranks
    PROVE  LET s == BackwardOne(c, r)
               first == IsFirstStage(c.shape, r)
               last == IsLastStage(c.shape, r)
           IN  /\ s \in Paired(StageOps)
               /\ \A p : Tally(s, {Recv(p)}) = IF ~last /\ p = Succ(c.shape, r) THEN 1 ELSE 0
               /\ \A p : Tally(s, {Send(p)}) = IF ~first /\ p = Prev(c.shape, r) THEN 1 ELSE 0
               /\ ~last => \A p : s \in Leading(Operations, {Send(p)}, {Recv(Succ(c.shape, r))})
               /\ Size(c, "tp") > 1 => \A p : s \in Leading(Operations, {Send(p)}, WaitsOn("tp"))
               /\ \A k : Only(s, CallsOn(k)) = Only(BackwardOps(c, r, FALSE), CallsOn(k))
    <1>. DEFINE s == BackwardOne(c, r)
                ops == BackwardOps(c, r, FALSE)
                receives == ~IsLastStage(c.shape, r)
                sends == ~IsFirstStage(c.shape, r)
                q == Succ(c.shape, r)
                o == Prev(c.shape, r)
    <1>1. ops \in Paired(TpOps \cup DpOps)
          /\ (Size(c, "tp") > 1 /\ sends => Tally(ops, WaitsOn("tp")) > 0)
        BY BackwardPaired
    <1>2. s = Framed(ops, receives, sends, q, o)
        BY DEF BackwardOne, Framed
    <1>3. receives => q \in Ranks
        BY SuccStage
    <1>4. sends => o \in Ranks
        BY PrevStage
    <1>5. receives \in BOOLEAN /\ sends \in BOOLEAN
        BY DEF IsFirstStage, IsLastStage
    <1>. HIDE DEF s, ops, receives, sends, q, o
    <1>6. /\ s \in Paired(StageOps)
          /\ \A p : Tally(s, {Recv(p)}) = IF receives /\ p = q THEN 1 ELSE 0
          /\ \A p : Tally(s, {Send(p)}) = IF sends /\ p = o THEN 1 ELSE 0
          /\ receives => \A p : s \in Leading(Operations, {Send(p)}, {Recv(q)})
          /\ Tally(ops, WaitsOn("tp")) > 0
               => \A p : s \in Leading(Operations, {Send(p)}, WaitsOn("tp"))
          /\ \A k : Only(s, CallsOn(k)) = Only(ops, CallsOn(k))
          /\ Tally(s, WaitsOn("tp")) >= Tally(ops, WaitsOn("tp"))
        <2>1. ops \in Paired(TpOps \cup DpOps)
            BY <1>1
        <2>2. Microbatch(s, ops, receives, sends, q, o)
            BY <1>2, <1>3, <1>4, <1>5, <2>1, OneMicrobatch
        <2>. QED
            BY <2>2 DEF Microbatch
    <1>7. ASSUME Size(c, "tp") > 1
          PROVE  \A p : s \in Leading(Operations, {Send(p)}, WaitsOn("tp"))
        <2>1. CASE sends
            BY <1>1, <1>6, <1>7, <2>1
        <2>2. CASE ~sends
            <3>. TAKE p
            <3>1. Tally(s, {Send(p)}) = 0
                BY <1>6, <2>2
            <3>2. s \in Seq(Operations)
                BY <1>6, OpSets, PairedParts DEF StageOps
            <3>. QED
                BY <3>1, <3>2, LeadingNone
        <2>. QED
            BY <2>1, <2>2
    <1>. QED
        BY <1>6, <1>7 DEF s, ops, receives, sends, q, o

\* A schedule without its drain.
Passes(c, r) == InTurn(2 * M, Turn(c, r, ForwardOne(c, r), BackwardOne(c, r)))

\* A schedule's step is its passes and the drain.
LEMMA ScheduleIs ==
    ASSUME NEW c, NEW r
    PROVE  ScheduleStep(c, r) = Passes(c, r) \o <<Drain>>
    BY DEF ScheduleStep, Passes, Turn

\* A property of both passes that concatenation keeps is one of all passes.
LEMMA PassesJoined ==
    ASSUME NEW c \in Configs, NEW r \in Ranks, NEW T \in Joined(Operations),
           ForwardOne(c, r) \in T, BackwardOne(c, r) \in T
    PROVE  Passes(c, r) \in T
    <1>. DEFINE f == Turn(c, r, ForwardOne(c, r), BackwardOne(c, r))
                n == 2 * M
    <1>1. n \in Nat
        BY TrainStepAssumption
    <1>2. f \in [1 .. n -> T]
        BY DEF Turn
    <1>. HIDE DEF f, n
    <1>3. InTurn(n, f) \in T
        BY <1>1, <1>2, InTurnJoined
    <1>. QED
        BY <1>3 DEF f, n, Passes

\* The drain is none of the calls, waits and messages.
LEMMA DrainPlain ==
    /\ <<Drain>> \in Paired(StageOps)
    /\ \A p : Tally(<<Drain>>, {Send(p)}) = 0 /\ Tally(<<Drain>>, {Recv(p)}) = 0
    /\ \A k : Only(<<Drain>>, CallsOn(k)) = << >> /\ Tally(<<Drain>>, WaitsOn(k)) = 0
    <1>1. Drain \in Moves
        BY DEF Moves
    <1>2. \A k : Moves \cap CallsOn(k) = {} /\ Moves \cap WaitsOn(k) = {}
        BY MovesApart
    <1>3. Moves \in SUBSET Operations
        BY OpTypes
    <1>. DEFINE s == <<Drain>>
    <1>4. s \in Seq(Moves) /\ s \in Seq(StageOps)
        <2>1. Drain \in StageOps
            BY <1>1 DEF StageOps
        <2>. QED
            BY <1>1, <2>1
    <1>. HIDE DEF s
    <1>5. \A k \in Kinds : s \in PairedOn(k)
        <2>. TAKE k \in Kinds
        <2>. QED
            BY <1>2, <1>3, <1>4, PairedNone
    <1>6. s \in Paired(StageOps)
        BY <1>4, <1>5 DEF Paired
    <1>7. \A p : Tally(s, {Send(p)}) = 0 /\ Tally(s, {Recv(p)}) = 0
        <2>. TAKE p
        <2>1. Drain \notin {Send(p)} /\ Drain \notin {Recv(p)}
            BY DEF Drain, Send, Recv
        <2>. QED
            BY <2>1, TallyOne DEF s
    <1>8. \A k : Only(s, CallsOn(k)) = << >> /\ Tally(s, WaitsOn(k)) = 0
        <2>. TAKE k
        <2>1. Drain \notin CallsOn(k) /\ Drain \notin WaitsOn(k)
            BY <1>1, <1>2
        <2>. QED
            BY <2>1, TallyOne, OnlyOne DEF s
    <1>. QED
        BY <1>6, <1>7, <1>8 DEF s

\* A step of a pipeline schedule: what each microbatch keeps, the schedule
\* keeps; M messages from and to each neighbour, and none goes back to the
\* stage before that it has not sent forward.
LEMMA ScheduleParts ==
    ASSUME NEW c \in Configs, NEW r \in Ranks
    PROVE  LET s == ScheduleStep(c, r)
               first == IsFirstStage(c.shape, r)
               last == IsLastStage(c.shape, r)
               prev == Prev(c.shape, r)
               succ == Succ(c.shape, r)
           IN  /\ s \in Paired(StageOps)
               /\ \A p : Tally(s, {Recv(p)})
                            = (IF ~first /\ p = prev THEN M ELSE 0) + (IF ~last /\ p = succ THEN M ELSE 0)
               /\ \A p : Tally(s, {Send(p)})
                            = (IF ~last /\ p = succ THEN M ELSE 0) + (IF ~first /\ p = prev THEN M ELSE 0)
               /\ ~first /\ ~last
                     => /\ s \in Leading(Operations, {Send(succ)}, {Recv(prev)})
                        /\ s \in Leading(Operations, {Send(prev)}, {Recv(succ)})
               /\ ~first => s \in Leading(Operations, {Send(prev)}, {Recv(prev)})
               /\ Size(c, "tp") > 1 => \A p : s \in Leading(Operations, {Send(p)}, WaitsOn("tp"))
               /\ Size(c, "tp") > 1 => Tally(s, WaitsOn("tp")) > 0
    <1>. DEFINE s == ScheduleStep(c, r)
                a == ForwardOne(c, r)
                b == BackwardOne(c, r)
                u == Passes(c, r)
                d == <<Drain>>
                first == IsFirstStage(c.shape, r)
                last == IsLastStage(c.shape, r)
                prev == Prev(c.shape, r)
                succ == Succ(c.shape, r)
    <1>1. s = u \o d
        BY ScheduleIs
    <1>2. /\ a \in Paired(StageOps)
          /\ \A p : Tally(a, {Recv(p)}) = IF ~first /\ p = prev THEN 1 ELSE 0
          /\ \A p : Tally(a, {Send(p)}) = IF ~last /\ p = succ THEN 1 ELSE 0
          /\ ~first => \A p : a \in Leading(Operations, {Send(p)}, {Recv(prev)})
          /\ Size(c, "tp") > 1 => \A p : a \in Leading(Operations, {Send(p)}, WaitsOn("tp"))
          /\ Size(c, "tp") > 1 => Tally(a, WaitsOn("tp")) > 0
        BY ForwardOneParts
    <1>3. /\ b \in Paired(StageOps)
          /\ \A p : Tally(b, {Recv(p)}) = IF ~last /\ p = succ THEN 1 ELSE 0
          /\ \A p : Tally(b, {Send(p)}) = IF ~first /\ p = prev THEN 1 ELSE 0
          /\ ~last => \A p : b \in Leading(Operations, {Send(p)}, {Recv(succ)})
          /\ Size(c, "tp") > 1 => \A p : b \in Leading(Operations, {Send(p)}, WaitsOn("tp"))
        BY BackwardOneParts
    <1>4. /\ d \in Paired(StageOps)
          /\ \A p : Tally(d, {Send(p)}) = 0 /\ Tally(d, {Recv(p)}) = 0
          /\ \A k : Tally(d, WaitsOn(k)) = 0
        BY DrainPlain
    <1>5. ~first /\ ~last => prev # succ
        BY TwoNeighbours
    <1>6. M \in Nat \ {0} /\ StageOps \in SUBSET Operations
        BY TrainStepAssumption, OpSets DEF StageOps
    <1>7. u = InTurn(2 * M, Turn(c, r, a, b))
        BY DEF Passes
    <1>8. \A T \in Joined(Operations) : a \in T /\ b \in T => u \in T
        BY PassesJoined
    <1>. HIDE DEF s, a, b, u, d, first, last, prev, succ
    <1>9. /\ Paired(StageOps) \in Joined(Operations)
          /\ Paired(StageOps) \subseteq Seq(StageOps) /\ Seq(StageOps) \subseteq Seq(Operations)
          /\ \A x, y \in Paired(StageOps) : x \o y \in Paired(StageOps)
        BY <1>6, PairedParts
    <1>10. u \in Paired(StageOps) /\ s \in Paired(StageOps)
        <2>1. u \in Paired(StageOps)
            BY <1>2, <1>3, <1>8, <1>9
        <2>. QED
            BY <1>1, <1>4, <1>9, <2>1
    <1>11. a \in Seq(Operations) /\ b \in Seq(Operations) /\ u \in Seq(Operations)
           /\ d \in Seq(Operations) /\ s \in Seq(Operations)
        BY <1>2, <1>3, <1>4, <1>9, <1>10
    <1>12. \A R : Tally(d, R) = 0 => Tally(s, R) = Tally(u, R)
        <2>. TAKE R
        <2>1. Tally(s, R) = Tally(u, R) + Tally(d, R)
            BY <1>1, <1>11, TallyConcat
        <2>2. Tally(u, R) \in Nat
            BY <1>11, TallyType
        <2>. QED
            BY <2>1, <2>2
    <1>13. ASSUME NEW R, NEW x \in {0, 1}, NEW y \in {0, 1}, Tally(a, R) = x, Tally(b, R) = y
           PROVE  Tally(u, R) = (IF x = 1 THEN M ELSE 0) + (IF y = 1 THEN M ELSE 0)
        BY <1>7, <1>11, <1>13, TurnTally
    <1>14. ASSUME NEW p
           PROVE  Tally(s, {Recv(p)})
                     = (IF ~first /\ p = prev THEN M ELSE 0) + (IF ~last /\ p = succ THEN M ELSE 0)
        <2>. DEFINE x == Tally(a, {Recv(p)})
                    y == Tally(b, {Recv(p)})
        <2>1. /\ x = IF ~first /\ p = prev THEN 1 ELSE 0
              /\ y = IF ~last /\ p = succ THEN 1 ELSE 0
            BY <1>2, <1>3
        <2>2. x \in {0, 1} /\ y \in {0, 1}
            BY <2>1
        <2>3. Tally(u, {Recv(p)}) = (IF x = 1 THEN M ELSE 0) + (IF y = 1 THEN M ELSE 0)
            BY <1>13, <2>2
        <2>4. Tally(s, {Recv(p)}) = Tally(u, {Recv(p)})
            BY <1>4, <1>12
        <2>. QED
            BY <2>1, <2>3, <2>4
    <1>15. ASSUME NEW p
           PROVE  Tally(s, {Send(p)})
                     = (IF ~last /\ p = succ THEN M ELSE 0) + (IF ~first /\ p = prev THEN M ELSE 0)
        <2>. DEFINE x == Tally(a, {Send(p)})
                    y == Tally(b, {Send(p)})
        <2>1. /\ x = IF ~last /\ p = succ THEN 1 ELSE 0
              /\ y = IF ~first /\ p = prev THEN 1 ELSE 0
            BY <1>2, <1>3
        <2>2. x \in {0, 1} /\ y \in {0, 1}
            BY <2>1
        <2>3. Tally(u, {Send(p)}) = (IF x = 1 THEN M ELSE 0) + (IF y = 1 THEN M ELSE 0)
            BY <1>13, <2>2
        <2>4. Tally(s, {Send(p)}) = Tally(u, {Send(p)})
            BY <1>4, <1>12
        <2>. QED
            BY <2>1, <2>3, <2>4
    <1>16. ASSUME NEW R, NEW Q, u \in Leading(Operations, R, Q), Tally(d, R) = 0
           PROVE  s \in Leading(Operations, R, Q)
        <2>. DEFINE L == Leading(Operations, R, Q)
        <2>1. d \in L
            BY <1>11, <1>16, LeadingNone
        <2>2. L \in Joined(Operations)
            BY LeadingJoined
        <2>. HIDE DEF L
        <2>3. u \in L
            BY <1>16 DEF L
        <2>4. u \o d \in L
            BY <2>1, <2>2, <2>3 DEF Joined
        <2>. QED
            BY <1>1, <2>4 DEF L
    <1>17. ASSUME NEW p, NEW Q, a \in Leading(Operations, {Send(p)}, Q), b \in Leading(Operations, {Send(p)}, Q)
           PROVE  s \in Leading(Operations, {Send(p)}, Q)
        <2>1. Leading(Operations, {Send(p)}, Q) \in Joined(Operations)
            BY LeadingJoined
        <2>2. u \in Leading(Operations, {Send(p)}, Q)
            BY <1>8, <1>17, <2>1
        <2>. QED
            BY <1>4, <1>16, <2>2
    <1>18. ASSUME ~first, ~last
           PROVE  /\ s \in Leading(Operations, {Send(succ)}, {Recv(prev)})
                  /\ s \in Leading(Operations, {Send(prev)}, {Recv(succ)})
        <2>1. Tally(b, {Send(succ)}) = 0 /\ Tally(a, {Send(prev)}) = 0
            BY <1>2, <1>3, <1>5, <1>18
        <2>2. b \in Leading(Operations, {Send(succ)}, {Recv(prev)})
            BY <1>11, <2>1, LeadingNone
        <2>3. a \in Leading(Operations, {Send(prev)}, {Recv(succ)})
            BY <1>11, <2>1, LeadingNone
        <2>. QED
            BY <1>2, <1>3, <1>17, <1>18, <2>2, <2>3
    <1>19. ASSUME ~first
           PROVE  s \in Leading(Operations, {Send(prev)}, {Recv(prev)})
        <2>. DEFINE R == {Send(prev)}
                    Q == {Recv(prev)}
        <2>1. Tally(a, R) = 0 /\ Tally(b, R) = 1 /\ Tally(a, Q) = 1 /\ Tally(b, Q) = 0
            BY <1>2, <1>3, <1>5, <1>19
        <2>2. Tally(d, R) = 0
            BY <1>4
        <2>. HIDE DEF R, Q
        <2>3. Tally(b, R) \in {0, 1}
            BY <2>1
        <2>4. u \in Leading(Operations, R, Q)
            BY <1>7, <1>11, <2>1, <2>3, TurnLeading
        <2>5. s \in Leading(Operations, R, Q)
            BY <1>16, <2>2, <2>4
        <2>. QED
            BY <2>5 DEF R, Q
    <1>20. Size(c, "tp") > 1 => \A p : s \in Leading(Operations, {Send(p)}, WaitsOn("tp"))
        BY <1>2, <1>3, <1>17
    <1>21. ASSUME Size(c, "tp") > 1
           PROVE  Tally(s, WaitsOn("tp")) > 0
        <2>. DEFINE f == Turn(c, r, a, b)
                    n == 2 * M
                    W == WaitsOn("tp")
        <2>1. n \in Nat /\ 1 \in 1 .. n
            BY <1>6
        <2>2. f \in [1 .. n -> Seq(Operations)]
            BY <1>11 DEF Turn
        <2>3. f[1] = a
            <3>1. IsForward(c, r, 1)
                BY ForwardCount
            <3>. QED
                BY <2>1, <3>1 DEF Turn
        <2>4. Tally(a, W) > 0 /\ Tally(d, W) = 0
            BY <1>2, <1>4, <1>21
        <2>5. u = InTurn(n, f)
            BY <1>7
        <2>6. Tally(s, W) = Tally(u, W)
            BY <1>12, <2>4
        <2>7. Tally(a, W) \in Nat /\ Tally(u, W) \in Nat
            BY <1>11, TallyType
        <2>. HIDE DEF f, n, W
        <2>. DEFINE one == 1
        <2>8. one \in 1 .. n /\ f[one] = a
            BY <2>1, <2>3
        <2>. HIDE DEF one
        <2>9. Tally(f[one], W) <= Tally(InTurn(n, f), W)
            BY <2>1, <2>2, <2>8, InTurnHas
        <2>10. Tally(a, W) <= Tally(u, W)
            BY <2>5, <2>8, <2>9
        <2>11. Tally(s, W) > 0
            BY <2>4, <2>6, <2>7, <2>10
        <2>. QED
            BY <2>11 DEF W
    <1>. QED
        BY <1>10, <1>14, <1>15, <1>18, <1>19, <1>20, <1>21 DEF s, first, last, prev, succ

-----------------------------------------------------------------------------
(* A training step. *)

\* A step up to the end of its schedule, or of its forward pass, and the rest.
Fore(c, r) == IF c.shape.pp > 1 THEN ScheduleStep(c, r) ELSE ForwardOps(c, r)

\* The backward of a rank without a pipeline, with its gradient synchronisation.
PlainBack(c, r) ==
    BackwardOps(c, r, TRUE) \o (IF c.strategy = "ddp" THEN Flush(c) ELSE << >>)

\* What a step runs after its forward, or after its schedule.
Back(c, r) ==
    (IF c.shape.pp > 1 THEN GradientSync(c) \o BroadcastLoss(c, r) ELSE PlainBack(c, r)) \o ScalerStep(c)

\* The loss broadcast in the pipeline group.
LossOps == Ops("pp", {"loss"})
\* The scaler's agreement on found_inf.
ScalerOps == Ops("world", {"found_inf"})
\* The operations of a training step.
TrainOps == StageOps \cup LossOps \cup ScalerOps

\* The sets of a training step's operations.
LEMMA TrainSets ==
    /\ TrainOps \in SUBSET Operations /\ StageOps \subseteq TrainOps /\ TpOps \subseteq TrainOps
    /\ DpOps \subseteq TrainOps /\ TpOps \cup DpOps \subseteq TrainOps
    /\ LossOps \subseteq TrainOps /\ ScalerOps \subseteq TrainOps
    <1>1. \A k \in Kinds : \A N \in SUBSET Names : Ops(k, N) \subseteq Operations
        BY OpTypes
    <1>2. {"loss"} \in SUBSET Names /\ {"found_inf"} \in SUBSET Names /\ "pp" \in Kinds /\ "world" \in Kinds
        BY DEF Names, Kinds
    <1>3. LossOps \subseteq Operations /\ ScalerOps \subseteq Operations
        BY <1>1, <1>2 DEF LossOps, ScalerOps
    <1>4. StageOps \in SUBSET Operations
        BY OpSets DEF StageOps
    <1>. QED
        BY <1>3, <1>4 DEF TrainOps, StageOps

\* Everything of a step but the schedule has no messages in it.
LEMMA NoMessages ==
    ASSUME NEW s \in Seq(TpOps \cup DpOps \cup LossOps \cup ScalerOps), NEW p
    PROVE  Tally(s, {Send(p)}) = 0 /\ Tally(s, {Recv(p)}) = 0
    <1>. DEFINE U == TpOps \cup DpOps \cup LossOps \cup ScalerOps
    <1>1. U \cap {Send(p)} = {} /\ U \cap {Recv(p)} = {}
        <2>1. TpOps \cap {Send(p)} = {} /\ TpOps \cap {Recv(p)} = {}
            BY OpsApart DEF TpOps
        <2>2. DpOps \cap {Send(p)} = {} /\ DpOps \cap {Recv(p)} = {}
            BY OpsApart DEF DpOps
        <2>3. LossOps \cap {Send(p)} = {} /\ LossOps \cap {Recv(p)} = {}
            BY OpsApart DEF LossOps
        <2>4. ScalerOps \cap {Send(p)} = {} /\ ScalerOps \cap {Recv(p)} = {}
            BY OpsApart DEF ScalerOps
        <2>. QED
            BY <2>1, <2>2, <2>3, <2>4
    <1>2. s \in Seq(U)
        OBVIOUS
    <1>. HIDE DEF U
    <1>. QED
        BY <1>1, <1>2, TallyNone

\* The loss broadcast is waited for at once.
LEMMA LossBroadcast ==
    ASSUME NEW c, NEW r
    PROVE  BroadcastLoss(c, r) \in Paired(LossOps)
    <1>1. << >> \in Seq(Nat) /\ "pp" \in Kinds /\ {"loss"} \in SUBSET Names /\ "loss" \in {"loss"}
        BY DEF Kinds, Names
    <1>. DEFINE none == << >>
                N == {"loss"}
                n == "loss"
                k == "pp"
    <1>. HIDE DEF none, N, n, k
    <1>2. Blocking(c, k, <<n, none>>) \in Paired(Ops(k, N))
        <2>1. none \in Seq(Nat) /\ k \in Kinds /\ N \in SUBSET Names /\ n \in N
            BY <1>1 DEF none, N, n, k
        <2>. QED
            BY <2>1, OneBlocking
    <1>. QED
        BY <1>2 DEF none, N, n, k, BroadcastLoss, LossOps

\* The scaler's all-reduce is waited for at once.
LEMMA ScalerPaired ==
    ASSUME NEW c
    PROVE  ScalerStep(c) \in Paired(ScalerOps)
    <1>1. << >> \in Seq(Nat) /\ "world" \in Kinds /\ {"found_inf"} \in SUBSET Names
          /\ "found_inf" \in {"found_inf"}
        BY DEF Kinds, Names
    <1>. DEFINE none == << >>
                N == {"found_inf"}
                n == "found_inf"
                k == "world"
    <1>. HIDE DEF none, N, n, k
    <1>2. Blocking(c, k, <<n, none>>) \in Paired(Ops(k, N))
        <2>1. none \in Seq(Nat) /\ k \in Kinds /\ N \in SUBSET Names /\ n \in N
            BY <1>1 DEF none, N, n, k
        <2>. QED
            BY <2>1, OneBlocking
    <1>3. << >> \in Paired(ScalerOps)
        BY TrainSets, PairedParts
    <1>. QED
        BY <1>2, <1>3 DEF none, N, n, k, ScalerStep, ScalerOps

\* Without a pipeline: the buckets that backward launches are waited for
\* behind it.
LEMMA PlainPaired ==
    ASSUME NEW c \in Configs, NEW r \in Ranks, c.shape.pp = 1
    PROVE  /\ ForwardOps(c, r) \o PlainBack(c, r) \in Paired(TpOps \cup DpOps)
           /\ PlainBack(c, r) \in Seq(TpOps \cup DpOps)
           /\ Size(c, "dp") > 1 /\ c.strategy # "none" => Tally(PlainBack(c, r), CallsOn("dp")) > 0
    <1>. DEFINE U == TpOps \cup DpOps
                a == ForwardOps(c, r)
                b == BackwardOps(c, r, TRUE)
                d == IF c.strategy = "ddp" THEN Flush(c) ELSE << >>
    <1>1. PlainBack(c, r) = b \o d
        BY DEF PlainBack
    <1>2. U \in SUBSET Operations /\ DpOps \subseteq U /\ TpOps \subseteq U /\ TpOps \in SUBSET Operations
          /\ DpOps \in SUBSET Operations
        BY OpSets
    <1>3. /\ << >> \in Paired(U) /\ Paired(U) \subseteq Seq(U) /\ Seq(U) \subseteq Seq(Operations)
          /\ \A s, t \in Paired(U) : s \o t \in Paired(U)
        BY <1>2, PairedParts
    <1>4. a \in Paired(U)
        BY ForwardPaired
    <1>5. /\ c.strategy \in {"none", "ddp", "fsdp"}
          /\ c.overlap => c.strategy = "ddp"
        BY ShapeOf
    <1>6. CASE ~c.overlap
        <2>1. b \in Paired(U) /\ (c.strategy = "fsdp" /\ Size(c, "dp") > 1 => Tally(b, CallsOn("dp")) > 0)
            BY <1>6, BackwardPaired
        <2>2. d \in Paired(U) /\ (c.strategy = "ddp" /\ Size(c, "dp") > 1 => Tally(d, CallsOn("dp")) > 0)
            <3>1. Flush(c) \in Paired(DpOps) /\ (Size(c, "dp") > 1 => Tally(Flush(c), CallsOn("dp")) > 0)
                BY <1>6, FlushPaired
            <3>2. Flush(c) \in Paired(U)
                BY <1>2, <3>1, PairedIn
            <3>. QED
                BY <1>3, <3>1, <3>2
        <2>. HIDE DEF a, b, d, U
        <2>3. a \o (b \o d) \in Paired(U) /\ b \o d \in Seq(U)
            BY <1>3, <1>4, <2>1, <2>2
        <2>4. b \in Seq(Operations) /\ d \in Seq(Operations)
            BY <1>3, <2>1, <2>2
        <2>5. /\ Tally(b \o d, CallsOn("dp")) = Tally(b, CallsOn("dp")) + Tally(d, CallsOn("dp"))
              /\ Tally(b, CallsOn("dp")) \in Nat /\ Tally(d, CallsOn("dp")) \in Nat
            BY <2>4, TallyConcat, TallyType
        <2>6. Size(c, "dp") > 1 /\ c.strategy # "none" => Tally(b \o d, CallsOn("dp")) > 0
            <3>. DEFINE x == Tally(b, CallsOn("dp"))
                        y == Tally(d, CallsOn("dp"))
                        big == Size(c, "dp") > 1
            <3>1. x \in Nat /\ y \in Nat /\ Tally(b \o d, CallsOn("dp")) = x + y
                BY <2>5
            <3>2. /\ c.strategy = "fsdp" /\ big => x > 0
                  /\ c.strategy = "ddp" /\ big => y > 0
                BY <2>1, <2>2
            <3>. HIDE DEF x, y, big
            <3>3. big /\ c.strategy # "none" => x + y > 0
                BY <1>5, <3>1, <3>2
            <3>. QED
                BY <3>1, <3>3 DEF big
        <2>. QED
            BY <1>1, <2>3, <2>6 DEF a, U
    <1>7. CASE c.overlap
        <2>1. /\ b \in Seq(TpOps \cup Buckets)
              /\ \A k \in Kinds \ {"dp"} : b \in PairedOn(k)
              /\ Tally(b, CallsOn("dp")) = IF Size(c, "dp") > 1 THEN Parts ELSE 0
            BY <1>7, BackwardLaunches
        <2>2. /\ d \in Seq(WaitsOn("dp"))
              /\ Tally(d, WaitsOn("dp")) = IF Size(c, "dp") > 1 THEN Parts ELSE 0
            <3>1. d = << >> \o Waits(c)
                BY <1>5, <1>7 DEF Flush
            <3>2. Waits(c) \in Seq(WaitsOn("dp"))
                BY WaitsPlain
            <3>3. d = Waits(c)
                BY <3>1, <3>2, ConcatEmptySeq
            <3>. QED
                BY <3>3, WaitsPlain
        <2>3. a \in Paired(TpOps)
            BY <1>5, <1>7, ForwardPaired
        <2>. HIDE DEF a, b, d, U
        <2>4. a \in Seq(TpOps) /\ \A k \in Kinds : a \in PairedOn(k)
            BY <2>3 DEF Paired
        <2>5. Buckets \subseteq DpOps /\ Buckets \cap WaitsOn("dp") = {} /\ WaitsOn("dp") \subseteq DpOps
              /\ WaitsOn("dp") \cap CallsOn("dp") = {}
            BY BucketOps DEF WaitsOn
        <2>6. /\ TpOps \cap CallsOn("dp") = {} /\ TpOps \cap WaitsOn("dp") = {}
              /\ \A k : "dp" # k => DpOps \cap CallsOn(k) = {} /\ DpOps \cap WaitsOn(k) = {}
            BY OpsApart DEF TpOps, DpOps
        <2>7. a \in Seq(U) /\ b \in Seq(U) /\ d \in Seq(U) /\ a \in Seq(Operations) /\ b \in Seq(Operations)
              /\ d \in Seq(Operations)
            <3>1. TpOps \subseteq U /\ TpOps \cup Buckets \subseteq U /\ WaitsOn("dp") \subseteq U
                BY <1>2, <2>5
            <3>. QED
                BY <1>3, <2>1, <2>2, <2>4, <3>1, SeqMonotonic
        <2>8. a \o (b \o d) = (a \o b) \o d
            BY <2>7, ConcatAssociative
        <2>9. ASSUME NEW k \in Kinds, k # "dp"
              PROVE  a \o (b \o d) \in PairedOn(k)
            <3>1. PairedOn(k) \in Joined(Operations)
                BY PairedJoined
            <3>2. d \in PairedOn(k)
                <4>1. WaitsOn("dp") \cap CallsOn(k) = {} /\ WaitsOn("dp") \cap WaitsOn(k) = {}
                    BY <2>5, <2>6, <2>9
                <4>2. WaitsOn("dp") \in SUBSET Operations
                    BY <1>2, <2>5
                <4>. QED
                    BY <2>2, <4>1, <4>2, PairedNone
            <3>3. a \in PairedOn(k) /\ b \in PairedOn(k)
                BY <2>1, <2>4, <2>9
            <3>. QED
                BY <3>1, <3>2, <3>3 DEF Joined
        <2>10. a \o (b \o d) \in PairedOn("dp")
            <3>. DEFINE ab == a \o b
                        C == CallsOn("dp")
                        W == WaitsOn("dp")
            <3>1. Tally(a, C) = 0 /\ Tally(a, W) = 0
                BY <2>4, <2>6, TallyNone
            <3>2. Tally(b, W) = 0
                <4>1. (TpOps \cup Buckets) \cap W = {}
                    BY <2>5, <2>6
                <4>. DEFINE V == TpOps \cup Buckets
                <4>2. b \in Seq(V) /\ V \cap W = {}
                    BY <2>1, <4>1
                <4>. HIDE DEF V
                <4>. QED
                    BY <4>2, TallyNone
            <3>3. Tally(d, C) = 0
                BY <2>2, <2>5, TallyNone
            <3>4. Tally(ab, C) = Tally(a, C) + Tally(b, C)
                BY <2>7, TallyConcat
            <3>5. Tally(ab, W) = Tally(a, W) + Tally(b, W)
                BY <2>7, TallyConcat
            <3>6. Parts \in Nat
                BY TrainStepAssumption
            <3>7. Tally(b, C) = IF Size(c, "dp") > 1 THEN Parts ELSE 0
                BY <2>1
            <3>8. Tally(ab, C) = IF Size(c, "dp") > 1 THEN Parts ELSE 0
                BY <3>1, <3>4, <3>6, <3>7
            <3>9. Tally(ab, W) = 0
                BY <3>1, <3>2, <3>5
            <3>10. ab \in Seq(Operations)
                BY <2>7
            <3>11. Tally(d, W) = Tally(ab, C)
                BY <2>2, <3>8
            <3>. HIDE DEF ab
            <3>12. ab \o d \in PairedOn("dp")
                BY <2>7, <3>3, <3>9, <3>10, <3>11, PairedBehind
            <3>. QED
                BY <2>8, <3>12 DEF ab
        <2>11. a \o (b \o d) \in Paired(U) /\ b \o d \in Seq(U)
            <3>1. a \o (b \o d) \in Seq(U) /\ b \o d \in Seq(U)
                BY <2>7
            <3>2. \A k \in Kinds : a \o (b \o d) \in PairedOn(k)
                BY <2>9, <2>10
            <3>. QED
                BY <3>1, <3>2 DEF Paired
        <2>12. Size(c, "dp") > 1 => Tally(b \o d, CallsOn("dp")) > 0
            <3>1. Tally(b \o d, CallsOn("dp")) = Tally(b, CallsOn("dp")) + Tally(d, CallsOn("dp"))
                BY <2>7, TallyConcat
            <3>2. Tally(d, CallsOn("dp")) = 0
                BY <2>2, <2>5, TallyNone
            <3>3. Parts \in Nat \ {0}
                BY TrainStepAssumption
            <3>. QED
                BY <2>1, <3>1, <3>2, <3>3
        <2>. QED
            BY <1>1, <2>11, <2>12 DEF a, U
    <1>. QED
        BY <1>6, <1>7

\* What stands behind the front of a step: no messages, and collectives of
\* the data-parallel group, if there is one and the model is wrapped.
LEMMA BackParts ==
    ASSUME NEW c \in Configs, NEW r \in Ranks
    PROVE  /\ StepOps(c, r) = Fore(c, r) \o Back(c, r)
           /\ StepOps(c, r) \in Paired(TrainOps)
           /\ Fore(c, r) \in Seq(TrainOps)
           /\ Back(c, r) \in Seq(TpOps \cup DpOps \cup LossOps \cup ScalerOps)
           /\ Size(c, "dp") > 1 /\ c.strategy # "none" => Tally(Back(c, r), CallsOn("dp")) > 0
           /\ c.shape.pp = 1 => Fore(c, r) \in Seq(TpOps \cup DpOps)
    <1>. DEFINE V == TpOps \cup DpOps \cup LossOps \cup ScalerOps
                f == Fore(c, r)
                x == IF c.shape.pp > 1 THEN GradientSync(c) \o BroadcastLoss(c, r) ELSE PlainBack(c, r)
                z == ScalerStep(c)
                C == CallsOn("dp")
    <1>1. /\ TrainOps \in SUBSET Operations /\ StageOps \subseteq TrainOps
          /\ TpOps \cup DpOps \subseteq TrainOps
          /\ DpOps \subseteq TrainOps /\ LossOps \subseteq TrainOps /\ ScalerOps \subseteq TrainOps
          /\ V \subseteq TrainOps
          /\ TpOps \cup DpOps \subseteq V /\ DpOps \subseteq V /\ LossOps \subseteq V /\ ScalerOps \subseteq V
        BY TrainSets
    <1>2. /\ Paired(TrainOps) \subseteq Seq(TrainOps) /\ Seq(TrainOps) \subseteq Seq(Operations)
          /\ \A s, t \in Paired(TrainOps) : s \o t \in Paired(TrainOps)
        BY <1>1, PairedParts
    <1>3. z \in Paired(ScalerOps)
        BY ScalerPaired
    <1>4. z \in Paired(TrainOps) /\ z \in Seq(V)
        <2>1. z \in Seq(ScalerOps)
            BY <1>3 DEF Paired
        <2>. QED
            BY <1>1, <1>3, <2>1, PairedIn, SeqMonotonic
    <1>5. c.shape.pp \in Nat \ {0}
        BY ShapeOf
    <1>6. CASE c.shape.pp > 1
        <2>. DEFINE g == GradientSync(c)
                    l == BroadcastLoss(c, r)
        <2>1. f = ScheduleStep(c, r) /\ x = g \o l
            BY <1>6 DEF Fore
        <2>2. StepOps(c, r) = (f \o g \o l) \o z /\ Back(c, r) = (g \o l) \o z
            BY <1>6 DEF Fore, Back, StepOps
        <2>3. f \in Paired(TrainOps)
            <3>1. ScheduleStep(c, r) \in Paired(StageOps)
                BY ScheduleParts
            <3>. QED
                BY <1>1, <2>1, <3>1, PairedIn
        <2>4. g \in Paired(DpOps) /\ (Size(c, "dp") > 1 /\ c.strategy # "none" => Tally(g, C) > 0)
            <3>1. ~c.overlap
                BY <1>5, <1>6, ShapeOf
            <3>. QED
                BY <3>1, SyncPaired
        <2>5. l \in Paired(LossOps)
            BY LossBroadcast
        <2>6. g \in Paired(TrainOps) /\ l \in Paired(TrainOps)
            BY <1>1, <2>4, <2>5, PairedIn
        <2>7. g \in Seq(V) /\ l \in Seq(V)
            <3>1. g \in Seq(DpOps) /\ l \in Seq(LossOps)
                BY <2>4, <2>5 DEF Paired
            <3>. QED
                BY <1>1, <3>1, SeqMonotonic
        <2>. HIDE DEF f, x, z, g, l, V
        <2>8. f \in Seq(Operations) /\ g \in Seq(Operations) /\ l \in Seq(Operations) /\ z \in Seq(Operations)
            BY <1>2, <1>4, <2>3, <2>6
        <2>9. (f \o g \o l) \o z = f \o ((g \o l) \o z)
            <3>1. (f \o g) \o l = f \o (g \o l)
                BY <2>8, ConcatAssociative
            <3>. DEFINE gl == g \o l
            <3>2. gl \in Seq(Operations)
                BY <2>8
            <3>. HIDE DEF gl
            <3>3. f \in Seq(Operations) /\ z \in Seq(Operations)
                BY <2>8
            <3>4. (f \o gl) \o z = f \o (gl \o z)
                BY <3>2, <3>3, ConcatAssociative
            <3>. QED
                BY <3>1, <3>4 DEF gl
        <2>10. f \o g \in Paired(TrainOps) /\ (f \o g) \o l \in Paired(TrainOps)
            BY <1>2, <2>3, <2>6
        <2>11. StepOps(c, r) \in Paired(TrainOps)
            BY <1>2, <1>4, <2>2, <2>10
        <2>12. (g \o l) \o z \in Seq(V)
            BY <1>4, <2>7
        <2>13. Tally(g, C) <= Tally((g \o l) \o z, C)
            <3>. DEFINE lz == l \o z
            <3>1. lz \in Seq(Operations)
                BY <2>8
            <3>2. (g \o l) \o z = g \o lz
                <4>1. g \in Seq(Operations) /\ l \in Seq(Operations) /\ z \in Seq(Operations)
                    BY <2>8
                <4>. QED
                    BY <4>1, ConcatAssociative
            <3>. HIDE DEF lz
            <3>3. Tally(g, C) <= Tally(g \o lz, C)
                BY <2>8, <3>1, TallyPart
            <3>. QED
                BY <3>2, <3>3
        <2>14. Size(c, "dp") > 1 /\ c.strategy # "none" => Tally((g \o l) \o z, C) > 0
            <3>. DEFINE all == (g \o l) \o z
                        m == Tally(g, C)
                        n == Tally(all, C)
            <3>1. all \in Seq(Operations)
                BY <2>8
            <3>2. m \in Nat
                BY <2>8, TallyType
            <3>. HIDE DEF all
            <3>3. n \in Nat
                BY <3>1, TallyType
            <3>4. m <= n /\ (Size(c, "dp") > 1 /\ c.strategy # "none" => m > 0)
                BY <2>4, <2>13 DEF all
            <3>. HIDE DEF m, n
            <3>5. Size(c, "dp") > 1 /\ c.strategy # "none" => n > 0
                BY <3>2, <3>3, <3>4
            <3>. QED
                BY <3>5 DEF n, all
        <2>15. f \in Seq(TrainOps)
            BY <1>2, <2>3
        <2>16. c.shape.pp # 1
            BY <1>5, <1>6
        <2>. QED
            BY <2>2, <2>9, <2>11, <2>12, <2>14, <2>15, <2>16 DEF f, V
    <1>7. CASE ~(c.shape.pp > 1)
        <2>1. c.shape.pp = 1
            BY <1>5, <1>7
        <2>2. f = ForwardOps(c, r) /\ x = PlainBack(c, r)
            BY <1>7 DEF Fore
        <2>3. /\ f \o x \in Paired(TpOps \cup DpOps)
              /\ x \in Seq(TpOps \cup DpOps)
              /\ Size(c, "dp") > 1 /\ c.strategy # "none" => Tally(x, C) > 0
            BY <2>1, <2>2, PlainPaired
        <2>4. f \in Paired(TpOps \cup DpOps)
            BY <2>2, ForwardPaired
        <2>5. Back(c, r) = x \o z
            BY DEF Back
        <2>6. StepOps(c, r) = (f \o x) \o z
            <3>. DEFINE b == BackwardOps(c, r, TRUE)
                        d == IF c.strategy = "ddp" THEN Flush(c) ELSE << >>
            <3>1. StepOps(c, r) = ((f \o b) \o d) \o z
                BY <1>7, <2>2 DEF StepOps, PlainStep
            <3>2. x = b \o d
                BY <2>2 DEF PlainBack
            <3>3. f \in Seq(Operations) /\ b \in Seq(Operations) /\ d \in Seq(Operations)
                <4>1. f \in Seq(Operations)
                    BY <2>4, OpSets, PairedParts
                <4>2. d \in Seq(Operations)
                    <5>1. CASE ~c.overlap
                        <6>1. Flush(c) \in Paired(DpOps)
                            BY <5>1, FlushPaired
                        <6>2. Flush(c) \in Seq(Operations) /\ << >> \in Seq(Operations)
                            BY <6>1, OpSets, PairedParts
                        <6>. QED
                            BY <6>2
                    <5>2. CASE c.overlap
                        <6>1. Waits(c) \in Seq(WaitsOn("dp")) /\ WaitsOn("dp") \subseteq Operations
                            BY WaitsPlain, OpTypes DEF Kinds
                        <6>. DEFINE w == Waits(c)
                        <6>2. w \in Seq(Operations)
                            BY <6>1, SeqMonotonic
                        <6>3. d = IF c.strategy = "ddp" THEN << >> \o w ELSE << >>
                            BY <5>2 DEF Flush
                        <6>. HIDE DEF w, d
                        <6>. QED
                            BY <6>2, <6>3
                    <5>. QED
                        BY <5>1, <5>2
                <4>3. b \in Seq(Operations)
                    <5>1. CASE c.overlap
                        <6>1. b \in Seq(TpOps \cup Buckets)
                            BY <5>1, BackwardLaunches
                        <6>2. TpOps \cup Buckets \subseteq Operations
                            BY BucketOps, OpSets
                        <6>. QED
                            BY <6>1, <6>2, SeqMonotonic
                    <5>2. CASE ~c.overlap
                        <6>1. b \in Paired(TpOps \cup DpOps)
                            BY <5>2, BackwardPaired
                        <6>. QED
                            BY <6>1, OpSets, PairedParts
                    <5>. QED
                        BY <5>1, <5>2
                <4>. QED
                    BY <4>1, <4>2, <4>3
            <3>. HIDE DEF f, b, d, x, z
            <3>4. (f \o b) \o d = f \o (b \o d)
                BY <3>3, ConcatAssociative
            <3>. QED
                BY <3>1, <3>2, <3>4
        <2>. HIDE DEF f, x, z, V
        <2>7. f \o x \in Paired(TrainOps)
            BY <1>1, <2>3, PairedIn
        <2>8. StepOps(c, r) \in Paired(TrainOps)
            BY <1>2, <1>4, <2>6, <2>7
        <2>9. f \in Seq(TpOps \cup DpOps)
            BY <2>4 DEF Paired
        <2>10. f \in Seq(TrainOps) /\ x \in Seq(V)
            BY <1>1, <2>3, <2>9, SeqMonotonic
        <2>11. x \o z \in Seq(V)
            BY <1>4, <2>10
        <2>12. f \in Seq(Operations) /\ x \in Seq(Operations) /\ z \in Seq(Operations)
            <3>1. V \subseteq Operations /\ TrainOps \subseteq Operations
                BY <1>1
            <3>. QED
                BY <1>4, <2>10, <3>1, SeqMonotonic
        <2>13. (f \o x) \o z = f \o (x \o z)
            BY <2>12, ConcatAssociative
        <2>14. Size(c, "dp") > 1 /\ c.strategy # "none" => Tally(x \o z, C) > 0
            <3>1. Tally(x \o z, C) = Tally(x, C) + Tally(z, C)
                BY <2>12, TallyConcat
            <3>2. Tally(x, C) \in Nat /\ Tally(z, C) \in Nat
                BY <2>12, TallyType
            <3>. QED
                BY <2>3, <3>1, <3>2
        <2>. QED
            BY <2>5, <2>6, <2>8, <2>9, <2>10, <2>11, <2>13, <2>14 DEF f, V
    <1>. QED
        BY <1>6, <1>7

\* A step: M messages from and to each neighbour, in the order of its
\* schedule, and a wait on the tensor-parallel group in its front.
LEMMA StepParts ==
    ASSUME NEW c \in Configs, NEW r \in Ranks
    PROVE  LET s == StepOps(c, r)
               first == IsFirstStage(c.shape, r)
               last == IsLastStage(c.shape, r)
               prev == Prev(c.shape, r)
               succ == Succ(c.shape, r)
           IN  /\ \A p : Tally(s, {Recv(p)}) = Tally(Fore(c, r), {Recv(p)})
               /\ \A p : Tally(s, {Recv(p)})
                            = (IF ~first /\ p = prev THEN M ELSE 0) + (IF ~last /\ p = succ THEN M ELSE 0)
               /\ \A p : Tally(s, {Send(p)})
                            = (IF ~last /\ p = succ THEN M ELSE 0) + (IF ~first /\ p = prev THEN M ELSE 0)
               /\ ~first /\ ~last
                     => /\ s \in Leading(Operations, {Send(succ)}, {Recv(prev)})
                        /\ s \in Leading(Operations, {Send(prev)}, {Recv(succ)})
               /\ ~first => s \in Leading(Operations, {Send(prev)}, {Recv(prev)})
               /\ Size(c, "tp") > 1 => \A p : s \in Leading(Operations, {Send(p)}, WaitsOn("tp"))
               /\ Size(c, "tp") > 1 => Tally(Fore(c, r), WaitsOn("tp")) > 0
    <1>. DEFINE s == StepOps(c, r)
                f == Fore(c, r)
                b == Back(c, r)
                first == IsFirstStage(c.shape, r)
                last == IsLastStage(c.shape, r)
                prev == Prev(c.shape, r)
                succ == Succ(c.shape, r)
                Counts(t) ==
                   /\ \A p : Tally(t, {Recv(p)})
                                = (IF ~first /\ p = prev THEN M ELSE 0) + (IF ~last /\ p = succ THEN M ELSE 0)
                   /\ \A p : Tally(t, {Send(p)})
                                = (IF ~last /\ p = succ THEN M ELSE 0) + (IF ~first /\ p = prev THEN M ELSE 0)
                Orders(t) ==
                   /\ ~first /\ ~last
                         => /\ t \in Leading(Operations, {Send(succ)}, {Recv(prev)})
                            /\ t \in Leading(Operations, {Send(prev)}, {Recv(succ)})
                   /\ ~first => t \in Leading(Operations, {Send(prev)}, {Recv(prev)})
                   /\ Size(c, "tp") > 1 => \A p : t \in Leading(Operations, {Send(p)}, WaitsOn("tp"))
    <1>1. /\ s = f \o b /\ f \in Seq(TrainOps) /\ TrainOps \subseteq Operations
          /\ b \in Seq(TpOps \cup DpOps \cup LossOps \cup ScalerOps)
          /\ TpOps \cup DpOps \cup LossOps \cup ScalerOps \subseteq Operations
        BY BackParts, TrainSets
    <1>2. f \in Seq(Operations) /\ b \in Seq(Operations)
        BY <1>1, SeqMonotonic
    <1>3. \A p : Tally(b, {Send(p)}) = 0 /\ Tally(b, {Recv(p)}) = 0
        BY <1>1, NoMessages
    <1>4. c.shape.pp \in Nat \ {0} /\ M \in Nat \ {0}
        BY ShapeOf, TrainStepAssumption
    <1>5. Counts(f) /\ Orders(f) /\ (Size(c, "tp") > 1 => Tally(f, WaitsOn("tp")) > 0)
        <2>1. CASE c.shape.pp > 1
            <3>1. f = ScheduleStep(c, r)
                BY <2>1 DEF Fore
            <3>. DEFINE g == ScheduleStep(c, r)
            <3>2. Counts(g)
                BY ScheduleParts
            <3>3. Orders(g) /\ (Size(c, "tp") > 1 => Tally(g, WaitsOn("tp")) > 0)
                BY ScheduleParts
            <3>4. f = g
                BY <3>1
            <3>. HIDE DEF f, g, first, last, prev, succ, Counts, Orders
            <3>. QED
                BY <3>2, <3>3, <3>4
        <2>2. CASE ~(c.shape.pp > 1)
            <3>1. c.shape.pp = 1 /\ f = ForwardOps(c, r)
                BY <1>4, <2>2 DEF Fore
            <3>2. first /\ last
                <4>1. CoordOf(c.shape, r).pp \in 0 .. c.shape.pp - 1
                    BY ShapeOf
                <4>. QED
                    BY <3>1, <4>1 DEF IsFirstStage, IsLastStage
            <3>3. f \in Seq(TpOps \cup DpOps)
                BY <3>1, BackParts
            <3>4. f \in Seq(TpOps \cup DpOps \cup LossOps \cup ScalerOps)
                <4>1. TpOps \cup DpOps \subseteq TpOps \cup DpOps \cup LossOps \cup ScalerOps
                    OBVIOUS
                <4>. QED
                    BY <3>3, <4>1, SeqMonotonic
            <3>5. \A p : Tally(f, {Send(p)}) = 0 /\ Tally(f, {Recv(p)}) = 0
                BY <3>4, NoMessages
            <3>6. Size(c, "tp") > 1 => Tally(f, WaitsOn("tp")) > 0
                BY <3>1, ForwardPaired
            <3>. HIDE DEF f, first, last, prev, succ
            <3>7. \A p, Q : f \in Leading(Operations, {Send(p)}, Q)
                BY <1>2, <3>5, LeadingNone
            <3>. QED
                BY <3>2, <3>5, <3>6, <3>7
        <2>. QED
            BY <2>1, <2>2
    <1>. HIDE DEF s, f, b, first, last, prev, succ
    <1>6. \A R : Tally(b, R) = 0 => Tally(s, R) = Tally(f, R)
        <2>. TAKE R
        <2>1. Tally(s, R) = Tally(f, R) + Tally(b, R)
            BY <1>1, <1>2, TallyConcat
        <2>2. Tally(f, R) \in Nat
            BY <1>2, TallyType
        <2>. QED
            BY <2>1, <2>2
    <1>7. ASSUME NEW p, NEW Q, f \in Leading(Operations, {Send(p)}, Q)
          PROVE  s \in Leading(Operations, {Send(p)}, Q)
        <2>1. b \in Leading(Operations, {Send(p)}, Q)
            BY <1>2, <1>3, LeadingNone
        <2>2. Leading(Operations, {Send(p)}, Q) \in Joined(Operations)
            BY LeadingJoined
        <2>. DEFINE L == Leading(Operations, {Send(p)}, Q)
        <2>. HIDE DEF L
        <2>3. f \in L /\ b \in L /\ L \in Joined(Operations)
            BY <1>7, <2>1, <2>2 DEF L
        <2>4. f \o b \in L
            BY <2>3 DEF Joined
        <2>. QED
            BY <1>1, <2>4 DEF L
    <1>8. \A p : Tally(s, {Recv(p)}) = Tally(f, {Recv(p)}) /\ Tally(s, {Send(p)}) = Tally(f, {Send(p)})
        BY <1>3, <1>6
    <1>9. Counts(s)
        BY <1>5, <1>8
    <1>10. Orders(s)
        BY <1>5, <1>7
    <1>. QED
        BY <1>5, <1>8, <1>9, <1>10 DEF s, f, first, last, prev, succ

-----------------------------------------------------------------------------
(* The program of a rank, from construction to shutdown. *)

\* The groups a rank creates are lists of ranks.
LEMMA CreatedGroups ==
    ASSUME NEW m, IsShape(m)
    PROVE  LET created == AllGroups(m)
           IN  /\ Len(created) \in Nat
               /\ \A i \in 1 .. Len(created) : created[i].ranks \in Seq(Nat)
    <1>. DEFINE created == AllGroups(m)
                a == m.pp * m.dp
                b == m.pp * m.tp
                d == m.dp * m.tp
    <1>1. m.tp \in Nat \ {0} /\ m.dp \in Nat \ {0} /\ m.pp \in Nat \ {0}
        BY DEF IsShape
    <1>2. a \in Nat /\ b \in Nat /\ d \in Nat
        BY <1>1
    <1>3. /\ Len(created) = a + b + d
          /\ \A i \in 1 .. a : created[i] = TpGroups(m)[i]
          /\ \A i \in 1 .. b : created[a + i] = DpGroups(m)[i]
          /\ \A i \in 1 .. d : created[a + b + i] = PpGroups(m)[i]
        BY GroupsInOrder
    <1>4. \A x, y, z \in Nat : RankOf(m, x, y, z) \in Nat
        <2>. TAKE x, y, z \in Nat
        <2>. DEFINE u == m.dp * m.tp
        <2>1. u \in Nat /\ y * m.tp \in Nat
            BY <1>1
        <2>. HIDE DEF u
        <2>2. x * u \in Nat
            BY <2>1
        <2>. QED
            BY <2>1, <2>2 DEF RankOf, u
    <1>5. \A j \in Nat : \A q \in Nat \ {0} : j \div q \in Nat /\ j % q \in Nat
        OBVIOUS
    <1>6. ASSUME NEW i \in 1 .. a PROVE TpGroups(m)[i].ranks \in Seq(Nat)
        <2>. DEFINE u == (i - 1) \div m.dp
                    v == (i - 1) % m.dp
        <2>1. i - 1 \in Nat
            BY <1>2
        <2>2. u \in Nat /\ v \in Nat
            BY <1>1, <1>5, <2>1
        <2>3. TpGroups(m)[i].ranks = [t \in 1 .. m.tp |-> RankOf(m, u, v, t - 1)]
            BY DEF TpGroups
        <2>. HIDE DEF u, v
        <2>4. \A t \in 1 .. m.tp : RankOf(m, u, v, t - 1) \in Nat
            <3>. TAKE t \in 1 .. m.tp
            <3>. DEFINE w == t - 1
            <3>1. w \in Nat
                BY <1>1
            <3>. HIDE DEF w
            <3>2. RankOf(m, u, v, w) \in Nat
                BY <1>4, <2>2, <3>1
            <3>. QED
                BY <3>2 DEF w
        <2>. QED
            BY <1>1, <2>3, <2>4
    <1>7. ASSUME NEW i \in 1 .. b PROVE DpGroups(m)[i].ranks \in Seq(Nat)
        <2>. DEFINE u == (i - 1) \div m.tp
                    v == (i - 1) % m.tp
        <2>1. i - 1 \in Nat
            BY <1>2
        <2>2. u \in Nat /\ v \in Nat
            BY <1>1, <1>5, <2>1
        <2>3. DpGroups(m)[i].ranks = [t \in 1 .. m.dp |-> RankOf(m, u, t - 1, v)]
            BY DEF DpGroups
        <2>. HIDE DEF u, v
        <2>4. \A t \in 1 .. m.dp : RankOf(m, u, t - 1, v) \in Nat
            <3>. TAKE t \in 1 .. m.dp
            <3>. DEFINE w == t - 1
            <3>1. w \in Nat
                BY <1>1
            <3>. HIDE DEF w
            <3>2. RankOf(m, u, w, v) \in Nat
                BY <1>4, <2>2, <3>1
            <3>. QED
                BY <3>2 DEF w
        <2>. QED
            BY <1>1, <2>3, <2>4
    <1>8. ASSUME NEW i \in 1 .. d PROVE PpGroups(m)[i].ranks \in Seq(Nat)
        <2>. DEFINE u == (i - 1) \div m.tp
                    v == (i - 1) % m.tp
        <2>1. i - 1 \in Nat
            BY <1>2
        <2>2. u \in Nat /\ v \in Nat
            BY <1>1, <1>5, <2>1
        <2>3. PpGroups(m)[i].ranks = [t \in 1 .. m.pp |-> RankOf(m, t - 1, u, v)]
            BY DEF PpGroups
        <2>. HIDE DEF u, v
        <2>4. \A t \in 1 .. m.pp : RankOf(m, t - 1, u, v) \in Nat
            <3>. TAKE t \in 1 .. m.pp
            <3>. DEFINE w == t - 1
            <3>1. w \in Nat
                BY <1>1
            <3>. HIDE DEF w
            <3>2. RankOf(m, w, u, v) \in Nat
                BY <1>4, <2>2, <3>1
            <3>. QED
                BY <3>2 DEF w
        <2>. QED
            BY <1>1, <2>3, <2>4
    <1>. HIDE DEF created, a, b, d
    <1>9. ASSUME NEW i \in 1 .. Len(created) PROVE created[i].ranks \in Seq(Nat)
        <2>1. CASE i <= a
            <3>1. i \in 1 .. a
                BY <1>2, <1>3, <2>1
            <3>. QED
                BY <1>3, <1>6, <3>1
        <2>2. CASE i > a /\ i <= a + b
            <3>1. i - a \in 1 .. b /\ i = a + (i - a)
                BY <1>2, <1>3, <2>2
            <3>. DEFINE j == i - a
            <3>. HIDE DEF j
            <3>2. j \in 1 .. b /\ i = a + j
                BY <3>1 DEF j
            <3>. QED
                BY <1>3, <1>7, <3>2
        <2>3. CASE i > a + b
            <3>1. i - a - b \in 1 .. d /\ i = a + b + (i - a - b)
                BY <1>2, <1>3, <2>3
            <3>. DEFINE j == i - a - b
            <3>. HIDE DEF j
            <3>2. j \in 1 .. d /\ i = a + b + j
                BY <3>1 DEF j
            <3>. QED
                BY <1>3, <1>8, <3>2
        <2>. QED
            BY <1>2, <1>3, <2>1, <2>2, <2>3
    <1>. QED
        BY <1>2, <1>3, <1>9 DEF created

\* The operations of the construction.
BuildOps == Ops("world", {"new_group"}) \cup Ops("dp", {"parameters"})

\* Construction: every call is waited for, and one of them at most is on the
\* data-parallel group; the same on all ranks.
LEMMA ConstructParts ==
    ASSUME NEW c \in Configs, NEW r \in Ranks
    PROVE  /\ ConstructOps(c, r) \in Paired(BuildOps) /\ BuildOps \in SUBSET Operations
           /\ Tally(ConstructOps(c, r), CallsOn("dp"))
                 = IF Size(c, "dp") > 1 /\ c.strategy # "none" THEN 1 ELSE 0
           /\ \A s \in Ranks : ConstructOps(c, s) = ConstructOps(c, r)
    <1>. DEFINE created == AllGroups(c.shape)
                n == Len(created)
                f == [i \in 1 .. n |-> Blocking(c, "world", <<"new_group", created[i].ranks>>)]
                a == InTurn(n, f)
                b == BroadcastParameters(c)
                some == IF Size(c, "dp") > 1 /\ c.strategy # "none" THEN 1 ELSE 0
                A == Ops("world", {"new_group"})
                B == Ops("dp", {"parameters"})
                C == CallsOn("dp")
    <1>1. IsShape(c.shape)
        BY ShapeOf
    <1>2. n \in Nat /\ \A i \in 1 .. n : created[i].ranks \in Seq(Nat)
        BY <1>1, CreatedGroups
    <1>3. DOMAIN created = 1 .. n
        <2>. DEFINE x == TpGroups(c.shape)
                    y == DpGroups(c.shape)
                    z == PpGroups(c.shape)
                    S == Range(x) \cup Range(y) \cup Range(z)
        <2>2. c.shape.tp \in Nat /\ c.shape.dp \in Nat /\ c.shape.pp \in Nat
            BY <1>1 DEF IsShape
        <2>3. x \in Seq(S)
            <3>. DEFINE len == c.shape.pp * c.shape.dp
            <3>1. len \in Nat
                BY <2>2
            <3>2. x \in [1 .. len -> Range(x)]
                BY DEF TpGroups, Range
            <3>. HIDE DEF len, x, y, z
            <3>3. x \in [1 .. len -> S]
                BY <3>2
            <3>. QED
                BY <3>1, <3>3
        <2>4. y \in Seq(S)
            <3>. DEFINE len == c.shape.pp * c.shape.tp
            <3>1. len \in Nat
                BY <2>2
            <3>2. y \in [1 .. len -> Range(y)]
                BY DEF DpGroups, Range
            <3>. HIDE DEF len, x, y, z
            <3>3. y \in [1 .. len -> S]
                BY <3>2
            <3>. QED
                BY <3>1, <3>3
        <2>5. z \in Seq(S)
            <3>. DEFINE len == c.shape.dp * c.shape.tp
            <3>1. len \in Nat
                BY <2>2
            <3>2. z \in [1 .. len -> Range(z)]
                BY DEF PpGroups, Range
            <3>. HIDE DEF len, x, y, z
            <3>3. z \in [1 .. len -> S]
                BY <3>2
            <3>. QED
                BY <3>1, <3>3
        <2>6. created = x \o y \o z
            BY DEF AllGroups
        <2>. HIDE DEF x, y, z, S, created
        <2>7. created \in Seq(S)
            BY <2>3, <2>4, <2>5, <2>6
        <2>. QED
            BY <2>7
    <1>4. ConstructOps(c, r) = a \o b
        BY <1>3 DEF ConstructOps, GroupsCreated
    <1>5. {"new_group"} \in SUBSET Names /\ {"parameters"} \in SUBSET Names
          /\ "world" \in Kinds /\ "dp" \in Kinds
        BY DEF Names, Kinds
    <1>6. BuildOps \in SUBSET Operations /\ A \in SUBSET Operations /\ B \in SUBSET Operations
          /\ A \subseteq BuildOps /\ B \subseteq BuildOps
        BY <1>5, OpTypes DEF BuildOps
    <1>7. \A i \in 1 .. n : f[i] \in Paired(A)
        <2>. DEFINE N == {"new_group"}
                    e == "new_group"
                    k == "world"
        <2>. HIDE DEF N, e, k
        <2>1. N \in SUBSET Names /\ e \in N /\ k \in Kinds
            BY <1>5 DEF N, e, k
        <2>. TAKE i \in 1 .. n
        <2>. DEFINE x == created[i].ranks
        <2>2. x \in Seq(Nat)
            BY <1>2
        <2>. HIDE DEF x
        <2>3. Blocking(c, k, <<e, x>>) \in Paired(Ops(k, N))
            BY <2>1, <2>2, OneBlocking
        <2>. QED
            BY <2>3 DEF N, e, k, x
    <1>8. b \in Paired(B) /\ Tally(b, WaitsOn("dp")) = some
        <2>. DEFINE N == {"parameters"}
                    e == "parameters"
                    k == "dp"
                    x == << >>
        <2>. HIDE DEF N, e, k, x
        <2>1. N \in SUBSET Names /\ e \in N /\ k \in Kinds /\ x \in Seq(Nat)
            BY <1>5 DEF N, e, k, x
        <2>2. Blocking(c, k, <<e, x>>) \in Paired(Ops(k, N))
            BY <2>1, OneBlocking
        <2>3. Tally(Blocking(c, k, <<e, x>>), WaitsOn(k)) = IF Size(c, k) > 1 THEN 1 ELSE 0
            BY <2>1, BlockingPaired
        <2>4. << >> \in Paired(B) /\ Tally(<< >>, WaitsOn("dp")) = 0
            BY <1>6, PairedParts, TallyEmpty
        <2>5. b = IF c.strategy = "none" THEN << >> ELSE Blocking(c, k, <<e, x>>)
            BY DEF BroadcastParameters, e, k, x
        <2>. DEFINE y == Blocking(c, k, <<e, x>>)
        <2>6. y \in Paired(B) /\ Tally(y, WaitsOn("dp")) = IF Size(c, "dp") > 1 THEN 1 ELSE 0
            BY <2>2, <2>3 DEF N, k
        <2>. HIDE DEF y, b, B
        <2>. QED
            BY <2>4, <2>5, <2>6 DEF y
    <1>9. /\ Paired(A) \in Joined(Operations) /\ Paired(A) \subseteq Seq(A)
          /\ Seq(A) \subseteq Seq(Operations)
        BY <1>6, PairedParts
    <1>10. /\ Paired(B) \subseteq Seq(B) /\ Seq(B) \subseteq Seq(Operations)
        BY <1>6, PairedParts
    <1>11. \A s, t \in Paired(BuildOps) : s \o t \in Paired(BuildOps)
        BY <1>6, PairedParts
    <1>12. A \cap C = {}
        BY OpsApart
    <1>. HIDE DEF created, n, f, a, b, A, B
    <1>13. a \in Paired(A)
        <2>1. f \in [1 .. n -> Paired(A)]
            BY <1>7 DEF f
        <2>2. InTurn(n, f) \in Paired(A)
            BY <1>2, <1>9, <2>1, InTurnJoined
        <2>. QED
            BY <2>2 DEF a
    <1>14. a \in Paired(BuildOps) /\ b \in Paired(BuildOps)
        BY <1>6, <1>8, <1>13, PairedIn
    <1>15. a \o b \in Paired(BuildOps)
        BY <1>11, <1>14
    <1>16. Tally(b, C) = some
        <2>1. b \in PairedOn("dp")
            BY <1>5, <1>8 DEF Paired
        <2>2. Tally(b, WaitsOn("dp")) = Tally(b, C)
            BY <2>1 DEF PairedOn, Equal
        <2>. QED
            BY <1>8, <2>2
    <1>17. Tally(a, C) = 0
        <2>1. a \in Seq(A)
            BY <1>9, <1>13
        <2>. QED
            BY <1>12, <2>1, TallyNone
    <1>18. Tally(a \o b, C) = Tally(a, C) + Tally(b, C)
        <2>1. a \in Seq(Operations) /\ b \in Seq(Operations)
            BY <1>8, <1>9, <1>10, <1>13
        <2>. QED
            BY <2>1, TallyConcat
    <1>19. \A s \in Ranks : ConstructOps(c, s) = ConstructOps(c, r)
        BY DEF ConstructOps, GroupsCreated
    <1>20. Tally(a \o b, C) = some
        BY <1>16, <1>17, <1>18
    <1>. QED
        BY <1>4, <1>6, <1>15, <1>19, <1>20

\* The last barrier is waited for at once.
LEMMA ShutdownPaired ==
    ASSUME NEW c
    PROVE  ShutdownOps(c) \in Paired(Ops("world", {"barrier"})) /\ Ops("world", {"barrier"}) \in SUBSET Operations
    <1>1. << >> \in Seq(Nat) /\ "world" \in Kinds /\ {"barrier"} \in SUBSET Names
          /\ "barrier" \in {"barrier"}
        BY DEF Kinds, Names
    <1>. DEFINE none == << >>
                N == {"barrier"}
                n == "barrier"
                k == "world"
    <1>. HIDE DEF none, N, n, k
    <1>2. Blocking(c, k, <<n, none>>) \in Paired(Ops(k, N))
        <2>1. none \in Seq(Nat) /\ k \in Kinds /\ N \in SUBSET Names /\ n \in N
            BY <1>1 DEF none, N, n, k
        <2>. QED
            BY <2>1, OneBlocking
    <1>3. Ops("world", {"barrier"}) \in SUBSET Operations
        BY <1>1, OpTypes
    <1>. QED
        BY <1>2, <1>3 DEF none, N, n, k, ShutdownOps

\* What a rank runs in a step, the construction and the shutdown included.
Program(c, r, n) ==
    IF n = 0 THEN ConstructOps(c, r) ELSE IF n <= NumSteps THEN StepOps(c, r) ELSE ShutdownOps(c)

\* The parts of a run: the construction, the training steps, the shutdown.
Started == 0 .. NumSteps + 1

\* The broadcasts, which may return early, on groups of some kinds.
Broadcasts(K) ==
    {e \in Operations : e.op = "call" /\ e.kind \in K /\ e.name[1] \in {"loss", "parameters"}}

\* What a rank may run but broadcasts.
Others(K) == Operations \ Broadcasts(K)

\* Broadcasts in fewer kinds of group.
LEMMA FewerBroadcasts ==
    ASSUME NEW K, NEW L, K \subseteq L
    PROVE  Broadcasts(K) \subseteq Broadcasts(L)
    BY DEF Broadcasts

\* Collectives of some kind and names are no broadcasts.
LEMMA OpsOthers ==
    ASSUME NEW j \in Kinds, NEW N \in SUBSET Names, NEW K,
           j \in K => N \cap {"loss", "parameters"} = {}
    PROVE  Ops(j, N) \subseteq Others(K)
    <1>1. Ops(j, N) \subseteq Operations
        BY OpTypes
    <1>2. ASSUME NEW e \in Ops(j, N), e \in Broadcasts(K) PROVE FALSE
        <2>1. e.op = "call" /\ e.kind \in K /\ e.name[1] \in {"loss", "parameters"}
            BY <1>2 DEF Broadcasts
        <2>2. e # Wait(j)
            BY <2>1 DEF Wait
        <2>3. PICK y \in N \X Seq(Nat) : e = Call(j, y)
            BY <2>2 DEF Ops
        <2>4. e.kind = j /\ e.name = y
            BY <2>3 DEF Call
        <2>5. y[1] \in N
            BY <2>3
        <2>. QED
            BY <2>1, <2>4, <2>5
    <1>. QED
        BY <1>1, <1>2 DEF Others

\* Messages and drains are outside every group.
LEMMA MovesOthers ==
    ASSUME NEW K
    PROVE  Moves \subseteq Others(K)
    <1>1. Moves \subseteq Operations
        BY OpTypes
    <1>2. ASSUME NEW e \in Moves, e \in Broadcasts(K) PROVE FALSE
        <2>1. e.op = "call"
            BY <1>2 DEF Broadcasts
        <2>2. e.op \in {"send", "recv", "drain"}
            BY DEF Moves, Send, Recv, Drain
        <2>. QED
            BY <2>1, <2>2
    <1>. QED
        BY <1>1, <1>2 DEF Others

\* Every program: each collective is called and then waited for; broadcasts
\* are on the pipeline's group, and in the construction.
LEMMA ProgramParts ==
    ASSUME NEW c \in Configs, NEW r \in Ranks, NEW n \in Nat
    PROVE  /\ Program(c, r, n) \in Paired(Operations)
           /\ Program(c, r, n) \in Seq(Operations)
           /\ Program(c, r, n) \in Seq(Others({"tp", "world"}))
           /\ n > 0 => Program(c, r, n) \in Seq(Others({"tp", "dp", "world"}))
    <1>. DEFINE K == {"tp", "world"}
                L == {"tp", "dp", "world"}
    <1>1. /\ "tp" \in Kinds /\ "dp" \in Kinds /\ "pp" \in Kinds /\ "world" \in Kinds
          /\ TpNames \in SUBSET Names /\ DpNames \in SUBSET Names
          /\ {"loss"} \in SUBSET Names /\ {"found_inf"} \in SUBSET Names
          /\ {"new_group"} \in SUBSET Names /\ {"parameters"} \in SUBSET Names
          /\ {"barrier"} \in SUBSET Names
        BY DEF Kinds, Names, TpNames, DpNames
    <1>2. /\ TpNames \cap {"loss", "parameters"} = {} /\ DpNames \cap {"loss", "parameters"} = {}
          /\ {"found_inf"} \cap {"loss", "parameters"} = {}
          /\ {"new_group"} \cap {"loss", "parameters"} = {}
          /\ {"barrier"} \cap {"loss", "parameters"} = {}
        BY DEF TpNames, DpNames
    <1>3. Others(L) \subseteq Others(K)
        <2>1. K \subseteq L
            OBVIOUS
        <2>. HIDE DEF K, L
        <2>2. Broadcasts(K) \subseteq Broadcasts(L)
            BY <2>1, FewerBroadcasts
        <2>. QED
            BY <2>2 DEF Others
    <1>4. TrainOps \subseteq Others(L)
        <2>1. TpOps \subseteq Others(L)
            BY <1>1, <1>2, OpsOthers DEF TpOps
        <2>2. DpOps \subseteq Others(L)
            BY <1>1, <1>2, OpsOthers DEF DpOps
        <2>3. Moves \subseteq Others(L)
            BY MovesOthers
        <2>4. LossOps \subseteq Others(L)
            <3>1. "pp" \notin L
                OBVIOUS
            <3>. QED
                BY <1>1, <3>1, OpsOthers DEF LossOps
        <2>5. ScalerOps \subseteq Others(L)
            BY <1>1, <1>2, OpsOthers DEF ScalerOps
        <2>. QED
            BY <2>1, <2>2, <2>3, <2>4, <2>5 DEF TrainOps, StageOps
    <1>5. BuildOps \subseteq Others(K)
        <2>1. Ops("world", {"new_group"}) \subseteq Others(K)
            BY <1>1, <1>2, OpsOthers
        <2>2. Ops("dp", {"parameters"}) \subseteq Others(K)
            <3>1. "dp" \notin K
                OBVIOUS
            <3>. QED
                BY <1>1, <3>1, OpsOthers
        <2>. QED
            BY <2>1, <2>2 DEF BuildOps
    <1>6. Ops("world", {"barrier"}) \subseteq Others(L)
        BY <1>1, <1>2, OpsOthers
    <1>. HIDE DEF K, L
    <1>7. CASE n = 0
        <2>1. Program(c, r, n) = ConstructOps(c, r)
            BY <1>7 DEF Program
        <2>2. ConstructOps(c, r) \in Paired(BuildOps) /\ BuildOps \in SUBSET Operations
            BY ConstructParts
        <2>3. ConstructOps(c, r) \in Paired(Operations)
            BY <2>2, PairedIn
        <2>4. ConstructOps(c, r) \in Seq(BuildOps)
            BY <2>2 DEF Paired
        <2>5. ConstructOps(c, r) \in Seq(Others(K)) /\ ConstructOps(c, r) \in Seq(Operations)
            BY <1>5, <2>2, <2>4, SeqMonotonic
        <2>. QED
            BY <1>7, <2>1, <2>3, <2>5 DEF K
    <1>8. CASE n # 0 /\ n <= NumSteps
        <2>1. Program(c, r, n) = StepOps(c, r)
            BY <1>8 DEF Program
        <2>2. StepOps(c, r) \in Paired(TrainOps) /\ TrainOps \in SUBSET Operations
            BY BackParts, TrainSets
        <2>3. StepOps(c, r) \in Paired(Operations)
            BY <2>2, PairedIn
        <2>4. StepOps(c, r) \in Seq(TrainOps)
            BY <2>2 DEF Paired
        <2>5. StepOps(c, r) \in Seq(Others(L)) /\ StepOps(c, r) \in Seq(Operations)
            BY <1>4, <2>2, <2>4, SeqMonotonic
        <2>6. StepOps(c, r) \in Seq(Others(K))
            BY <1>3, <2>5, SeqMonotonic
        <2>. QED
            BY <2>1, <2>3, <2>5, <2>6 DEF K, L
    <1>9. CASE n # 0 /\ ~(n <= NumSteps)
        <2>. DEFINE U == Ops("world", {"barrier"})
        <2>1. Program(c, r, n) = ShutdownOps(c)
            BY <1>9 DEF Program
        <2>2. ShutdownOps(c) \in Paired(U) /\ U \in SUBSET Operations
            BY ShutdownPaired
        <2>. HIDE DEF U
        <2>3. ShutdownOps(c) \in Paired(Operations)
            BY <2>2, PairedIn
        <2>4. ShutdownOps(c) \in Seq(U)
            BY <2>2 DEF Paired
        <2>5. ShutdownOps(c) \in Seq(Others(L)) /\ ShutdownOps(c) \in Seq(Operations)
            BY <1>6, <2>2, <2>4, SeqMonotonic DEF U
        <2>6. ShutdownOps(c) \in Seq(Others(K))
            BY <1>3, <2>5, SeqMonotonic
        <2>. QED
            BY <2>1, <2>3, <2>5, <2>6 DEF K, L
    <1>. QED
        BY <1>7, <1>8, <1>9

\* The messages of a program: of a training step M to and from each
\* neighbour, of construction and shutdown none.
LEMMA ProgramMessages ==
    ASSUME NEW c \in Configs, NEW r \in Ranks, NEW n \in Nat, n = 0 \/ n > NumSteps
    PROVE  \A p : Tally(Program(c, r, n), {Send(p)}) = 0 /\ Tally(Program(c, r, n), {Recv(p)}) = 0
    <1>. TAKE p
    <1>. DEFINE A == Ops("world", {"new_group"})
                B == Ops("dp", {"parameters"})
                D == Ops("world", {"barrier"})
    <1>1. /\ A \cap {Send(p)} = {} /\ A \cap {Recv(p)} = {} /\ B \cap {Send(p)} = {}
          /\ B \cap {Recv(p)} = {} /\ D \cap {Send(p)} = {} /\ D \cap {Recv(p)} = {}
        BY OpsApart
    <1>2. BuildOps = A \cup B
        BY DEF BuildOps
    <1>. HIDE DEF A, B, D
    <1>3. BuildOps \cap {Send(p)} = {} /\ BuildOps \cap {Recv(p)} = {}
        BY <1>1, <1>2
    <1>4. CASE n = 0
        <2>1. Program(c, r, n) \in Seq(BuildOps)
            <3>1. ConstructOps(c, r) \in Seq(BuildOps)
                BY ConstructParts DEF Paired
            <3>. QED
                BY <1>4, <3>1 DEF Program
        <2>. QED
            BY <1>3, <2>1, TallyNone
    <1>5. CASE n > NumSteps
        <2>1. Program(c, r, n) = ShutdownOps(c)
            <3>1. NumSteps \in Nat
                BY TrainStepAssumption
            <3>2. n # 0 /\ ~(n <= NumSteps)
                BY <1>5, <3>1
            <3>. QED
                BY <3>2 DEF Program
        <2>2. ShutdownOps(c) \in Seq(D)
            BY ShutdownPaired DEF Paired, D
        <2>. QED
            BY <1>1, <2>1, <2>2, TallyNone
    <1>. QED
        BY <1>4, <1>5

-----------------------------------------------------------------------------
(* The programs of the members of a group call the same collectives on it. *)

\* A stage's passes and the flush depend on the stage alone.
LEMMA SameStage ==
    ASSUME NEW c \in Configs, NEW r \in Ranks, NEW s \in Ranks,
           CoordOf(c.shape, s).pp = CoordOf(c.shape, r).pp
    PROVE  /\ ForwardOps(c, s) = ForwardOps(c, r)
           /\ \A b : BackwardOps(c, s, b) = BackwardOps(c, r, b)
           /\ Back(c, s) = Back(c, r)
           /\ \A k : IsForward(c, s, k) = IsForward(c, r, k)
    <1>1. Model(c, s) = Model(c, r)
        BY DEF Model
    <1>2. IsLastStage(c.shape, s) = IsLastStage(c.shape, r)
        BY DEF IsLastStage
    <1>3. ForwardOps(c, s) = ForwardOps(c, r)
        BY <1>1, <1>2 DEF ForwardOps
    <1>4. \A b : BackwardOps(c, s, b) = BackwardOps(c, r, b)
        BY <1>1 DEF BackwardOps
    <1>5. BroadcastLoss(c, s) = BroadcastLoss(c, r)
        BY DEF BroadcastLoss
    <1>6. PlainBack(c, s) = PlainBack(c, r)
        BY <1>4 DEF PlainBack
    <1>7. Back(c, s) = Back(c, r)
        BY <1>5, <1>6 DEF Back
    <1>8. Warmup(c, s) = Warmup(c, r)
        BY DEF Warmup
    <1>9. \A k : IsForward(c, s, k) = IsForward(c, r, k)
        <2>. TAKE k
        <2>. QED
            BY <1>8 DEF IsForward
    <1>. QED
        BY <1>3, <1>4, <1>7, <1>9

\* So their schedules make the same calls, in the same order.
LEMMA SameScheduleCalls ==
    ASSUME NEW c \in Configs, NEW r \in Ranks, NEW s \in Ranks,
           CoordOf(c.shape, s).pp = CoordOf(c.shape, r).pp, NEW k
    PROVE  Only(ScheduleStep(c, s), CallsOn(k)) = Only(ScheduleStep(c, r), CallsOn(k))
    <1>. DEFINE n == 2 * M
                C == CallsOn(k)
                f(q) == Turn(c, q, ForwardOne(c, q), BackwardOne(c, q))
                d == <<Drain>>
    <1>1. n \in Nat
        BY TrainStepAssumption
    <1>2. Only(d, C) = << >> /\ d \in Seq(Operations)
        BY DrainPlain, OpSets, PairedParts DEF StageOps
    <1>3. ASSUME NEW q \in Ranks
          PROVE  /\ f(q) \in [1 .. n -> Seq(Operations)]
                 /\ Only(ForwardOne(c, q), C) = Only(ForwardOps(c, q), C)
                 /\ Only(BackwardOne(c, q), C) = Only(BackwardOps(c, q, FALSE), C)
        <2>1. ForwardOne(c, q) \in Seq(Operations) /\ BackwardOne(c, q) \in Seq(Operations)
            <3>1. ForwardOne(c, q) \in Paired(StageOps) /\ BackwardOne(c, q) \in Paired(StageOps)
                BY ForwardOneParts, BackwardOneParts
            <3>. QED
                BY <3>1, OpSets, PairedParts DEF StageOps
        <2>2. f(q) \in [1 .. n -> Seq(Operations)]
            BY <2>1 DEF Turn
        <2>3. Only(ForwardOne(c, q), C) = Only(ForwardOps(c, q), C)
            BY ForwardOneParts
        <2>4. Only(BackwardOne(c, q), C) = Only(BackwardOps(c, q, FALSE), C)
            BY BackwardOneParts
        <2>. QED
            BY <2>2, <2>3, <2>4
    <1>4. OnlyOf(n, f(s), C) = OnlyOf(n, f(r), C)
        <2>1. /\ ForwardOps(c, s) = ForwardOps(c, r)
              /\ BackwardOps(c, s, FALSE) = BackwardOps(c, r, FALSE)
              /\ \A i : IsForward(c, s, i) = IsForward(c, r, i)
            BY SameStage
        <2>2. ASSUME NEW i \in 1 .. n
              PROVE  Only(f(s)[i], C) = Only(f(r)[i], C)
            <3>1. /\ f(s)[i] = IF IsForward(c, s, i) THEN ForwardOne(c, s) ELSE BackwardOne(c, s)
                  /\ f(r)[i] = IF IsForward(c, r, i) THEN ForwardOne(c, r) ELSE BackwardOne(c, r)
                BY DEF Turn
            <3>. QED
                BY <1>3, <2>1, <3>1
        <2>. QED
            BY <2>2 DEF OnlyOf
    <1>5. ASSUME NEW q \in Ranks
          PROVE  Only(ScheduleStep(c, q), C) = FlattenSeq(OnlyOf(n, f(q), C)) \o << >>
        <2>. DEFINE u == InTurn(n, f(q))
        <2>1. ScheduleStep(c, q) = u \o d
            BY ScheduleIs DEF Passes
        <2>2. u \in Seq(Operations)
            BY <1>1, <1>3, InTurnType
        <2>3. Only(u, C) = FlattenSeq(OnlyOf(n, f(q), C))
            BY <1>1, <1>3, InTurnOnly
        <2>. HIDE DEF u, d
        <2>4. Only(u \o d, C) = Only(u, C) \o Only(d, C)
            BY <1>2, <2>2, OnlyConcat
        <2>. QED
            BY <1>2, <2>1, <2>3, <2>4
    <1>. QED
        BY <1>4, <1>5

\* On the other groups, a step makes the calls that stand behind its front.
LEMMA FrontSilent ==
    ASSUME NEW c \in Configs, NEW r \in Ranks, NEW k \in {"pp", "world"}
    PROVE  Only(Fore(c, r), CallsOn(k)) = << >>
    <1>1. TpOps \cap CallsOn(k) = {} /\ DpOps \cap CallsOn(k) = {} /\ Moves \cap CallsOn(k) = {}
        BY OpsApart, MovesApart DEF TpOps, DpOps
    <1>2. StageOps \cap CallsOn(k) = {}
        BY <1>1 DEF StageOps
    <1>3. Fore(c, r) \in Seq(StageOps)
        <2>1. CASE c.shape.pp > 1
            <3>1. ScheduleStep(c, r) \in Paired(StageOps)
                BY ScheduleParts
            <3>. QED
                BY <2>1, <3>1 DEF Fore, Paired
        <2>2. CASE ~(c.shape.pp > 1)
            <3>1. ForwardOps(c, r) \in Paired(TpOps \cup DpOps)
                BY ForwardPaired
            <3>2. ForwardOps(c, r) \in Seq(TpOps \cup DpOps)
                BY <3>1 DEF Paired
            <3>3. TpOps \cup DpOps \subseteq StageOps
                BY DEF StageOps
            <3>4. ForwardOps(c, r) \in Seq(StageOps)
                BY <3>2, <3>3, SeqMonotonic
            <3>. QED
                BY <2>2, <3>4 DEF Fore
        <2>. QED
            BY <2>1, <2>2
    <1>. QED
        BY <1>2, <1>3, OnlyNone

\* Two ranks of a group: the same stage, or the same calls behind the front.
LEMMA SameStepCalls ==
    ASSUME NEW c \in Configs, NEW r \in Ranks, NEW s \in Ranks, NEW k \in Kinds,
           k \in {"tp", "dp"} => CoordOf(c.shape, s).pp = CoordOf(c.shape, r).pp
    PROVE  Only(StepOps(c, s), CallsOn(k)) = Only(StepOps(c, r), CallsOn(k))
    <1>. DEFINE C == CallsOn(k)
    <1>1. ASSUME NEW q \in Ranks
          PROVE  /\ Only(StepOps(c, q), C) = Only(Fore(c, q), C) \o Only(Back(c, q), C)
                 /\ Fore(c, q) \in Seq(Operations) /\ Back(c, q) \in Seq(Operations)
        <2>1. /\ StepOps(c, q) = Fore(c, q) \o Back(c, q)
              /\ Fore(c, q) \in Seq(TrainOps)
              /\ Back(c, q) \in Seq(TpOps \cup DpOps \cup LossOps \cup ScalerOps)
            BY BackParts
        <2>2. TrainOps \subseteq Operations /\ TpOps \cup DpOps \cup LossOps \cup ScalerOps \subseteq Operations
            BY TrainSets
        <2>3. Fore(c, q) \in Seq(Operations) /\ Back(c, q) \in Seq(Operations)
            BY <2>1, <2>2, SeqMonotonic
        <2>. QED
            BY <2>1, <2>3, OnlyConcat
    <1>2. CASE CoordOf(c.shape, s).pp = CoordOf(c.shape, r).pp
        <2>1. Back(c, s) = Back(c, r)
            BY <1>2, SameStage
        <2>2. Only(Fore(c, s), C) = Only(Fore(c, r), C)
            <3>1. CASE c.shape.pp > 1
                <4>1. Fore(c, s) = ScheduleStep(c, s) /\ Fore(c, r) = ScheduleStep(c, r)
                    BY <3>1 DEF Fore
                <4>2. Only(ScheduleStep(c, s), C) = Only(ScheduleStep(c, r), C)
                    BY <1>2, SameScheduleCalls
                <4>. QED
                    BY <4>1, <4>2
            <3>2. CASE ~(c.shape.pp > 1)
                <4>1. Fore(c, s) = ForwardOps(c, s) /\ Fore(c, r) = ForwardOps(c, r)
                    BY <3>2 DEF Fore
                <4>2. ForwardOps(c, s) = ForwardOps(c, r)
                    BY <1>2, SameStage
                <4>. QED
                    BY <4>1, <4>2
            <3>. QED
                BY <3>1, <3>2
        <2>. QED
            BY <1>1, <2>1, <2>2
    <1>3. CASE k \in {"pp", "world"}
        <2>1. Only(Fore(c, s), C) = << >> /\ Only(Fore(c, r), C) = << >>
            BY <1>3, FrontSilent
        <2>2. Only(Back(c, s), C) = Only(Back(c, r), C)
            <3>1. CASE c.shape.pp > 1
                BY <3>1 DEF Back, BroadcastLoss
            <3>2. CASE ~(c.shape.pp > 1)
                <4>1. c.shape.pp = 1
                    BY <3>2, ShapeOf
                <4>2. ASSUME NEW q \in Ranks
                      PROVE  Only(Back(c, q), C) = << >> \o Only(ScalerStep(c), C)
                    <5>. DEFINE x == PlainBack(c, q)
                                z == ScalerStep(c)
                    <5>1. Back(c, q) = x \o z
                        BY <3>2 DEF Back
                    <5>2. x \in Seq(TpOps \cup DpOps)
                        BY <4>1, PlainPaired
                    <5>3. (TpOps \cup DpOps) \cap C = {}
                        BY <1>3, OpsApart DEF TpOps, DpOps
                    <5>4. x \in Seq(Operations)
                        BY <5>2, OpSets, SeqMonotonic
                    <5>5. z \in Seq(Operations)
                        <6>1. z \in Seq(ScalerOps)
                            BY ScalerPaired DEF Paired
                        <6>2. ScalerOps \subseteq Operations
                            BY TrainSets
                        <6>. QED
                            BY <6>1, <6>2, SeqMonotonic
                    <5>. HIDE DEF x, z
                    <5>6. Only(x, C) = << >>
                        <6>. DEFINE U == TpOps \cup DpOps
                        <6>1. x \in Seq(U) /\ U \cap C = {}
                            BY <5>2, <5>3
                        <6>. HIDE DEF U
                        <6>. QED
                            BY <6>1, OnlyNone
                    <5>7. Only(x \o z, C) = Only(x, C) \o Only(z, C)
                        BY <5>4, <5>5, OnlyConcat
                    <5>. QED
                        BY <5>1, <5>6, <5>7 DEF z
                <4>. QED
                    BY <4>2
            <3>. QED
                BY <3>1, <3>2
        <2>. QED
            BY <1>1, <2>1, <2>2
    <1>. QED
        BY <1>2, <1>3 DEF Kinds

\* Two ranks of one group call the same collectives on it in every part of a run;
\* in tensor- and data-parallel groups these are the ranks of one stage.
LEMMA SameProgramCalls ==
    ASSUME NEW c \in Configs, NEW r \in Ranks, NEW s \in Ranks, NEW k \in Kinds, NEW n \in Nat,
           k \in {"tp", "dp"} => CoordOf(c.shape, s).pp = CoordOf(c.shape, r).pp
    PROVE  Only(Program(c, s, n), CallsOn(k)) = Only(Program(c, r, n), CallsOn(k))
    <1>1. CASE n = 0
        <2>1. ConstructOps(c, s) = ConstructOps(c, r)
            BY ConstructParts
        <2>. QED
            BY <1>1, <2>1 DEF Program
    <1>2. CASE n # 0 /\ n <= NumSteps
        <2>1. Only(StepOps(c, s), CallsOn(k)) = Only(StepOps(c, r), CallsOn(k))
            BY SameStepCalls
        <2>2. Program(c, s, n) = StepOps(c, s) /\ Program(c, r, n) = StepOps(c, r)
            BY <1>2 DEF Program
        <2>. QED
            BY <2>1, <2>2
    <1>3. CASE n # 0 /\ ~(n <= NumSteps)
        BY <1>3 DEF Program
    <1>. QED
        BY <1>1, <1>2, <1>3

-----------------------------------------------------------------------------
(* All that a rank has run before a step. *)

\* The first n parts of a rank's run.
Programs(c, r, n) == [i \in 1 .. n |-> Program(c, r, i - 1)]

\* All operations of a rank before part n.
Before(c, r, n) == InTurn(n, Programs(c, r, n))

\* The parts of a run are operations.
LEMMA ProgramsType ==
    ASSUME NEW c \in Configs, NEW r \in Ranks, NEW n \in Nat
    PROVE  Programs(c, r, n) \in [1 .. n -> Seq(Operations)]
    <1>1. ASSUME NEW i \in 1 .. n PROVE Program(c, r, i - 1) \in Seq(Operations)
        <2>1. i - 1 \in Nat
            OBVIOUS
        <2>. QED
            BY <2>1, ProgramParts
    <1>. QED
        BY <1>1 DEF Programs

\* One more part comes after the parts before it.
LEMMA BeforeStep ==
    ASSUME NEW c \in Configs, NEW r \in Ranks
    PROVE  /\ Before(c, r, 0) = << >>
           /\ \A n \in Nat : Before(c, r, n + 1) = Before(c, r, n) \o Program(c, r, n)
           /\ \A n \in Nat : Before(c, r, n) \in Seq(Operations)
    <1>1. ASSUME NEW n \in Nat
          PROVE  /\ FirstOf(Programs(c, r, n + 1), n) = Programs(c, r, n)
                 /\ FirstOf(Programs(c, r, n + 1), n + 1) = Programs(c, r, n + 1)
                 /\ Programs(c, r, n + 1)[n + 1] = Program(c, r, n)
        <2>1. (n + 1) - 1 = n /\ n + 1 \in 1 .. n + 1
            OBVIOUS
        <2>2. Programs(c, r, n + 1)[n + 1] = Program(c, r, n)
            BY <2>1 DEF Programs
        <2>3. \A i \in 1 .. n : Programs(c, r, n + 1)[i] = Programs(c, r, n)[i]
            BY DEF Programs
        <2>. QED
            BY <2>2, <2>3 DEF Programs, FirstOf
    <1>2. Before(c, r, 0) = << >>
        <2>1. FirstOf(Programs(c, r, 0), 0) = Programs(c, r, 0)
            BY DEF FirstOf, Programs
        <2>. DEFINE f == Programs(c, r, 0)
        <2>2. InTurn(0, FirstOf(f, 0)) = << >>
            BY InTurnNone
        <2>. QED
            BY <2>1, <2>2 DEF Before
    <1>3. ASSUME NEW n \in Nat
          PROVE  /\ Before(c, r, n + 1) = Before(c, r, n) \o Program(c, r, n)
                 /\ Before(c, r, n) \in Seq(Operations)
        <2>. DEFINE m == n + 1
                    f == Programs(c, r, m)
        <2>1. m \in Nat /\ n \in 0 .. m - 1
            OBVIOUS
        <2>2. f \in [1 .. m -> Seq(Operations)]
            BY <2>1, ProgramsType
        <2>. HIDE DEF m
        <2>. HIDE DEF f
        <2>3. /\ InTurn(n + 1, FirstOf(f, n + 1)) = InTurn(n, FirstOf(f, n)) \o f[n + 1]
              /\ InTurn(n, FirstOf(f, n)) \in Seq(Operations)
              /\ f[n + 1] \in Seq(Operations)
            BY <2>1, <2>2, InTurnLast, Zenon
        <2>. QED
            BY <1>1, <2>3 DEF Before, f, m
    <1>. QED
        BY <1>2, <1>3

\* What all programs are in, what came before is in.
LEMMA BeforeJoined ==
    ASSUME NEW c \in Configs, NEW r \in Ranks, NEW T \in Joined(Operations),
           \A i \in Nat : Program(c, r, i) \in T
    PROVE  \A n \in Nat : Before(c, r, n) \in T
    <1>. DEFINE Good == {n \in Nat : Before(c, r, n) \in T}
    <1>1. 0 \in Good
        BY BeforeStep DEF Joined
    <1>2. ASSUME NEW n \in Nat, n \in Good PROVE n + 1 \in Good
        <2>1. Before(c, r, n + 1) = Before(c, r, n) \o Program(c, r, n)
            BY BeforeStep
        <2>. DEFINE x == Before(c, r, n)
                    y == Program(c, r, n)
        <2>2. x \in T /\ y \in T
            BY <1>2
        <2>. HIDE DEF x, y
        <2>3. x \o y \in T
            BY <2>2 DEF Joined
        <2>4. Before(c, r, n + 1) \in T
            BY <2>1, <2>3 DEF x, y
        <2>. QED
            BY <2>4
    <1>3. Good = Nat
        <2>1. Good \in SUBSET Nat
            OBVIOUS
        <2>. HIDE DEF Good
        <2>. QED
            BY <1>1, <1>2, <2>1, SetInduction
    <1>. QED
        BY <1>3

\* The members of a group call the same before each step.
LEMMA SameCallsBefore ==
    ASSUME NEW c \in Configs, NEW r \in Ranks, NEW s \in Ranks, NEW k \in Kinds,
           k \in {"tp", "dp"} => CoordOf(c.shape, s).pp = CoordOf(c.shape, r).pp
    PROVE  \A n \in Nat : Only(Before(c, s, n), CallsOn(k)) = Only(Before(c, r, n), CallsOn(k))
    <1>. DEFINE C == CallsOn(k)
                Good == {n \in Nat : Only(Before(c, s, n), C) = Only(Before(c, r, n), C)}
    <1>1. 0 \in Good
        BY BeforeStep
    <1>2. ASSUME NEW n \in Nat, n \in Good PROVE n + 1 \in Good
        <2>1. ASSUME NEW q \in Ranks
              PROVE  Only(Before(c, q, n + 1), C) = Only(Before(c, q, n), C) \o Only(Program(c, q, n), C)
            <3>1. /\ Before(c, q, n + 1) = Before(c, q, n) \o Program(c, q, n)
                  /\ Before(c, q, n) \in Seq(Operations)
                BY BeforeStep
            <3>2. Program(c, q, n) \in Seq(Operations)
                BY ProgramParts
            <3>. QED
                BY <3>1, <3>2, OnlyConcat
        <2>2. Only(Program(c, s, n), C) = Only(Program(c, r, n), C)
            BY SameProgramCalls
        <2>3. Only(Before(c, s, n), C) = Only(Before(c, r, n), C)
            BY <1>2
        <2>4. Only(Before(c, s, n + 1), C) = Only(Before(c, r, n + 1), C)
            BY <2>1, <2>2, <2>3
        <2>. QED
            BY <2>4
    <1>3. Good = Nat
        <2>1. Good \in SUBSET Nat
            OBVIOUS
        <2>. HIDE DEF Good
        <2>. QED
            BY <1>1, <1>2, <2>1, SetInduction
    <1>. QED
        BY <1>3

-----------------------------------------------------------------------------
(* How often a rank has done something before a step. *)

\* The tallies of the parts add up.
LEMMA BeforeCount ==
    ASSUME NEW c \in Configs, NEW r \in Ranks, NEW R
    PROVE  /\ Tally(Before(c, r, 0), R) = 0
           /\ \A n \in Nat : /\ Tally(Before(c, r, n), R) \in Nat
                             /\ Tally(Program(c, r, n), R) \in Nat
                             /\ Tally(Before(c, r, n + 1), R)
                                   = Tally(Before(c, r, n), R) + Tally(Program(c, r, n), R)
    <1>1. Tally(Before(c, r, 0), R) = 0
        BY BeforeStep, TallyEmpty
    <1>2. ASSUME NEW n \in Nat
          PROVE  /\ Tally(Before(c, r, n), R) \in Nat
                 /\ Tally(Program(c, r, n), R) \in Nat
                 /\ Tally(Before(c, r, n + 1), R)
                       = Tally(Before(c, r, n), R) + Tally(Program(c, r, n), R)
        <2>. DEFINE x == Before(c, r, n)
                    y == Program(c, r, n)
        <2>1. x \in Seq(Operations) /\ Before(c, r, n + 1) = x \o y
            BY BeforeStep
        <2>2. y \in Seq(Operations)
            BY ProgramParts
        <2>. HIDE DEF x, y
        <2>3. Tally(x \o y, R) = Tally(x, R) + Tally(y, R)
            BY <2>1, <2>2, TallyConcat
        <2>4. Tally(x, R) \in Nat /\ Tally(y, R) \in Nat
            BY <2>1, <2>2, TallyType
        <2>. QED
            BY <2>1, <2>3, <2>4 DEF x, y
    <1>. QED
        BY <1>1, <1>2

\* More parts tally no less.
LEMMA BeforeGrows ==
    ASSUME NEW c \in Configs, NEW r \in Ranks, NEW R, NEW m \in Nat, NEW n \in Nat, m <= n
    PROVE  Tally(Before(c, r, m), R) <= Tally(Before(c, r, n), R)
    <1>. DEFINE B(i) == Tally(Before(c, r, i), R)
                Good == {i \in Nat : B(m) <= B(m + i)}
    <1>1. \A i \in Nat : B(i) \in Nat /\ B(i) <= B(i + 1)
        <2>. TAKE i \in Nat
        <2>. DEFINE p == Tally(Program(c, r, i), R)
        <2>1. B(i) \in Nat /\ p \in Nat /\ B(i + 1) = B(i) + p
            BY BeforeCount
        <2>. HIDE DEF B, p
        <2>. QED
            BY <2>1
    <1>. HIDE DEF B
    <1>2. 0 \in Good
        <2>1. m + 0 = m
            OBVIOUS
        <2>. QED
            BY <1>1, <2>1
    <1>3. ASSUME NEW i \in Nat, i \in Good PROVE i + 1 \in Good
        <2>. DEFINE j == m + i
        <2>1. j \in Nat /\ m + (i + 1) = j + 1
            OBVIOUS
        <2>2. B(m) <= B(j)
            BY <1>3
        <2>. HIDE DEF j
        <2>3. B(j) <= B(j + 1) /\ B(m) \in Nat /\ B(j) \in Nat /\ B(j + 1) \in Nat
            BY <1>1, <2>1
        <2>4. B(m) <= B(j + 1)
            BY <2>2, <2>3
        <2>5. B(m) <= B(m + (i + 1))
            BY <2>1, <2>4
        <2>. QED
            BY <2>5
    <1>4. Good = Nat
        <2>1. Good \in SUBSET Nat
            OBVIOUS
        <2>. HIDE DEF Good
        <2>. QED
            BY <1>2, <1>3, <2>1, SetInduction
    <1>5. n - m \in Nat /\ m + (n - m) = n
        OBVIOUS
    <1>6. B(m) <= B(m + (n - m))
        <2>. DEFINE i == n - m
        <2>. HIDE DEF i
        <2>1. i \in Good
            BY <1>4, <1>5 DEF i
        <2>2. B(m) <= B(m + i)
            BY <2>1
        <2>. QED
            BY <2>2 DEF i
    <1>. QED
        BY <1>5, <1>6 DEF B

\* Neighbours: M messages each way in each training step.
LEMMA BeforeMessages ==
    ASSUME NEW c \in Configs, NEW r \in Ranks, NEW p,
           \/ ~IsFirstStage(c.shape, r) /\ p = Prev(c.shape, r)
           \/ ~IsLastStage(c.shape, r) /\ p = Succ(c.shape, r)
    PROVE  /\ \A n \in 1 .. NumSteps : /\ Tally(Program(c, r, n), {Send(p)}) = M
                                       /\ Tally(Program(c, r, n), {Recv(p)}) = M
           /\ \A n \in 1 .. NumSteps + 1 : /\ Tally(Before(c, r, n), {Send(p)}) = (n - 1) * M
                                           /\ Tally(Before(c, r, n), {Recv(p)}) = (n - 1) * M
    <1>1. M \in Nat /\ NumSteps \in Nat
        BY TrainStepAssumption
    <1>2. ASSUME NEW n \in 1 .. NumSteps
          PROVE  Tally(Program(c, r, n), {Send(p)}) = M /\ Tally(Program(c, r, n), {Recv(p)}) = M
        <2>1. Program(c, r, n) = StepOps(c, r)
            BY <1>1 DEF Program
        <2>. DEFINE s == StepOps(c, r)
                    first == IsFirstStage(c.shape, r)
                    last == IsLastStage(c.shape, r)
                    prev == Prev(c.shape, r)
                    succ == Succ(c.shape, r)
        <2>2. /\ Tally(s, {Recv(p)})
                    = (IF ~first /\ p = prev THEN M ELSE 0) + (IF ~last /\ p = succ THEN M ELSE 0)
              /\ Tally(s, {Send(p)})
                    = (IF ~last /\ p = succ THEN M ELSE 0) + (IF ~first /\ p = prev THEN M ELSE 0)
            BY StepParts
        <2>3. ~first /\ ~last => prev # succ
            BY TwoNeighbours
        <2>4. \/ ~first /\ p = prev
              \/ ~last /\ p = succ
            OBVIOUS
        <2>. HIDE DEF s, first, last, prev, succ
        <2>5. Tally(s, {Recv(p)}) = M /\ Tally(s, {Send(p)}) = M
            BY <1>1, <2>2, <2>3, <2>4
        <2>. QED
            BY <2>1, <2>5 DEF s
    <1>3. ASSUME NEW R, Tally(Program(c, r, 0), R) = 0,
                 \A n \in 1 .. NumSteps : Tally(Program(c, r, n), R) = M
          PROVE  \A n \in 1 .. NumSteps + 1 : Tally(Before(c, r, n), R) = (n - 1) * M
        <2>. DEFINE B(i) == Tally(Before(c, r, i), R)
                    Good == {i \in 0 .. NumSteps : B(i + 1) = i * M}
        <2>1. \A n \in Nat : /\ B(n) \in Nat
                             /\ B(n + 1) = B(n) + Tally(Program(c, r, n), R)
            BY BeforeCount
        <2>2. B(0) = 0
            BY BeforeCount
        <2>. HIDE DEF B
        <2>3. 0 \in Good
            <3>1. B(0 + 1) = 0 + 0
                BY <1>3, <2>1, <2>2
            <3>. QED
                BY <1>1, <3>1
        <2>4. ASSUME NEW i \in 0 .. NumSteps - 1, i \in Good
              PROVE  i + 1 \in Good
            <3>1. i + 1 \in 1 .. NumSteps /\ i + 1 \in Nat /\ i + 1 \in 0 .. NumSteps
                BY <1>1
            <3>. DEFINE j == i + 1
            <3>2. B(j) = i * M
                BY <2>4
            <3>. HIDE DEF j
            <3>3. B(j + 1) = B(j) + Tally(Program(c, r, j), R) /\ Tally(Program(c, r, j), R) = M
                BY <1>3, <2>1, <3>1 DEF j
            <3>4. j * M = i * M + M
                BY <1>1 DEF j
            <3>5. B(j + 1) = j * M
                BY <3>2, <3>3, <3>4
            <3>. QED
                BY <3>1, <3>5 DEF j
        <2>5. \A i \in 0 .. NumSteps : i \in Good
            <3>. HIDE DEF Good
            <3>. QED
                BY <1>1, <2>3, <2>4, InductionTo
        <2>6. ASSUME NEW n \in 1 .. NumSteps + 1 PROVE B(n) = (n - 1) * M
            <3>. DEFINE i == n - 1
            <3>1. i \in 0 .. NumSteps /\ i + 1 = n
                BY <1>1
            <3>. HIDE DEF i
            <3>2. B(i + 1) = i * M
                BY <2>5, <3>1
            <3>3. B(n) = i * M
                BY <3>1, <3>2
            <3>. QED
                BY <3>3 DEF i
        <2>. QED
            BY <2>6 DEF B
    <1>4. Tally(Program(c, r, 0), {Send(p)}) = 0 /\ Tally(Program(c, r, 0), {Recv(p)}) = 0
        BY ProgramMessages
    <1>5. \A n \in 1 .. NumSteps + 1 : Tally(Before(c, r, n), {Send(p)}) = (n - 1) * M
        BY <1>2, <1>3, <1>4
    <1>6. \A n \in 1 .. NumSteps + 1 : Tally(Before(c, r, n), {Recv(p)}) = (n - 1) * M
        BY <1>2, <1>3, <1>4
    <1>. QED
        BY <1>2, <1>5, <1>6

\* Before a step, every call has been waited for; no broadcast stands on the
\* tensor-parallel groups and the world; and no gradient has been sent back
\* to the stage before that its activation had not come from.
LEMMA BeforeOrders ==
    ASSUME NEW c \in Configs, NEW r \in Ranks
    PROVE  \A n \in Nat :
              /\ \A k \in Kinds : Before(c, r, n) \in PairedOn(k)
              /\ Before(c, r, n) \in Seq(Others({"tp", "world"}))
              /\ ~IsFirstStage(c.shape, r)
                    => Before(c, r, n) \in Leading(Operations, {Send(Prev(c.shape, r))}, {Recv(Prev(c.shape, r))})
    <1>1. ASSUME NEW k \in Kinds PROVE \A n \in Nat : Before(c, r, n) \in PairedOn(k)
        <2>1. \A i \in Nat : Program(c, r, i) \in PairedOn(k)
            BY ProgramParts DEF Paired
        <2>. QED
            BY <2>1, PairedJoined, BeforeJoined
    <1>2. \A n \in Nat : Before(c, r, n) \in Seq(Others({"tp", "world"}))
        <2>. DEFINE U == Others({"tp", "world"})
        <2>1. \A i \in Nat : Program(c, r, i) \in Seq(U)
            BY ProgramParts
        <2>2. U \subseteq Operations
            BY DEF Others
        <2>. HIDE DEF U
        <2>3. Seq(U) \in Joined(Operations)
            BY <2>2, SeqJoined
        <2>4. \A n \in Nat : Before(c, r, n) \in Seq(U)
            BY <2>1, <2>3, BeforeJoined
        <2>. QED
            BY <2>4 DEF U
    <1>3. ASSUME ~IsFirstStage(c.shape, r)
          PROVE  \A n \in Nat :
                    Before(c, r, n) \in Leading(Operations, {Send(Prev(c.shape, r))}, {Recv(Prev(c.shape, r))})
        <2>. DEFINE q == Prev(c.shape, r)
                    L == Leading(Operations, {Send(q)}, {Recv(q)})
        <2>1. L \in Joined(Operations)
            BY LeadingJoined
        <2>2. ASSUME NEW i \in Nat PROVE Program(c, r, i) \in L
            <3>1. CASE i = 0 \/ i > NumSteps
                <4>1. Tally(Program(c, r, i), {Send(q)}) = 0
                    BY <3>1, ProgramMessages
                <4>2. Program(c, r, i) \in Seq(Operations)
                    BY ProgramParts
                <4>. QED
                    BY <4>1, <4>2, LeadingNone
            <3>2. CASE ~(i = 0 \/ i > NumSteps)
                <4>1. Program(c, r, i) = StepOps(c, r)
                    <5>1. NumSteps \in Nat
                        BY TrainStepAssumption
                    <5>2. i # 0 /\ i <= NumSteps
                        BY <3>2, <5>1
                    <5>. QED
                        BY <5>2 DEF Program
                <4>2. StepOps(c, r) \in L
                    BY <1>3, StepParts
                <4>. QED
                    BY <4>1, <4>2
            <3>. QED
                BY <3>1, <3>2
        <2>. HIDE DEF L
        <2>3. \A n \in Nat : Before(c, r, n) \in L
            BY <2>1, <2>2, BeforeJoined
        <2>. QED
            BY <2>3 DEF L
    <1>. QED
        BY <1>1, <1>2, <1>3

-----------------------------------------------------------------------------
(* A rank in the middle of a step. *)

\* d of program n is done, t of it is left.
Within(c, r, n, d, t) ==
    n \in Nat /\ d \in Seq(Operations) /\ t \in Seq(Operations) /\ d \o t = Program(c, r, n)

\* The operations of a rank that is in part n and has done d of it.
Run(c, r, n, d) == Before(c, r, n) \o d

\* The tallies of a run that has done d of part n and has t to do.
LEMMA RunCount ==
    ASSUME NEW c \in Configs, NEW r \in Ranks, NEW n, NEW d, NEW t, Within(c, r, n, d, t), NEW R
    PROVE  /\ Run(c, r, n, d) \in Seq(Operations)
           /\ Run(c, r, n, d) \o t = Before(c, r, n + 1)
           /\ Tally(d, R) \in Nat /\ Tally(t, R) \in Nat /\ Tally(Before(c, r, n), R) \in Nat
           /\ Tally(Run(c, r, n, d), R) = Tally(Before(c, r, n), R) + Tally(d, R)
           /\ Tally(Program(c, r, n), R) = Tally(d, R) + Tally(t, R)
           /\ Tally(Before(c, r, n + 1), R) = Tally(Before(c, r, n), R) + Tally(d, R) + Tally(t, R)
    <1>. DEFINE b == Before(c, r, n)
    <1>1. n \in Nat /\ d \in Seq(Operations) /\ t \in Seq(Operations) /\ d \o t = Program(c, r, n)
        BY DEF Within
    <1>2. b \in Seq(Operations) /\ Before(c, r, n + 1) = b \o (d \o t)
        BY <1>1, BeforeStep
    <1>. HIDE DEF b
    <1>3. (b \o d) \o t = b \o (d \o t)
        <2>1. b \in Seq(Operations) /\ d \in Seq(Operations) /\ t \in Seq(Operations)
            BY <1>1, <1>2
        <2>. QED
            BY <2>1, ConcatAssociative
    <1>4. b \o d \in Seq(Operations)
        BY <1>1, <1>2
    <1>5. Tally(b \o d, R) = Tally(b, R) + Tally(d, R)
        BY <1>1, <1>2, TallyConcat
    <1>6. Tally(d \o t, R) = Tally(d, R) + Tally(t, R)
        BY <1>1, TallyConcat
    <1>7. Tally(d, R) \in Nat /\ Tally(t, R) \in Nat /\ Tally(b, R) \in Nat
        BY <1>1, <1>2, TallyType
    <1>8. Tally(Before(c, r, n + 1), R) = Tally(b, R) + Tally(Program(c, r, n), R)
        BY <1>1, BeforeCount DEF b
    <1>9. Tally(Before(c, r, n + 1), R) = Tally(b, R) + Tally(d, R) + Tally(t, R)
        BY <1>1, <1>6, <1>7, <1>8
    <1>. QED
        BY <1>1, <1>2, <1>3, <1>4, <1>5, <1>6, <1>7, <1>9 DEF b, Run

\* Who has done something more often than before step j is in it, or beyond.
LEMMA Reached ==
    ASSUME NEW c \in Configs, NEW r \in Ranks, NEW n, NEW d, NEW t, Within(c, r, n, d, t), NEW R,
           NEW j \in Nat
    PROVE  /\ Tally(Run(c, r, n, d), R) > Tally(Before(c, r, j), R) => n >= j
           /\ n >= j => Tally(Run(c, r, n, d), R) >= Tally(Before(c, r, j), R)
    <1>. DEFINE a == Tally(Run(c, r, n, d), R)
                b == Tally(Before(c, r, n), R)
                e == Tally(Before(c, r, n + 1), R)
                g == Tally(Before(c, r, j), R)
                x == Tally(d, R)
                y == Tally(t, R)
    <1>1. n \in Nat /\ n + 1 \in Nat
        BY DEF Within
    <1>2. x \in Nat /\ y \in Nat /\ b \in Nat /\ a = b + x /\ e = b + x + y
        BY RunCount
    <1>3. g \in Nat
        BY BeforeCount
    <1>4. n < j => e <= g
        <2>. DEFINE m == n + 1
        <2>1. n < j => m <= j
            BY <1>1
        <2>2. m \in Nat
            BY <1>1
        <2>. HIDE DEF m
        <2>3. n < j => Tally(Before(c, r, m), R) <= Tally(Before(c, r, j), R)
            BY <2>1, <2>2, BeforeGrows
        <2>. QED
            BY <2>3 DEF m
    <1>5. n >= j => g <= b
        BY <1>1, BeforeGrows
    <1>. HIDE DEF a, b, e, g, x, y
    <1>6. a > g => n >= j
        BY <1>1, <1>2, <1>3, <1>4
    <1>7. n >= j => a >= g
        BY <1>2, <1>3, <1>5
    <1>. QED
        BY <1>6, <1>7 DEF a, g

\* In a step in which everything of R has something of Q before it, who has
\* come to an R of it has come to a Q.
LEMMA Carries ==
    ASSUME NEW c \in Configs, NEW r \in Ranks, NEW n, NEW d, NEW t, Within(c, r, n, d, t),
           NEW R, NEW Q, NEW j \in Nat,
           Program(c, r, j) \in Leading(Operations, R, Q), Tally(Program(c, r, j), Q) > 0,
           Tally(Run(c, r, n, d), R) > Tally(Before(c, r, j), R)
    PROVE  Tally(Run(c, r, n, d), Q) > Tally(Before(c, r, j), Q)
    <1>1. n \in Nat /\ d \in Seq(Operations) /\ t \in Seq(Operations) /\ d \o t = Program(c, r, n)
        BY DEF Within
    <1>2. n >= j
        BY Reached
    <1>3. CASE n = j
        <2>1. Tally(d, R) <= Tally(d, Q)
            BY <1>1, <1>3 DEF Leading
        <2>. DEFINE b == Tally(Before(c, r, n), R)
                    e == Tally(Before(c, r, n), Q)
                    x == Tally(d, R)
                    y == Tally(d, Q)
        <2>2. b \in Nat /\ x \in Nat /\ Tally(Run(c, r, n, d), R) = b + x
            BY RunCount
        <2>3. e \in Nat /\ y \in Nat /\ Tally(Run(c, r, n, d), Q) = e + y
            BY RunCount
        <2>4. Tally(Run(c, r, n, d), R) > b
            BY <1>3
        <2>. HIDE DEF b, x
        <2>5. x > 0
            BY <2>2, <2>4
        <2>6. x <= y
            BY <2>1 DEF x
        <2>. HIDE DEF e, y
        <2>7. e + y > e
            BY <2>2, <2>3, <2>5, <2>6
        <2>8. Tally(Run(c, r, n, d), Q) > e
            BY <2>3, <2>7
        <2>. QED
            BY <1>3, <2>8 DEF e
    <1>4. CASE n > j
        <2>. DEFINE a == Tally(Run(c, r, n, d), Q)
                    m == j + 1
                    p == Tally(Program(c, r, j), Q)
                    e == Tally(Before(c, r, j), Q)
        <2>1. m \in Nat /\ n >= m
            BY <1>1, <1>4
        <2>2. Tally(Before(c, r, j + 1), Q) = e + p /\ e \in Nat /\ p \in Nat
            BY BeforeCount
        <2>3. a \in Nat
            <3>1. Run(c, r, n, d) \in Seq(Operations)
                BY RunCount
            <3>. QED
                BY <3>1, TallyType
        <2>4. p > 0
            OBVIOUS
        <2>. HIDE DEF a, p, e, m
        <2>5. a >= Tally(Before(c, r, m), Q)
            BY <2>1, Reached DEF a
        <2>6. a >= e + p
            BY <2>2, <2>5 DEF m
        <2>7. a > e
            BY <2>2, <2>3, <2>4, <2>6
        <2>. QED
            BY <2>7 DEF a, e
    <1>. QED
        BY <1>1, <1>2, <1>3, <1>4

-----------------------------------------------------------------------------
(* The states of a run. *)

\* The configuration and the groups are those of the construction.
GroupInv ==
    /\ config \in Configs
    /\ group = [r \in Ranks |-> [k \in Kinds |->
            IF k = "world" THEN [i \in 1 .. World |-> i - 1] ELSE GroupOf(config.shape, r, k)]]

\* No step changes them.
LEMMA GroupsStay == GroupInv /\ [Next]_vars => GroupInv'
    <1>1. [Next]_vars => UNCHANGED <<config, group>>
        BY DEF Next, RankStep, BeginStep, CallCollective, WaitCollective, SendMessage,
               RecvMessage, DrainSends, BroadcastEarly, DrainEarly, Terminating, vars
    <1>. QED
        BY <1>1 DEF GroupInv

\* The shape of a job.
LEMMA ShapeOfJob ==
    ASSUME GroupInv
    PROVE  LET m == config.shape
           IN  IsShape(m) /\ RanksOf(m) = Ranks /\ m.pp <= Len(PipelineLayers(NLayer))
    <1>1. config.shape \in Shapes
        BY DEF GroupInv, Configs
    <1>. QED
        BY <1>1, TrainStepAssumption DEF RanksOf, Ranks

-----------------------------------------------------------------------------
(* The groups a rank keeps. *)

\* The group a rank keeps, and the set of its members: the ranks that have the
\* same coordinates on the other axes.
LEMMA KeptGroup ==
    ASSUME GroupInv, NEW r \in Ranks, NEW k \in Axes
    PROVE  LET m == config.shape
           IN  /\ group[r][k] = GroupOf(m, r, k)
               /\ group[r][k] = [e \in 1 .. m[k] |-> Member(m, CoordOf(m, r), k, e)]
               /\ Members(r, k) = {s \in Ranks : \A j \in Axes \ {k} :
                                      CoordOf(m, s)[j] = CoordOf(m, r)[j]}
    <1>. DEFINE m == config.shape
                like == {s \in Ranks : \A j \in Axes \ {k} :
                            CoordOf(m, s)[j] = CoordOf(m, r)[j]}
    <1>1. IsShape(m) /\ RanksOf(m) = Ranks
        BY ShapeOfJob
    <1>2. group[r][k] = GroupOf(m, r, k)
        BY DEF GroupInv, Kinds, Axes
    <1>. HIDE DEF m
    <1>3. group[r][k] = [e \in 1 .. m[k] |-> Member(m, CoordOf(m, r), k, e)]
        BY <1>1, <1>2, GroupMembers
    <1>4. Members(r, k) = {Member(m, CoordOf(m, r), k, e) : e \in 1 .. m[k]}
        BY <1>3 DEF Members, Range
    <1>5. ASSUME NEW e \in 1 .. m[k] PROVE Member(m, CoordOf(m, r), k, e) \in like
        BY <1>1, MemberCoord
    <1>6. ASSUME NEW s \in like PROVE s \in Members(r, k)
        <2>1. s \in RanksOf(m) /\ \A j \in Axes \ {k} : CoordOf(m, s)[j] = CoordOf(m, r)[j]
            BY <1>1
        <2>2. PICK e \in 1 .. m[k] : Member(m, CoordOf(m, s), k, e) = s
            BY <1>1, <2>1, OwnMember
        <2>3. Member(m, CoordOf(m, s), k, e) = Member(m, CoordOf(m, r), k, e)
            BY <2>1, MemberAlong
        <2>. QED
            BY <1>4, <2>2, <2>3
    <1>7. Members(r, k) = like
        BY <1>4, <1>5, <1>6
    <1>. QED
        BY <1>2, <1>3, <1>7 DEF m

\* A group has as many members as its axis is long.
LEMMA GroupSize ==
    ASSUME GroupInv, NEW r \in Ranks, NEW k \in Axes
    PROVE  Cardinality(Members(r, k)) = config.shape[k]
    <1>. DEFINE m == config.shape
                n == m[k]
                f == [e \in 1 .. n |-> Member(m, CoordOf(m, r), k, e)]
    <1>1. IsShape(m) /\ RanksOf(m) = Ranks
        BY ShapeOfJob
    <1>2. n \in Nat
        BY <1>1 DEF IsShape, Axes
    <1>3. Members(r, k) = Range(f)
        BY KeptGroup DEF Members
    <1>. HIDE DEF m
    <1>4. ASSUME NEW d \in 1 .. n, NEW e \in 1 .. n, f[d] = f[e] PROVE d = e
        <2>1. CoordOf(m, f[d])[k] = d - 1 /\ CoordOf(m, f[e])[k] = e - 1
            BY <1>1, MemberCoord
        <2>2. d - 1 = e - 1
            BY <1>4, <2>1
        <2>. QED
            BY <1>2, <2>2
    <1>. HIDE DEF f, n
    <1>5. f \in Bijection(1 .. n, Range(f))
        <2>1. DOMAIN f = 1 .. n /\ f \in [1 .. n -> Range(f)]
            BY DEF f, Range
        <2>2. \A y \in Range(f) : \E e \in 1 .. n : f[e] = y
            BY <2>1 DEF Range
        <2>. QED
            BY <1>4, <2>1, <2>2 DEF Bijection, Injection, Surjection, IsInjective
    <1>6. Cardinality(Range(f)) = n
        BY <1>2, <1>5, FS_CountingElements DEF ExistsBijection
    <1>. QED
        BY <1>3, <1>6 DEF n, m

\* Neighbouring stages have each other as neighbours.
LEMMA NeighboursAgree ==
    ASSUME GroupInv, NEW r \in Ranks, ~IsLastStage(config.shape, r)
    PROVE  Prev(config.shape, Succ(config.shape, r)) = r
    <1>. DEFINE m == config.shape
                p == CoordOf(m, r).pp
                s == Succ(m, r)
    <1>1. IsShape(m) /\ RanksOf(m) = Ranks
        BY ShapeOfJob
    <1>2. p # m.pp - 1
        BY DEF IsLastStage
    <1>. HIDE DEF m
    <1>3. p \in 0 .. m.pp - 1 /\ m.pp \in Nat
        BY <1>1, RankOfCoordOf DEF IsShape
    <1>. HIDE DEF p
    <1>4. p + 1 \in 1 .. m.pp /\ p + 2 \in 1 .. m.pp /\ (p + 2) - 1 = p + 1 /\ p + 1 \in Nat
        BY <1>2, <1>3
    <1>5. s = Member(m, CoordOf(m, r), "pp", p + 2)
        <2>1. s = GroupOf(m, r, "pp")[p + 2]
            BY DEF Succ, NextStageRank, p
        <2>2. GroupOf(m, r, "pp") = [e \in 1 .. m["pp"] |-> Member(m, CoordOf(m, r), "pp", e)]
            BY <1>1, GroupMembers DEF Axes
        <2>. HIDE DEF s
        <2>. QED
            BY <1>4, <2>1, <2>2
    <1>. HIDE DEF s
    <1>6. /\ s \in RanksOf(m) /\ CoordOf(m, s).pp = p + 1
          /\ \A j \in Axes \ {"pp"} : CoordOf(m, s)[j] = CoordOf(m, r)[j]
        <2>1. "pp" \in Axes /\ p + 2 \in 1 .. m["pp"]
            BY <1>4 DEF Axes
        <2>2. CoordOf(m, s)["pp"] = (p + 2) - 1
            BY <1>1, <1>5, <2>1, MemberCoord
        <2>. QED
            BY <1>1, <1>4, <1>5, <2>1, <2>2, MemberCoord
    <1>7. Prev(m, s) = Member(m, CoordOf(m, s), "pp", p + 1)
        <2>1. Prev(m, s) = GroupOf(m, s, "pp")[p + 1]
            BY <1>6 DEF Prev, PrevStageRank
        <2>2. GroupOf(m, s, "pp") = [e \in 1 .. m["pp"] |-> Member(m, CoordOf(m, s), "pp", e)]
            BY <1>1, <1>6, GroupMembers DEF Axes
        <2>. QED
            BY <1>4, <2>1, <2>2
    <1>8. Member(m, CoordOf(m, s), "pp", p + 1) = Member(m, CoordOf(m, r), "pp", p + 1)
        BY <1>6, MemberAlong DEF Axes
    <1>9. Member(m, CoordOf(m, r), "pp", p + 1) = r
        BY <1>1, OwnMember DEF Axes, p
    <1>. QED
        BY <1>7, <1>8, <1>9 DEF s, m

\* The groups of any mesh are sound.
LEMMA GroupsSound == GroupInv => MeshSound
    <1>. SUFFICES ASSUME GroupInv, NEW r \in Ranks
                  PROVE  LET m == config.shape
                             at == CoordOf(m, r)
                             mine == [k \in Kinds |-> Members(r, k)]
                         IN  /\ RankOf(m, at.pp, at.dp, at.tp) = r
                             /\ \A k \in Axes :
                                   /\ r \in mine[k] /\ Cardinality(mine[k]) = m[k]
                                   /\ \A s \in mine[k] : group[s][k] = group[r][k]
                                   /\ \A j \in Axes \ {k} : mine[k] \cap mine[j] = {r}
                             /\ ~IsLastStage(m, r) => Prev(m, Succ(m, r)) = r
        BY DEF MeshSound, Axes
    <1>. DEFINE m == config.shape
                at == CoordOf(m, r)
                mine == [k \in Kinds |-> Members(r, k)]
    <1>1. IsShape(m) /\ RanksOf(m) = Ranks
        BY ShapeOfJob
    <1>2. RankOf(m, at.pp, at.dp, at.tp) = r
        BY <1>1, RankOfCoordOf
    <1>3. ASSUME NEW k \in Axes
          PROVE  /\ r \in Members(r, k) /\ Cardinality(Members(r, k)) = m[k]
                 /\ \A s \in Members(r, k) : group[s][k] = group[r][k]
                 /\ \A j \in Axes \ {k} : Members(r, k) \cap Members(r, j) = {r}
        <2>. HIDE DEF m
        <2>1. /\ Members(r, k) = {s \in Ranks : \A j \in Axes \ {k} :
                                     CoordOf(m, s)[j] = CoordOf(m, r)[j]}
              /\ \A s \in Ranks :
                    group[s][k] = [e \in 1 .. m[k] |-> Member(m, CoordOf(m, s), k, e)]
            BY KeptGroup DEF m
        <2>2. r \in Members(r, k)
            BY <2>1
        <2>3. Cardinality(Members(r, k)) = m[k]
            BY GroupSize DEF m
        <2>4. ASSUME NEW s \in Members(r, k) PROVE group[s][k] = group[r][k]
            <3>1. s \in Ranks /\ \A j \in Axes \ {k} : CoordOf(m, s)[j] = CoordOf(m, r)[j]
                BY <2>1, <2>4
            <3>2. \A e : Member(m, CoordOf(m, s), k, e) = Member(m, CoordOf(m, r), k, e)
                BY <3>1, MemberAlong
            <3>3. [e \in 1 .. m[k] |-> Member(m, CoordOf(m, s), k, e)]
                    = [e \in 1 .. m[k] |-> Member(m, CoordOf(m, r), k, e)]
                BY <3>2
            <3>. QED
                BY <2>1, <3>1, <3>3, Zenon
        <2>5. ASSUME NEW j \in Axes \ {k} PROVE Members(r, k) \cap Members(r, j) = {r}
            <3>1. Members(r, j) = {s \in Ranks : \A i \in Axes \ {j} :
                                      CoordOf(m, s)[i] = CoordOf(m, r)[i]}
                BY KeptGroup DEF m
            <3>2. ASSUME NEW s \in Members(r, k) \cap Members(r, j) PROVE s = r
                <4>1. s \in Ranks /\ \A i \in Axes : CoordOf(m, s)[i] = CoordOf(m, r)[i]
                    BY <2>1, <3>1
                <4>. QED
                    BY <1>1, <4>1, SameCoord
            <3>3. r \in Members(r, j)
                BY <3>1
            <3>. QED
                BY <2>2, <3>2, <3>3
        <2>. QED
            BY <2>2, <2>3, <2>4, <2>5
    <1>4. ASSUME NEW k \in Axes PROVE mine[k] = Members(r, k)
        BY DEF Axes, Kinds
    <1>5. ~IsLastStage(m, r) => Prev(m, Succ(m, r)) = r
        BY NeighboursAgree
    <1>. HIDE DEF m, mine
    <1>6. ASSUME NEW k \in Axes
          PROVE  /\ r \in mine[k] /\ Cardinality(mine[k]) = m[k]
                 /\ \A s \in mine[k] : group[s][k] = group[r][k]
                 /\ \A j \in Axes \ {k} : mine[k] \cap mine[j] = {r}
        BY <1>3, <1>4
    <1>. QED
        BY <1>2, <1>5, <1>6 DEF m, mine

-----------------------------------------------------------------------------
(* The stages of the pipelines. *)

\* The members of a pipeline group, by their stages.
LEMMA OneRankPerStage ==
    ASSUME GroupInv, NEW r \in Ranks
    PROVE  LET m == config.shape
           IN  /\ m.pp \in 1 .. Len(PipelineLayers(NLayer))
               /\ \A s \in Ranks : CoordOf(m, s).pp \in 0 .. m.pp - 1
               /\ \A p \in 0 .. m.pp - 1 : \E s \in Members(r, "pp") :
                     /\ CoordOf(m, s).pp = p
                     /\ \A t \in Members(r, "pp") : CoordOf(m, t).pp = p => t = s
    <1>. DEFINE m == config.shape
    <1>1. IsShape(m) /\ RanksOf(m) = Ranks /\ m.pp <= Len(PipelineLayers(NLayer))
        BY ShapeOfJob
    <1>2. Members(r, "pp") = {s \in Ranks : \A j \in Axes \ {"pp"} :
                                  CoordOf(m, s)[j] = CoordOf(m, r)[j]}
        BY KeptGroup DEF Axes
    <1>. HIDE DEF m
    <1>3. m.pp \in Nat \ {0} /\ Len(PipelineLayers(NLayer)) \in Nat
        BY <1>1, LayerCount DEF IsShape
    <1>4. \A s \in Ranks : CoordOf(m, s).pp \in 0 .. m.pp - 1
        BY <1>1, RankOfCoordOf
    <1>5. ASSUME NEW p \in 0 .. m.pp - 1
          PROVE  \E s \in Members(r, "pp") :
                     /\ CoordOf(m, s).pp = p
                     /\ \A t \in Members(r, "pp") : CoordOf(m, t).pp = p => t = s
        <2>. DEFINE s == Member(m, CoordOf(m, r), "pp", p + 1)
        <2>1. p + 1 \in 1 .. m["pp"] /\ (p + 1) - 1 = p /\ "pp" \in Axes
            BY <1>3 DEF Axes
        <2>2. /\ s \in Ranks /\ CoordOf(m, s)["pp"] = (p + 1) - 1
              /\ \A j \in Axes \ {"pp"} : CoordOf(m, s)[j] = CoordOf(m, r)[j]
            BY <1>1, <2>1, MemberCoord
        <2>. HIDE DEF s
        <2>3. s \in Members(r, "pp") /\ CoordOf(m, s).pp = p
            BY <1>2, <2>1, <2>2
        <2>4. ASSUME NEW t \in Members(r, "pp"), CoordOf(m, t).pp = p PROVE t = s
            <3>1. t \in Ranks /\ \A j \in Axes : CoordOf(m, t)[j] = CoordOf(m, s)[j]
                BY <1>2, <2>2, <2>3, <2>4
            <3>. QED
                BY <1>1, <2>2, <3>1, SameCoord
        <2>. QED
            BY <2>3, <2>4
    <1>6. m.pp \in 1 .. Len(PipelineLayers(NLayer))
        BY <1>1, <1>3
    <1>. QED
        BY <1>4, <1>5, <1>6 DEF m

\* The stages of any pipeline hold the model.
LEMMA StagesSound == GroupInv => StagesHoldModel
    <1>. DEFINE m == config.shape
                n == Len(PipelineLayers(NLayer))
                Held(s) == LayersOf(n, m.pp, CoordOf(m, s).pp)
    <1>. SUFFICES ASSUME GroupInv, NEW r \in Ranks
                  PROVE  /\ \A l \in 0 .. n - 1 :
                               Cardinality({s \in Members(r, "pp") : l \in Held(s)}) = 1
                         /\ Held(r) # {}
                         /\ \A s \in Members(r, "pp") :
                               Cardinality(Held(s)) <= Cardinality(Held(r)) + 1
                         /\ (0 \in Held(r)) = IsFirstStage(m, r)
                         /\ (n - 1 \in Held(r)) = IsLastStage(m, r)
        BY DEF StagesHoldModel
    <1>1. /\ m.pp \in 1 .. n /\ n \in Nat
          /\ \A s \in Ranks : CoordOf(m, s).pp \in 0 .. m.pp - 1
          /\ \A p \in 0 .. m.pp - 1 : \E s \in Members(r, "pp") :
                /\ CoordOf(m, s).pp = p
                /\ \A t \in Members(r, "pp") : CoordOf(m, t).pp = p => t = s
        BY LayerCount, OneRankPerStage
    <1>2. Members(r, "pp") \subseteq Ranks
        BY KeptGroup DEF Axes
    <1>. HIDE DEF m, n
    <1>3. ASSUME NEW s \in Ranks
          PROVE  /\ Cardinality(Held(s)) = StageSize(n, m.pp, CoordOf(m, s).pp)
                 /\ Held(s) # {}
        <2>. DEFINE first == StageStart(n, m.pp, CoordOf(m, s).pp)
                    end == StageEnd(n, m.pp, CoordOf(m, s).pp)
                    size == StageSize(n, m.pp, CoordOf(m, s).pp)
        <2>1. first \in Nat /\ size \in Nat \ {0} /\ end \in Nat /\ end = first + size
            BY <1>1, StageNumbers
        <2>2. Held(s) = first .. end - 1
            BY DEF LayersOf
        <2>. HIDE DEF first, end, size
        <2>3. Cardinality(first .. end - 1) = size
            <3>1. end - 1 \in Int /\ first \in Int /\ ~(first > end - 1)
                  /\ (end - 1) - first + 1 = size
                BY <2>1
            <3>. QED
                BY <3>1, FS_Interval
        <2>4. first \in first .. end - 1
            BY <2>1
        <2>. QED
            BY <2>2, <2>3, <2>4 DEF size
    <1>4. ASSUME NEW l \in 0 .. n - 1
          PROVE  Cardinality({s \in Members(r, "pp") : l \in Held(s)}) = 1
        <2>1. PICK p \in 0 .. m.pp - 1 :
                 /\ l \in LayersOf(n, m.pp, p)
                 /\ \A q \in 0 .. m.pp - 1 : l \in LayersOf(n, m.pp, q) => q = p
            BY <1>1, EveryLayerOnce
        <2>2. PICK s \in Members(r, "pp") :
                 /\ CoordOf(m, s).pp = p
                 /\ \A t \in Members(r, "pp") : CoordOf(m, t).pp = p => t = s
            BY <1>1
        <2>3. \A t \in Members(r, "pp") : l \in Held(t) => t = s
            BY <1>1, <1>2, <2>1, <2>2
        <2>4. {t \in Members(r, "pp") : l \in Held(t)} = {s}
            BY <2>1, <2>2, <2>3
        <2>. QED
            BY <2>4, FS_Singleton
    <1>5. ASSUME NEW s \in Members(r, "pp")
          PROVE  Cardinality(Held(s)) <= Cardinality(Held(r)) + 1
        <2>1. s \in Ranks
            BY <1>2
        <2>2. StageSize(n, m.pp, CoordOf(m, s).pp) <= StageSize(n, m.pp, CoordOf(m, r).pp) + 1
            BY <1>1, <2>1, StagesEven
        <2>. QED
            BY <1>3, <2>1, <2>2
    <1>6. /\ 0 \in Held(r) <=> CoordOf(m, r).pp = 0
          /\ n - 1 \in Held(r) <=> CoordOf(m, r).pp = m.pp - 1
        BY <1>1, EndsOfPipeline
    <1>7. Held(r) # {}
        BY <1>3
    <1>. HIDE DEF Held
    <1>8. (0 \in Held(r)) = IsFirstStage(m, r) /\ (n - 1 \in Held(r)) = IsLastStage(m, r)
        BY <1>6 DEF IsFirstStage, IsLastStage
    <1>. QED
        BY <1>4, <1>5, <1>7, <1>8

-----------------------------------------------------------------------------
\* From the construction on, the groups are those of GroupOf.
LEMMA GroupsKept == Spec => []GroupInv
    <1>1. Init => GroupInv
        BY DEF Init, GroupInv
    <1>. QED
        BY <1>1, GroupsStay, PTL DEF Spec

\* Of any job on any mesh, each rank keeps one group of each kind, the same as
\* the other members; groups of different kinds share one rank; neighbouring
\* stages agree on it.
THEOREM SoundMesh == Spec => []MeshSound
    BY GroupsKept, GroupsSound, PTL

\* The stages of every pipeline group hold every layer of the model once, as
\* evenly as can be, the ends of the model on the ends of the pipeline.
THEOREM ModelOnStages == Spec => []StagesHoldModel
    BY GroupsKept, StagesSound, PTL

-----------------------------------------------------------------------------
(* What the ranks have run. *)

\* The types of the variables that the operations change.
StateTypes ==
    /\ step \in [Ranks -> Started] /\ todo \in [Ranks -> Seq(Operations)]
    /\ called \in [Ranks -> [Kinds -> Seq(Names \X Seq(Nat))]]
    /\ waited \in [Ranks -> [Kinds -> Nat]]
    /\ link \in [Ranks \X Ranks -> Nat]

\* Recorded names as launches on a group.
Calls(k, s) == [i \in 1 .. Len(s) |-> Call(k, s[i])]

\* A rank with d of its step done.
Ran(r, d) == Run(config, r, step[r], d)

\* The variables record what the ranks have run, if rank r has d[r] of its
\* step done: its calls, its waits, the messages from it that are under way.
Recorded(d) ==
    \A r \in Ranks :
        /\ d[r] \o todo[r] = Program(config, r, step[r])
        /\ \A k \in Kinds : /\ Only(Ran(r, d[r]), CallsOn(k)) = Calls(k, called[r][k])
                            /\ waited[r][k] = Tally(Ran(r, d[r]), WaitsOn(k))
        /\ \A s \in Ranks : Tally(Ran(r, d[r]), {Send(s)}) = Tally(Ran(s, d[s]), {Recv(r)}) + link[<<r, s>>]

\* What is waited for has been called by the group, but the broadcasts of the
\* loss and of the parameters may return before that.
WaitsMet ==
    \A r \in Ranks : \A k \in {"tp", "dp", "world"} :
        k # "dp" \/ waited[r][k] >= 2
            => \A s \in Members(r, k) : waited[r][k] <= Len(called[s][k])

\* The inductive invariant: every rank has recorded the beginning of its own run, and
\* each collective it waits for has been reached by its group.
RunInv ==
    /\ GroupInv /\ StateTypes /\ WaitsMet
    /\ \E d \in [Ranks -> Seq(Operations)] : Recorded(d)

-----------------------------------------------------------------------------
(* One operation of a rank, and what is recorded of it. *)

\* An operation is one of five kinds.
LEMMA OneOperation ==
    ASSUME NEW e \in Operations
    PROVE  /\ e.op = "call" => e.kind \in Kinds /\ e.name \in Names \X Seq(Nat) /\ e = Call(e.kind, e.name)
           /\ e.op = "wait" => e.kind \in Kinds /\ e = Wait(e.kind)
           /\ e.op = "send" => e.peer \in Ranks /\ e = Send(e.peer)
           /\ e.op = "recv" => e.peer \in Ranks /\ e = Recv(e.peer)
           /\ e.op = "drain" => e = Drain
    BY DEF Operations, Call, Wait, Send, Recv, Drain

\* What recording an operation does to the variables.
Effect(r, e) ==
    /\ \A q \in Ranks : \A k \in Kinds :
          /\ called'[q][k] = IF q = r /\ e \in CallsOn(k) THEN Append(called[q][k], e.name) ELSE called[q][k]
          /\ waited'[q][k] = IF q = r /\ e \in WaitsOn(k) THEN waited[q][k] + 1 ELSE waited[q][k]
    /\ \A a \in Ranks : \A b \in Ranks :
          link'[<<a, b>>] + (IF b = r /\ e = Recv(a) THEN 1 ELSE 0)
              = link[<<a, b>>] + (IF a = r /\ e = Send(b) THEN 1 ELSE 0)

\* Which of the sets an operation is in.
LEMMA KindOf ==
    ASSUME NEW e \in Operations
    PROVE  /\ \A k : e \in CallsOn(k) <=> e.op = "call" /\ e.kind = k
           /\ \A k : e \in WaitsOn(k) <=> e.op = "wait" /\ e.kind = k
           /\ \A p : e = Send(p) <=> e.op = "send" /\ e.peer = p
           /\ \A p : e = Recv(p) <=> e.op = "recv" /\ e.peer = p
    <1>1. ASSUME NEW k PROVE e \in CallsOn(k) <=> e.op = "call" /\ e.kind = k
        <2>1. e \in CallsOn(k) => e.op = "call" /\ e.kind = k
            BY DEF CallsOn, Call
        <2>2. e.op = "call" => e.name \in Names \X Seq(Nat) /\ e = Call(e.kind, e.name)
            BY OneOperation
        <2>. QED
            BY <2>1, <2>2 DEF CallsOn
    <1>2. ASSUME NEW k PROVE e \in WaitsOn(k) <=> e.op = "wait" /\ e.kind = k
        <2>1. e.op = "wait" => e = Wait(e.kind)
            BY OneOperation
        <2>2. Wait(k).op = "wait" /\ Wait(k).kind = k
            BY DEF Wait
        <2>. QED
            BY <2>1, <2>2 DEF WaitsOn
    <1>3. ASSUME NEW p
          PROVE  /\ e = Send(p) <=> e.op = "send" /\ e.peer = p
                 /\ e = Recv(p) <=> e.op = "recv" /\ e.peer = p
        <2>1. /\ e.op = "send" => e = Send(e.peer)
              /\ e.op = "recv" => e = Recv(e.peer)
            BY OneOperation
        <2>2. Send(p).op = "send" /\ Send(p).peer = p /\ Recv(p).op = "recv" /\ Recv(p).peer = p
            BY DEF Send, Recv
        <2>. QED
            BY <2>1, <2>2
    <1>. QED
        BY <1>1, <1>2, <1>3

\* A launch is recorded as one.
LEMMA CallEffect ==
    ASSUME StateTypes, NEW r \in Ranks, CallCollective(r)
    PROVE  Effect(r, Now(r)) /\ StateTypes'
    <1>. DEFINE e == Now(r)
    <1>1. /\ e.op = "call" /\ todo[r] # << >>
          /\ called' = [called EXCEPT ![r][e.kind] = Append(@, e.name)]
          /\ todo' = [todo EXCEPT ![r] = Tail(@)]
          /\ step' = step /\ waited' = waited /\ link' = link
        BY DEF CallCollective, At, Now, Continue
    <1>2. e \in Operations /\ Tail(todo[r]) \in Seq(Operations)
        BY <1>1 DEF Now, StateTypes
    <1>3. e.kind \in Kinds /\ e.name \in Names \X Seq(Nat)
        BY <1>1, <1>2, OneOperation
    <1>. HIDE DEF e
    <1>4. StateTypes'
        <2>1. called' \in [Ranks -> [Kinds -> Seq(Names \X Seq(Nat))]]
            BY <1>1, <1>3 DEF StateTypes
        <2>2. todo' \in [Ranks -> Seq(Operations)]
            BY <1>1, <1>2 DEF StateTypes
        <2>. QED
            BY <1>1, <2>1, <2>2 DEF StateTypes
    <1>5. \A k : e \in CallsOn(k) <=> e.kind = k
        BY <1>1, <1>2, KindOf
    <1>6. \A k : e \notin WaitsOn(k)
        BY <1>1, <1>2, KindOf
    <1>7. \A p : e # Send(p) /\ e # Recv(p)
        BY <1>1, <1>2, KindOf
    <1>8. ASSUME NEW q \in Ranks, NEW k \in Kinds
          PROVE  called'[q][k] = IF q = r /\ e \in CallsOn(k) THEN Append(called[q][k], e.name) ELSE called[q][k]
        BY <1>1, <1>3, <1>5 DEF StateTypes
    <1>. QED
        BY <1>1, <1>4, <1>6, <1>7, <1>8 DEF Effect, e

\* A wait that returns, in whichever way.
LEMMA WaitEffect ==
    ASSUME StateTypes, NEW r \in Ranks, WaitCollective(r) \/ BroadcastEarly(r)
    PROVE  Effect(r, Now(r)) /\ StateTypes' /\ Now(r).op = "wait" /\ Now(r).kind \in Kinds
    <1>. DEFINE e == Now(r)
    <1>1. /\ e.op = "wait" /\ todo[r] # << >>
          /\ waited' = [waited EXCEPT ![r][e.kind] = @ + 1]
          /\ todo' = [todo EXCEPT ![r] = Tail(@)]
          /\ step' = step /\ called' = called /\ link' = link
        BY DEF WaitCollective, BroadcastEarly, At, Now, Continue
    <1>2. e \in Operations /\ Tail(todo[r]) \in Seq(Operations)
        BY <1>1 DEF Now, StateTypes
    <1>3. e.kind \in Kinds
        BY <1>1, <1>2, OneOperation
    <1>. HIDE DEF e
    <1>4. StateTypes'
        <2>1. waited' \in [Ranks -> [Kinds -> Nat]]
            BY <1>1, <1>3 DEF StateTypes
        <2>2. todo' \in [Ranks -> Seq(Operations)]
            BY <1>1, <1>2 DEF StateTypes
        <2>. QED
            BY <1>1, <2>1, <2>2 DEF StateTypes
    <1>5. \A k : e \in WaitsOn(k) <=> e.kind = k
        BY <1>1, <1>2, KindOf
    <1>6. \A k : e \notin CallsOn(k)
        BY <1>1, <1>2, KindOf
    <1>7. \A p : e # Send(p) /\ e # Recv(p)
        BY <1>1, <1>2, KindOf
    <1>8. ASSUME NEW q \in Ranks, NEW k \in Kinds
          PROVE  waited'[q][k] = IF q = r /\ e \in WaitsOn(k) THEN waited[q][k] + 1 ELSE waited[q][k]
        BY <1>1, <1>3, <1>5 DEF StateTypes
    <1>. QED
        BY <1>1, <1>3, <1>4, <1>6, <1>7, <1>8 DEF Effect, e

\* A message sent is recorded in the link.
LEMMA SendEffect ==
    ASSUME StateTypes, NEW r \in Ranks, SendMessage(r)
    PROVE  Effect(r, Now(r)) /\ StateTypes'
    <1>. DEFINE e == Now(r)
    <1>1. /\ e.op = "send" /\ todo[r] # << >>
          /\ link' = [link EXCEPT ![<<r, e.peer>>] = @ + 1]
          /\ todo' = [todo EXCEPT ![r] = Tail(@)]
          /\ step' = step /\ called' = called /\ waited' = waited
        BY DEF SendMessage, At, Now, Continue
    <1>2. e \in Operations /\ Tail(todo[r]) \in Seq(Operations)
        BY <1>1 DEF Now, StateTypes
    <1>3. e.peer \in Ranks
        BY <1>1, <1>2, OneOperation
    <1>. HIDE DEF e
    <1>4. StateTypes'
        <2>1. link' \in [Ranks \X Ranks -> Nat]
            BY <1>1, <1>3 DEF StateTypes
        <2>2. todo' \in [Ranks -> Seq(Operations)]
            BY <1>1, <1>2 DEF StateTypes
        <2>. QED
            BY <1>1, <2>1, <2>2 DEF StateTypes
    <1>5. \A k : e \notin WaitsOn(k) /\ e \notin CallsOn(k)
        BY <1>1, <1>2, KindOf
    <1>6. \A p : e # Recv(p)
        BY <1>1, <1>2, KindOf
    <1>7. \A p : e = Send(p) <=> e.peer = p
        BY <1>1, <1>2, KindOf
    <1>8. ASSUME NEW a \in Ranks, NEW b \in Ranks
          PROVE  link'[<<a, b>>] + (IF b = r /\ e = Recv(a) THEN 1 ELSE 0)
                     = link[<<a, b>>] + (IF a = r /\ e = Send(b) THEN 1 ELSE 0)
        <2>1. <<a, b>> = <<r, e.peer>> <=> a = r /\ b = e.peer
            OBVIOUS
        <2>2. link'[<<a, b>>] = IF <<a, b>> = <<r, e.peer>> THEN link[<<a, b>>] + 1 ELSE link[<<a, b>>]
            BY <1>1, <1>3 DEF StateTypes
        <2>3. link[<<a, b>>] \in Nat
            BY DEF StateTypes
        <2>. QED
            BY <1>6, <1>7, <2>1, <2>2, <2>3
    <1>. QED
        BY <1>1, <1>4, <1>5, <1>8 DEF Effect, e

\* A message received is taken from the link.
LEMMA RecvEffect ==
    ASSUME StateTypes, NEW r \in Ranks, RecvMessage(r)
    PROVE  Effect(r, Now(r)) /\ StateTypes'
    <1>. DEFINE e == Now(r)
    <1>1. /\ e.op = "recv" /\ todo[r] # << >> /\ link[<<e.peer, r>>] > 0
          /\ link' = [link EXCEPT ![<<e.peer, r>>] = @ - 1]
          /\ todo' = [todo EXCEPT ![r] = Tail(@)]
          /\ step' = step /\ called' = called /\ waited' = waited
        BY DEF RecvMessage, At, Now, Continue
    <1>2. e \in Operations /\ Tail(todo[r]) \in Seq(Operations)
        BY <1>1 DEF Now, StateTypes
    <1>3. e.peer \in Ranks
        BY <1>1, <1>2, OneOperation
    <1>. HIDE DEF e
    <1>4. StateTypes'
        <2>1. link' \in [Ranks \X Ranks -> Nat]
            BY <1>1, <1>3 DEF StateTypes
        <2>2. todo' \in [Ranks -> Seq(Operations)]
            BY <1>1, <1>2 DEF StateTypes
        <2>. QED
            BY <1>1, <2>1, <2>2 DEF StateTypes
    <1>5. \A k : e \notin WaitsOn(k) /\ e \notin CallsOn(k)
        BY <1>1, <1>2, KindOf
    <1>6. \A p : e # Send(p)
        BY <1>1, <1>2, KindOf
    <1>7. \A p : e = Recv(p) <=> e.peer = p
        BY <1>1, <1>2, KindOf
    <1>8. ASSUME NEW a \in Ranks, NEW b \in Ranks
          PROVE  link'[<<a, b>>] + (IF b = r /\ e = Recv(a) THEN 1 ELSE 0)
                     = link[<<a, b>>] + (IF a = r /\ e = Send(b) THEN 1 ELSE 0)
        <2>1. <<a, b>> = <<e.peer, r>> <=> a = e.peer /\ b = r
            OBVIOUS
        <2>2. link'[<<a, b>>] = IF <<a, b>> = <<e.peer, r>> THEN link[<<a, b>>] - 1 ELSE link[<<a, b>>]
            BY <1>1, <1>3 DEF StateTypes
        <2>3. link[<<a, b>>] \in Nat
            BY DEF StateTypes
        <2>. QED
            BY <1>6, <1>7, <2>1, <2>2, <2>3
    <1>. QED
        BY <1>1, <1>4, <1>5, <1>8 DEF Effect, e

\* Waiting for sends, or for collectives passed over, changes nothing recorded.
LEMMA DrainEffect ==
    ASSUME StateTypes, NEW r \in Ranks, DrainSends(r) \/ DrainEarly(r)
    PROVE  Effect(r, Now(r)) /\ StateTypes'
    <1>. DEFINE e == Now(r)
    <1>1. /\ e.op = "drain" /\ todo[r] # << >>
          /\ todo' = [todo EXCEPT ![r] = Tail(@)]
          /\ step' = step /\ called' = called /\ waited' = waited /\ link' = link
        BY DEF DrainSends, DrainEarly, At, Now, Continue
    <1>2. e \in Operations /\ Tail(todo[r]) \in Seq(Operations)
        BY <1>1 DEF Now, StateTypes
    <1>. HIDE DEF e
    <1>3. StateTypes'
        <2>1. todo' \in [Ranks -> Seq(Operations)]
            BY <1>1, <1>2 DEF StateTypes
        <2>. QED
            BY <1>1, <2>1 DEF StateTypes
    <1>4. \A k : e \notin WaitsOn(k) /\ e \notin CallsOn(k)
        BY <1>1, <1>2, KindOf
    <1>5. \A p : e # Send(p) /\ e # Recv(p)
        BY <1>1, <1>2, KindOf
    <1>. QED
        BY <1>1, <1>3, <1>4, <1>5 DEF Effect, e

\* One more name is one more launch.
LEMMA CallsAppend ==
    ASSUME NEW k, NEW S, NEW s \in Seq(S), NEW n \in S
    PROVE  Calls(k, Append(s, n)) = Append(Calls(k, s), Call(k, n))
    <1>. DEFINE a == Calls(k, Append(s, n))
                b == Append(Calls(k, s), Call(k, n))
                l == Len(s)
    <1>1. l \in Nat /\ Len(Append(s, n)) = l + 1
          /\ \A i \in 1 .. l + 1 : Append(s, n)[i] = IF i = l + 1 THEN n ELSE s[i]
        OBVIOUS
    <1>2. a = [i \in 1 .. l + 1 |-> Call(k, Append(s, n)[i])]
        BY <1>1 DEF Calls
    <1>3. Calls(k, s) \in Seq({Call(k, s[i]) : i \in 1 .. l}) /\ Len(Calls(k, s)) = l
          /\ \A i \in 1 .. l : Calls(k, s)[i] = Call(k, s[i])
        BY <1>1 DEF Calls
    <1>. DEFINE c == Calls(k, s)
                T == {Call(k, s[i]) : i \in 1 .. l} \cup {Call(k, n)}
                x == Call(k, n)
    <1>4. c \in Seq(T) /\ x \in T /\ Len(c) = l
        <2>1. {Call(k, s[i]) : i \in 1 .. l} \subseteq T
            OBVIOUS
        <2>. QED
            BY <1>3, <2>1, SeqMonotonic
    <1>. HIDE DEF c, T, x, l
    <1>5. /\ Append(c, x) \in Seq(T) /\ Len(Append(c, x)) = l + 1
          /\ \A i \in 1 .. l + 1 : Append(c, x)[i] = IF i = l + 1 THEN x ELSE c[i]
        BY <1>1, <1>4
    <1>6. \A i \in 1 .. l + 1 : a[i] = Append(c, x)[i] /\ a[i] \in T
        <2>. TAKE i \in 1 .. l + 1
        <2>1. a[i] = Call(k, Append(s, n)[i])
            BY <1>2
        <2>2. CASE i = l + 1
            <3>1. Append(s, n)[i] = n /\ Append(c, x)[i] = x
                BY <1>1, <1>5, <2>2
            <3>. QED
                BY <1>4, <2>1, <3>1 DEF x
        <2>3. CASE i # l + 1
            <3>1. i \in 1 .. l
                BY <1>1, <2>3
            <3>2. Append(s, n)[i] = s[i] /\ Append(c, x)[i] = c[i]
                BY <1>1, <1>5, <2>3
            <3>3. c[i] = Call(k, s[i]) /\ c[i] \in T
                BY <1>3, <1>4, <3>1 DEF c
            <3>. QED
                BY <2>1, <3>2, <3>3
        <2>. QED
            BY <2>2, <2>3
    <1>7. a \in Seq(T) /\ Len(a) = l + 1
        <2>1. a \in [1 .. l + 1 -> T]
            <3>1. a = [i \in 1 .. l + 1 |-> a[i]]
                BY <1>2
            <3>. HIDE DEF a
            <3>2. \A i \in 1 .. l + 1 : a[i] \in T
                BY <1>6
            <3>. QED
                BY <3>1, <3>2
        <2>. HIDE DEF a
        <2>. QED
            BY <1>1, <2>1
    <1>. DEFINE y == Append(c, x)
    <1>. HIDE DEF a, y
    <1>8. a = y
        <2>1. y \in Seq(T) /\ Len(y) = l + 1 /\ \A i \in 1 .. l + 1 : a[i] = y[i]
            BY <1>5, <1>6 DEF y
        <2>. QED
            BY <1>7, <2>1, SeqEqual
    <1>. QED
        BY <1>8 DEF a, y, c, x

\* A program without its first operation.
LEMMA HeadThenTail ==
    ASSUME NEW S, NEW t \in Seq(S), t # << >>
    PROVE  Head(t) \in S /\ Tail(t) \in Seq(S) /\ <<Head(t)>> \in Seq(S) /\ <<Head(t)>> \o Tail(t) = t
    <1>. DEFINE e == Head(t)
                u == Tail(t)
                one == <<e>>
    <1>1. e \in S /\ u \in Seq(S) /\ one \in Seq(S)
        OBVIOUS
    <1>2. one \o u = t
        <2>1. Len(t) \in Nat /\ Len(t) > 0 /\ DOMAIN t = 1 .. Len(t)
            OBVIOUS
        <2>2. one \o u \in Seq(S) /\ Len(one \o u) = Len(t)
            BY <1>1, <2>1
        <2>3. \A i \in 1 .. Len(t) : (one \o u)[i] = t[i]
            <3>. TAKE i \in 1 .. Len(t)
            <3>1. CASE i = 1
                BY <1>1, <2>1, <3>1
            <3>2. CASE i # 1
                BY <1>1, <2>1, <3>2
            <3>. QED
                BY <3>1, <3>2
        <2>. DEFINE w == one \o u
        <2>. HIDE DEF w
        <2>4. w \in Seq(S) /\ Len(w) = Len(t) /\ \A i \in 1 .. Len(t) : w[i] = t[i]
            BY <2>2, <2>3 DEF w
        <2>5. w = t
            BY <2>4, SeqEqual
        <2>. QED
            BY <2>5 DEF w
    <1>. QED
        BY <1>1, <1>2

\* The first of what is left joins what is done.
LEMMA OneMore ==
    ASSUME NEW S, NEW d \in Seq(S), NEW t \in Seq(S), t # << >>
    PROVE  Append(d, Head(t)) \o Tail(t) = d \o t
    <1>. DEFINE e == Head(t)
                u == Tail(t)
                one == <<e>>
    <1>1. e \in S /\ u \in Seq(S) /\ one \in Seq(S)
        BY HeadThenTail
    <1>5. one \o u = t
        BY HeadThenTail
    <1>. HIDE DEF u, e
    <1>2. Append(d, e) = d \o one
        BY <1>1, AppendIsConcat
    <1>. HIDE DEF one
    <1>3. (d \o one) \o u = d \o (one \o u)
        BY <1>1, ConcatAssociative
    <1>4. Append(d, e) \o u = d \o t
        BY <1>2, <1>3, <1>5
    <1>. QED
        BY <1>4 DEF e, u

\* And what is done of everything.
LEMMA OneMoreOfAll ==
    ASSUME NEW S, NEW b \in Seq(S), NEW d \in Seq(S), NEW e \in S
    PROVE  b \o Append(d, e) = Append(b \o d, e)
    <1>. DEFINE one == <<e>>
                bd == b \o d
    <1>1. one \in Seq(S) /\ bd \in Seq(S)
        OBVIOUS
    <1>2. Append(d, e) = d \o one
        BY <1>1, AppendIsConcat
    <1>3. Append(bd, e) = bd \o one
        <2>. HIDE DEF bd
        <2>. QED
            BY <1>1, AppendIsConcat
    <1>. HIDE DEF one
    <1>4. (b \o d) \o one = b \o (d \o one)
        BY <1>1, ConcatAssociative
    <1>. QED
        BY <1>2, <1>3, <1>4

\* A recorded rank is within its program.
LEMMA RanWithin ==
    ASSUME GroupInv, StateTypes, NEW d \in [Ranks -> Seq(Operations)], Recorded(d), NEW r \in Ranks
    PROVE  /\ config \in Configs /\ Within(config, r, step[r], d[r], todo[r])
           /\ step[r] \in Nat /\ Ran(r, d[r]) \in Seq(Operations)
    <1>1. config \in Configs
        BY DEF GroupInv
    <1>2. step[r] \in Nat
        BY TrainStepAssumption DEF StateTypes, Started
    <1>3. Within(config, r, step[r], d[r], todo[r])
        BY <1>2 DEF Within, StateTypes, Recorded
    <1>4. Run(config, r, step[r], d[r]) \in Seq(Operations)
        BY <1>1, <1>3, RunCount
    <1>. QED
        BY <1>1, <1>2, <1>3, <1>4 DEF Ran

\* An operation taken from what is to do is one done.
LEMMA OperationRecorded ==
    ASSUME GroupInv, StateTypes, StateTypes', NEW d \in [Ranks -> Seq(Operations)], Recorded(d),
           NEW r \in Ranks, NEW e, e = Now(r), todo[r] # << >>, Effect(r, e),
           todo' = [todo EXCEPT ![r] = Tail(@)], config' = config, step' = step
    PROVE  \E u \in [Ranks -> Seq(Operations)] : Recorded(u)'
    <1>. DEFINE u == [d EXCEPT ![r] = Append(@, e)]
                h(q) == Ran(q, d[q])
                g(q) == Run(config', q, step'[q], u[q])
    <1>1. /\ config \in Configs
          /\ \A q \in Ranks : h(q) \in Seq(Operations) /\ step[q] \in Nat
        BY RanWithin
    <1>2. d[r] \in Seq(Operations) /\ todo[r] \in Seq(Operations) /\ Before(config, r, step[r]) \in Seq(Operations)
        BY <1>1, BeforeStep DEF StateTypes
    <1>3. /\ e \in Operations
          /\ Append(d[r], e) \o Tail(todo[r]) = d[r] \o todo[r]
          /\ Before(config, r, step[r]) \o Append(d[r], e) = Append(Before(config, r, step[r]) \o d[r], e)
        <2>. DEFINE t == todo[r]
                    x == d[r]
                    b == Before(config, r, step[r])
        <2>1. x \in Seq(Operations) /\ t \in Seq(Operations) /\ b \in Seq(Operations) /\ t # << >>
            BY <1>2
        <2>2. e = Head(t)
            BY DEF Now
        <2>. HIDE DEF t, x, b
        <2>3. Head(t) \in Operations
            BY <2>1, HeadThenTail
        <2>4. e \in Operations
            BY <2>2, <2>3
        <2>5. Append(x, Head(t)) \o Tail(t) = x \o t
            BY <2>1, OneMore
        <2>6. b \o Append(x, e) = Append(b \o x, e)
            BY <2>1, <2>4, OneMoreOfAll
        <2>. QED
            BY <2>2, <2>4, <2>5, <2>6 DEF t, x, b
    <1>4. u \in [Ranks -> Seq(Operations)] /\ u[r] = Append(d[r], e) /\ \A q \in Ranks : q # r => u[q] = d[q]
        BY <1>2, <1>3
    <1>5. g(r) = Append(h(r), e) /\ \A q \in Ranks : q # r => g(q) = h(q)
        BY <1>3, <1>4 DEF Run, Ran
    <1>6. \A R : \A q \in Ranks :
             /\ Only(g(q), R) = IF q = r /\ e \in R THEN Append(Only(h(q), R), e) ELSE Only(h(q), R)
             /\ Tally(g(q), R) = Tally(h(q), R) + (IF q = r /\ e \in R THEN 1 ELSE 0)
        <2>. TAKE R
        <2>. TAKE q \in Ranks
        <2>1. Only(Append(h(r), e), R) = IF e \in R THEN Append(Only(h(r), R), e) ELSE Only(h(r), R)
            BY <1>1, <1>3, OnlyAppend
        <2>2. Only(h(q), R) \in Seq(Operations \cap R)
            BY <1>1, OnlyType
        <2>3. Only(g(q), R) = IF q = r /\ e \in R THEN Append(Only(h(q), R), e) ELSE Only(h(q), R)
            BY <1>5, <2>1
        <2>4. Tally(g(q), R) = Tally(h(q), R) + (IF q = r /\ e \in R THEN 1 ELSE 0)
            <3>. DEFINE o == Only(h(q), R)
                        V == Operations \cap R
            <3>. HIDE DEF o
            <3>1. o \in Seq(V)
                BY <2>2 DEF o
            <3>2. e \in R => e \in V
                BY <1>3
            <3>. HIDE DEF V
            <3>3. e \in R => Len(Append(o, e)) = Len(o) + 1
                BY <3>1, <3>2
            <3>4. Len(o) \in Nat
                BY <3>1
            <3>5. Tally(g(q), R) = IF q = r /\ e \in R THEN Len(Append(o, e)) ELSE Len(o)
                BY <2>3 DEF Tally, o
            <3>6. Tally(h(q), R) = Len(o)
                BY DEF Tally, o
            <3>. QED
                BY <3>3, <3>4, <3>5, <3>6
        <2>. QED
            BY <2>3, <2>4
    <1>. HIDE DEF u, g, h
    <1>7. ASSUME NEW q \in Ranks
          PROVE  u[q] \o todo'[q] = Program(config', q, step'[q])
        <2>1. d[q] \o todo[q] = Program(config, q, step[q])
            BY DEF Recorded
        <2>2. todo'[q] = IF q = r THEN Tail(todo[r]) ELSE todo[q]
            BY DEF StateTypes
        <2>. QED
            BY <1>3, <1>4, <2>1, <2>2
    <1>8. ASSUME NEW q \in Ranks, NEW k \in Kinds
          PROVE  Only(g(q), CallsOn(k)) = Calls(k, called'[q][k])
        <2>1. Only(h(q), CallsOn(k)) = Calls(k, called[q][k])
            BY DEF Recorded, h
        <2>2. called'[q][k] = IF q = r /\ e \in CallsOn(k) THEN Append(called[q][k], e.name) ELSE called[q][k]
            BY DEF Effect
        <2>3. CASE q = r /\ e \in CallsOn(k)
            <3>1. e.op = "call" /\ e.kind = k
                BY <1>3, <2>3, KindOf
            <3>2. e.name \in Names \X Seq(Nat) /\ e = Call(k, e.name)
                BY <1>3, <3>1, OneOperation
            <3>. DEFINE n == e.name
                        s == called[q][k]
                        S == Names \X Seq(Nat)
            <3>3. s \in Seq(S)
                BY DEF StateTypes
            <3>. HIDE DEF n, s, S
            <3>4. n \in S
                BY <3>2 DEF n, S
            <3>5. Calls(k, Append(s, n)) = Append(Calls(k, s), Call(k, n))
                BY <3>3, <3>4, CallsAppend
            <3>6. Only(g(q), CallsOn(k)) = Append(Only(h(q), CallsOn(k)), e)
                BY <1>6, <2>3
            <3>7. called'[q][k] = Append(s, n) /\ Only(h(q), CallsOn(k)) = Calls(k, s) /\ e = Call(k, n)
                BY <2>1, <2>2, <2>3, <3>2 DEF s, n
            <3>. QED
                BY <3>5, <3>6, <3>7
        <2>4. CASE ~(q = r /\ e \in CallsOn(k))
            BY <1>6, <2>1, <2>2, <2>4
        <2>. QED
            BY <2>3, <2>4
    <1>9. ASSUME NEW q \in Ranks, NEW k \in Kinds
          PROVE  waited'[q][k] = Tally(g(q), WaitsOn(k))
        <2>1. waited[q][k] = Tally(h(q), WaitsOn(k))
            BY DEF Recorded, h
        <2>2. waited'[q][k] = IF q = r /\ e \in WaitsOn(k) THEN waited[q][k] + 1 ELSE waited[q][k]
            BY DEF Effect
        <2>3. waited[q][k] \in Nat
            BY DEF StateTypes
        <2>. QED
            BY <1>6, <2>1, <2>2, <2>3
    <1>10. ASSUME NEW a \in Ranks, NEW b \in Ranks
           PROVE  Tally(g(a), {Send(b)}) = Tally(g(b), {Recv(a)}) + link'[<<a, b>>]
        <2>. DEFINE x == Tally(h(a), {Send(b)})
                    y == Tally(h(b), {Recv(a)})
                    s == IF a = r /\ e = Send(b) THEN 1 ELSE 0
                    v == IF b = r /\ e = Recv(a) THEN 1 ELSE 0
        <2>1. x = y + link[<<a, b>>]
            BY DEF Recorded, h
        <2>2. link'[<<a, b>>] + v = link[<<a, b>>] + s
            BY DEF Effect
        <2>3. Tally(g(a), {Send(b)}) = x + s
            <3>1. Tally(g(a), {Send(b)}) = x + (IF a = r /\ e \in {Send(b)} THEN 1 ELSE 0)
                BY <1>6
            <3>. QED
                BY <3>1
        <2>4. Tally(g(b), {Recv(a)}) = y + v
            <3>1. Tally(g(b), {Recv(a)}) = y + (IF b = r /\ e \in {Recv(a)} THEN 1 ELSE 0)
                BY <1>6
            <3>. QED
                BY <3>1
        <2>5. x \in Nat /\ y \in Nat /\ s \in Nat /\ v \in Nat
            BY <1>1, TallyType
        <2>6. link[<<a, b>>] \in Nat /\ link'[<<a, b>>] \in Nat
            BY DEF StateTypes
        <2>. DEFINE m == link[<<a, b>>]
                    n == link'[<<a, b>>]
        <2>. HIDE DEF x, y, s, v, m, n
        <2>7. x = y + m /\ n + v = m + s /\ m \in Nat /\ n \in Nat
            BY <2>1, <2>2, <2>6 DEF m, n
        <2>8. x + s = y + v + n
            BY <2>5, <2>7
        <2>. QED
            BY <2>3, <2>4, <2>8 DEF n
    <1>11. Recorded(u)'
        <2>1. ASSUME NEW q \in Ranks PROVE Ran(q, u[q])' = g(q)
            BY DEF Ran, g
        <2>2. \A q \in Ranks :
                 /\ u[q] \o todo'[q] = Program(config', q, step'[q])
                 /\ \A k \in Kinds : /\ Only(Ran(q, u[q])', CallsOn(k)) = Calls(k, called'[q][k])
                                     /\ waited'[q][k] = Tally(Ran(q, u[q])', WaitsOn(k))
                 /\ \A s \in Ranks :
                       Tally(Ran(q, u[q])', {Send(s)}) = Tally(Ran(s, u[s])', {Recv(q)}) + link'[<<q, s>>]
            BY <1>7, <1>8, <1>9, <1>10, <2>1
        <2>. QED
            BY <2>2 DEF Recorded
    <1>. QED
        BY <1>4, <1>11

\* A rank that begins its next step has done the last one.
LEMMA StepRecorded ==
    ASSUME GroupInv, StateTypes, NEW d \in [Ranks -> Seq(Operations)], Recorded(d),
           NEW r \in Ranks, BeginStep(r)
    PROVE  StateTypes' /\ \E u \in [Ranks -> Seq(Operations)] : Recorded(u)'
    <1>. DEFINE n == step[r]
                p == Program(config, r, n + 1)
    <1>1. /\ todo[r] = << >> /\ n <= NumSteps
          /\ step' = [step EXCEPT ![r] = @ + 1]
          /\ todo' = [todo EXCEPT ![r] = IF step[r] < NumSteps THEN StepPrograms[config][r]
                                        ELSE ShutdownOps(config)]
          /\ config' = config /\ called' = called /\ waited' = waited /\ link' = link
        BY DEF BeginStep
    <1>2. /\ config \in Configs /\ n \in Nat /\ NumSteps \in Nat /\ n \in Started /\ n + 1 \in Started
          /\ n + 1 \in Nat
        BY <1>1, TrainStepAssumption DEF GroupInv, StateTypes, Started
    <1>3. p = IF n < NumSteps THEN StepPrograms[config][r] ELSE ShutdownOps(config)
        <2>1. StepPrograms[config][r] = StepOps(config, r)
            BY <1>2 DEF StepPrograms
        <2>2. n + 1 # 0 /\ (n + 1 <= NumSteps <=> n < NumSteps)
            BY <1>2
        <2>. QED
            BY <2>1, <2>2 DEF Program
    <1>4. p \in Seq(Operations)
        BY <1>2, ProgramParts
    <1>. HIDE DEF p
    <1>5. /\ step' \in [Ranks -> Started] /\ step'[r] = n + 1 /\ \A q \in Ranks : q # r => step'[q] = step[q]
          /\ todo' \in [Ranks -> Seq(Operations)] /\ todo'[r] = p /\ \A q \in Ranks : q # r => todo'[q] = todo[q]
        BY <1>1, <1>2, <1>3, <1>4 DEF StateTypes
    <1>6. StateTypes'
        BY <1>1, <1>5 DEF StateTypes
    <1>. DEFINE none == << >>
                u == [d EXCEPT ![r] = none]
                h(q) == Ran(q, d[q])
                g(q) == Run(config', q, step'[q], u[q])
    <1>7. none \in Seq(Operations)
        OBVIOUS
    <1>8. u \in [Ranks -> Seq(Operations)] /\ u[r] = none /\ \A q \in Ranks : q # r => u[q] = d[q]
        BY <1>7
    <1>9. d[r] = Program(config, r, n)
        <2>1. d[r] \o todo[r] = Program(config, r, n) /\ d[r] \in Seq(Operations)
            BY DEF Recorded
        <2>2. d[r] \o << >> = d[r]
            BY <2>1
        <2>. QED
            BY <1>1, <2>1, <2>2
    <1>10. g(r) = h(r)
        <2>. DEFINE b == Before(config, r, n + 1)
        <2>1. b = Before(config, r, n) \o Program(config, r, n) /\ b \in Seq(Operations)
            BY <1>2, BeforeStep
        <2>2. h(r) = b
            BY <1>9, <2>1 DEF Ran, Run
        <2>3. g(r) = b \o none
            BY <1>1, <1>5, <1>8 DEF Run
        <2>. HIDE DEF b, g, h
        <2>4. b \o << >> = b
            BY <2>1
        <2>. QED
            BY <2>2, <2>3, <2>4
    <1>11. \A q \in Ranks : g(q) = h(q)
        <2>1. \A q \in Ranks : q # r => g(q) = h(q)
            BY <1>1, <1>5, <1>8 DEF Ran
        <2>. HIDE DEF g, h
        <2>. QED
            BY <1>10, <2>1
    <1>12. \A q \in Ranks : u[q] \o todo'[q] = Program(config', q, step'[q])
        <2>. TAKE q \in Ranks
        <2>1. CASE q = r
            <3>1. u[q] \o todo'[q] = none \o p /\ Program(config', q, step'[q]) = p
                BY <1>1, <1>5, <1>8, <2>1 DEF p
            <3>2. << >> \o p = p
                BY <1>4
            <3>. QED
                BY <3>1, <3>2
        <2>2. CASE q # r
            <3>1. d[q] \o todo[q] = Program(config, q, step[q])
                BY DEF Recorded
            <3>. QED
                BY <1>1, <1>5, <1>8, <2>2, <3>1
        <2>. QED
            BY <2>1, <2>2
    <1>. HIDE DEF g, h, u
    <1>13. Recorded(u)'
        <2>1. ASSUME NEW q \in Ranks PROVE Ran(q, u[q])' = h(q)
            BY <1>11 DEF Ran, g
        <2>2. ASSUME NEW q \in Ranks
              PROVE  /\ \A k \in Kinds : /\ Only(h(q), CallsOn(k)) = Calls(k, called'[q][k])
                                         /\ waited'[q][k] = Tally(h(q), WaitsOn(k))
                     /\ \A s \in Ranks : Tally(h(q), {Send(s)}) = Tally(h(s), {Recv(q)}) + link'[<<q, s>>]
            BY <1>1 DEF Recorded, h
        <2>3. \A q \in Ranks :
                 /\ u[q] \o todo'[q] = Program(config', q, step'[q])
                 /\ \A k \in Kinds : /\ Only(Ran(q, u[q])', CallsOn(k)) = Calls(k, called'[q][k])
                                     /\ waited'[q][k] = Tally(Ran(q, u[q])', WaitsOn(k))
                 /\ \A s \in Ranks :
                       Tally(Ran(q, u[q])', {Send(s)}) = Tally(Ran(s, u[s])', {Recv(q)}) + link'[<<q, s>>]
            BY <1>12, <2>1, <2>2
        <2>. QED
            BY <2>3 DEF Recorded
    <1>. QED
        BY <1>6, <1>8, <1>13

\* Nothing has been run at first.
LEMMA NothingRun ==
    ASSUME Init
    PROVE  GroupInv /\ StateTypes /\ \E d \in [Ranks -> Seq(Operations)] : Recorded(d)
    <1>. DEFINE none == << >>
                d == [r \in Ranks |-> none]
    <1>1. config \in Configs /\ GroupInv
        BY DEF Init, GroupInv
    <1>2. \A r \in Ranks : Program(config, r, 0) = ConstructOps(config, r)
        BY DEF Program
    <1>3. \A r \in Ranks : ConstructOps(config, r) \in Seq(Operations)
        <2>. TAKE r \in Ranks
        <2>1. Program(config, r, 0) \in Seq(Operations)
            BY <1>1, ProgramParts
        <2>. QED
            BY <1>2, <2>1
    <1>4. /\ \A r \in Ranks : step[r] = 0 /\ todo[r] = ConstructOps(config, r)
          /\ \A r \in Ranks : \A k \in Kinds : called[r][k] = << >> /\ waited[r][k] = 0
          /\ \A r \in Ranks : \A s \in Ranks : link[<<r, s>>] = 0
        BY DEF Init
    <1>5. StateTypes
        <2>1. 0 \in Started
            BY TrainStepAssumption DEF Started
        <2>2. step \in [Ranks -> Started] /\ link \in [Ranks \X Ranks -> Nat]
            BY <2>1 DEF Init
        <2>3. todo \in [Ranks -> Seq(Operations)]
            BY <1>3 DEF Init
        <2>4. called \in [Ranks -> [Kinds -> Seq(Names \X Seq(Nat))]]
            <3>1. called = [r \in Ranks |-> [k \in Kinds |-> none]] /\ none \in Seq(Names \X Seq(Nat))
                BY DEF Init
            <3>. HIDE DEF none
            <3>. QED
                BY <3>1
        <2>5. waited \in [Ranks -> [Kinds -> Nat]]
            BY DEF Init
        <2>. QED
            BY <2>2, <2>3, <2>4, <2>5 DEF StateTypes
    <1>6. d \in [Ranks -> Seq(Operations)] /\ \A r \in Ranks : d[r] = none
        <2>1. none \in Seq(Operations)
            OBVIOUS
        <2>. HIDE DEF none
        <2>. QED
            BY <2>1
    <1>7. \A r \in Ranks : Ran(r, d[r]) = << >>
        <2>. TAKE r \in Ranks
        <2>1. Before(config, r, 0) = << >>
            BY <1>1, BeforeStep
        <2>2. Ran(r, d[r]) = Before(config, r, 0) \o none
            BY <1>4, <1>6 DEF Ran, Run
        <2>. HIDE DEF d
        <2>3. << >> \o << >> = << >>
            OBVIOUS
        <2>. QED
            BY <2>1, <2>2, <2>3
    <1>8. Recorded(d)
        <2>1. \A R : Only(<< >>, R) = << >> /\ Tally(<< >>, R) = 0
            BY OnlyEmpty, TallyEmpty
        <2>2. \A k : Calls(k, << >>) = << >>
            BY DEF Calls
        <2>3. ASSUME NEW r \in Ranks PROVE d[r] \o todo[r] = Program(config, r, step[r])
            <3>. DEFINE p == ConstructOps(config, r)
            <3>1. p \in Seq(Operations) /\ todo[r] = p /\ Program(config, r, step[r]) = p
                BY <1>2, <1>3, <1>4
            <3>. HIDE DEF p
            <3>2. << >> \o p = p
                BY <3>1
            <3>. QED
                BY <1>6, <3>1, <3>2
        <2>4. ASSUME NEW r \in Ranks, NEW k \in Kinds
              PROVE  /\ Only(Ran(r, d[r]), CallsOn(k)) = Calls(k, called[r][k])
                     /\ waited[r][k] = Tally(Ran(r, d[r]), WaitsOn(k))
            <3>1. called[r][k] = << >> /\ waited[r][k] = 0
                BY <1>4
            <3>. HIDE DEF d
            <3>2. Only(Ran(r, d[r]), CallsOn(k)) = << >> /\ Tally(Ran(r, d[r]), WaitsOn(k)) = 0
                BY <1>7, <2>1
            <3>. QED
                BY <2>2, <3>1, <3>2
        <2>5. ASSUME NEW r \in Ranks, NEW s \in Ranks
              PROVE  Tally(Ran(r, d[r]), {Send(s)}) = Tally(Ran(s, d[s]), {Recv(r)}) + link[<<r, s>>]
            <3>1. link[<<r, s>>] = 0
                BY <1>4
            <3>. HIDE DEF d
            <3>2. Tally(Ran(r, d[r]), {Send(s)}) = 0 /\ Tally(Ran(s, d[s]), {Recv(r)}) = 0
                BY <1>7, <2>1
            <3>. QED
                BY <3>1, <3>2
        <2>. HIDE DEF d
        <2>. QED
            BY <2>3, <2>4, <2>5 DEF Recorded
    <1>. QED
        BY <1>1, <1>5, <1>6, <1>8

\* Every step is recorded.
LEMMA StepsRecorded ==
    ASSUME GroupInv, StateTypes, NEW d \in [Ranks -> Seq(Operations)], Recorded(d), [Next]_vars
    PROVE  StateTypes' /\ \E u \in [Ranks -> Seq(Operations)] : Recorded(u)'
    <1>1. ASSUME NEW r \in Ranks,
                 \/ CallCollective(r) \/ WaitCollective(r) \/ BroadcastEarly(r) \/ SendMessage(r)
                 \/ RecvMessage(r) \/ DrainSends(r) \/ DrainEarly(r)
          PROVE  StateTypes' /\ \E u \in [Ranks -> Seq(Operations)] : Recorded(u)'
        <2>1. /\ todo[r] # << >> /\ todo' = [todo EXCEPT ![r] = Tail(@)]
              /\ config' = config /\ step' = step
            BY <1>1 DEF CallCollective, WaitCollective, BroadcastEarly, SendMessage, RecvMessage,
                        DrainSends, DrainEarly, At, Continue
        <2>2. Effect(r, Now(r)) /\ StateTypes'
            BY <1>1, CallEffect, WaitEffect, SendEffect, RecvEffect, DrainEffect
        <2>3. PICK e : e = Now(r)
            OBVIOUS
        <2>4. Effect(r, e)
            BY <2>2, <2>3
        <2>. QED
            BY <2>1, <2>2, <2>3, <2>4, OperationRecorded
    <1>2. ASSUME NEW r \in Ranks, BeginStep(r)
          PROVE  StateTypes' /\ \E u \in [Ranks -> Seq(Operations)] : Recorded(u)'
        BY <1>2, StepRecorded
    <1>3. CASE UNCHANGED vars
        <2>1. StateTypes'
            BY <1>3 DEF vars, StateTypes
        <2>2. Recorded(d)'
            BY <1>3 DEF vars, Recorded, Ran
        <2>. QED
            BY <2>1, <2>2
    <1>. QED
        BY <1>1, <1>2, <1>3 DEF Next, RankStep, Terminating

-----------------------------------------------------------------------------
(* The calls of a rank are the first of all those it is going to make. *)

\* Sequences that begin with x.
Behind(x) == {y \in Seq(Operations) : \E z \in Seq(Operations) : y = x \o z}

\* What continues x still does when it continues further.
LEMMA BehindMore ==
    ASSUME NEW x \in Seq(Operations), NEW y \in Behind(x), NEW p \in Seq(Operations)
    PROVE  y \o p \in Behind(x)
    <1>1. \A z \in Seq(Operations) : (x \o z) \o p = x \o (z \o p) /\ z \o p \in Seq(Operations)
        <2>. TAKE z \in Seq(Operations)
        <2>1. (x \o z) \o p = x \o (z \o p)
            BY ConcatAssociative
        <2>. QED
            BY <2>1
    <1>2. y \o p \in Seq(Operations)
        BY DEF Behind
    <1>3. PICK z \in Seq(Operations) : y = x \o z
        BY DEF Behind
    <1>4. y \o p = x \o (z \o p) /\ z \o p \in Seq(Operations)
        BY <1>1, <1>3
    <1>. QED
        BY <1>2, <1>4 DEF Behind

\* What a rank has run before a step, it has run before a later one.
LEMMA BeforeExtends ==
    ASSUME NEW c \in Configs, NEW r \in Ranks, NEW m \in Nat, NEW n \in Nat, m <= n
    PROVE  Before(c, r, n) \in Behind(Before(c, r, m))
    <1>. DEFINE x == Before(c, r, m)
                Good == {i \in Nat : Before(c, r, m + i) \in Behind(x)}
    <1>1. x \in Seq(Operations)
        BY BeforeStep
    <1>2. 0 \in Good
        <2>1. m + 0 = m
            OBVIOUS
        <2>. DEFINE none == << >>
        <2>2. none \in Seq(Operations) /\ x \o none = x
            BY <1>1
        <2>. HIDE DEF x, none
        <2>3. x \in Behind(x)
            BY <1>1, <2>2 DEF Behind
        <2>. QED
            BY <2>1, <2>3 DEF x
    <1>3. ASSUME NEW i \in Nat, i \in Good PROVE i + 1 \in Good
        <2>. DEFINE j == m + i
                    b == Before(c, r, j)
                    p == Program(c, r, j)
        <2>1. j \in Nat /\ m + (i + 1) = j + 1
            OBVIOUS
        <2>. HIDE DEF j
        <2>2. b \in Behind(x)
            BY <1>3 DEF j
        <2>3. Before(c, r, j + 1) = b \o p /\ p \in Seq(Operations) /\ b \in Seq(Operations)
            BY <2>1, BeforeStep, ProgramParts
        <2>. HIDE DEF b, p, x
        <2>7. b \o p \in Behind(x)
            BY <1>1, <2>2, <2>3, BehindMore
        <2>8. Before(c, r, m + (i + 1)) \in Behind(x)
            BY <2>1, <2>3, <2>7
        <2>. QED
            BY <2>8 DEF x
    <1>4. Good = Nat
        <2>1. Good \in SUBSET Nat
            OBVIOUS
        <2>. HIDE DEF Good
        <2>. QED
            BY <1>2, <1>3, <2>1, SetInduction
    <1>. DEFINE i == n - m
    <1>5. i \in Nat /\ m + i = n
        OBVIOUS
    <1>. HIDE DEF i, x
    <1>6. Before(c, r, m + i) \in Behind(x)
        BY <1>4, <1>5
    <1>. QED
        BY <1>5, <1>6 DEF x

\* A whole run continues the run so far.
LEMMA RunExtends ==
    ASSUME NEW c \in Configs, NEW r \in Ranks, NEW n \in Started, NEW d, NEW t, Within(c, r, n, d, t)
    PROVE  Before(c, r, NumSteps + 2) \in Behind(Run(c, r, n, d))
    <1>. DEFINE f == Before(c, r, NumSteps + 2)
                b == Before(c, r, n + 1)
                x == Run(c, r, n, d)
    <1>1. n + 1 \in Nat /\ NumSteps + 2 \in Nat /\ n + 1 <= NumSteps + 2
        BY TrainStepAssumption DEF Started
    <1>2. f \in Behind(b)
        <2>. DEFINE m == n + 1
        <2>. HIDE DEF m
        <2>1. Before(c, r, NumSteps + 2) \in Behind(Before(c, r, m))
            BY <1>1, BeforeExtends DEF m
        <2>. QED
            BY <2>1 DEF m
    <1>10. x \in Seq(Operations)
        BY RunCount
    <1>3. x \o t = b
        BY RunCount
    <1>4. t \in Seq(Operations)
        BY DEF Within
    <1>. HIDE DEF f, b, x
    <1>5. \A z \in Seq(Operations) : (x \o t) \o z = x \o (t \o z) /\ t \o z \in Seq(Operations)
        <2>. TAKE z \in Seq(Operations)
        <2>1. (x \o t) \o z = x \o (t \o z)
            BY <1>10, <1>4, ConcatAssociative
        <2>. QED
            BY <1>4, <2>1
    <1>6. f \in Seq(Operations)
        BY <1>2 DEF Behind
    <1>7. PICK z \in Seq(Operations) : f = b \o z
        BY <1>2 DEF Behind
    <1>9. f = x \o (t \o z) /\ t \o z \in Seq(Operations)
        BY <1>3, <1>5, <1>7
    <1>8. f \in Behind(x)
        BY <1>6, <1>9 DEF Behind
    <1>. QED
        BY <1>8 DEF f, x

\* The first of R among the first operations are the first of R of all.
LEMMA OnlyFirst ==
    ASSUME NEW x \in Seq(Operations), NEW y \in Behind(x), NEW R
    PROVE  /\ Only(x, R) \in Seq(Operations \cap R) /\ Only(y, R) \in Seq(Operations \cap R)
           /\ Len(Only(x, R)) <= Len(Only(y, R))
           /\ \A i \in 1 .. Len(Only(x, R)) : Only(y, R)[i] = Only(x, R)[i]
    <1>1. PICK z \in Seq(Operations) : y = x \o z
        BY DEF Behind
    <1>2. Only(y, R) = Only(x, R) \o Only(z, R)
        BY <1>1, OnlyConcat
    <1>. DEFINE S == Operations \cap R
                a == Only(x, R)
                b == Only(z, R)
    <1>3. a \in Seq(S) /\ b \in Seq(S)
        BY OnlyType
    <1>. HIDE DEF S, a, b
    <1>4. a \o b \in Seq(S) /\ Len(a \o b) = Len(a) + Len(b) /\ Len(a) \in Nat /\ Len(b) \in Nat
          /\ \A i \in 1 .. Len(a) : (a \o b)[i] = a[i]
        BY <1>3
    <1>5. Len(a) <= Len(a \o b)
        BY <1>4
    <1>. QED
        BY <1>2, <1>3, <1>4, <1>5 DEF S, a, b

\* All that a rank ever calls on its group of a kind.
AllCalls(c, r, k) == Only(Before(c, r, NumSteps + 2), CallsOn(k))

\* What has been called, is there.
LEMMA CallInPlace ==
    ASSUME GroupInv, StateTypes, NEW d \in [Ranks -> Seq(Operations)], Recorded(d),
           NEW r \in Ranks, NEW k \in Kinds
    PROVE  /\ AllCalls(config, r, k) \in Seq(Operations \cap CallsOn(k))
           /\ Len(called[r][k]) = Tally(Ran(r, d[r]), CallsOn(k))
           /\ Len(called[r][k]) <= Len(AllCalls(config, r, k))
           /\ \A i \in 1 .. Len(called[r][k]) : AllCalls(config, r, k)[i] = Call(k, called[r][k][i])
    <1>. DEFINE x == Ran(r, d[r])
                y == Before(config, r, NumSteps + 2)
                s == called[r][k]
                R == CallsOn(k)
    <1>1. /\ config \in Configs /\ Within(config, r, step[r], d[r], todo[r])
          /\ x \in Seq(Operations)
        BY RanWithin
    <1>2. y \in Behind(x)
        BY <1>1, RunExtends DEF Ran, StateTypes
    <1>3. Only(x, R) = Calls(k, s)
        BY DEF Recorded
    <1>4. s \in Seq(Names \X Seq(Nat))
        BY DEF StateTypes
    <1>. HIDE DEF x, y, s, R
    <1>5. Len(s) \in Nat /\ Len(Calls(k, s)) = Len(s) /\ \A i \in 1 .. Len(s) : Calls(k, s)[i] = Call(k, s[i])
        BY <1>4 DEF Calls
    <1>6. /\ Only(y, R) \in Seq(Operations \cap R) /\ Len(Only(x, R)) <= Len(Only(y, R))
          /\ \A i \in 1 .. Len(Only(x, R)) : Only(y, R)[i] = Only(x, R)[i]
        BY <1>1, <1>2, OnlyFirst
    <1>7. Len(s) = Tally(x, R)
        BY <1>3, <1>5 DEF Tally
    <1>8. Len(s) <= Len(Only(y, R)) /\ \A i \in 1 .. Len(s) : Only(y, R)[i] = Call(k, s[i])
        BY <1>3, <1>5, <1>6
    <1>. QED
        BY <1>6, <1>7, <1>8 DEF AllCalls, x, y, s, R

\* Members of a group that are to call the same.
LEMMA AlongGroup ==
    ASSUME GroupInv, NEW r \in Ranks, NEW k \in Kinds, NEW s \in Members(r, k)
    PROVE  /\ s \in Ranks
           /\ k \in Axes => \A j \in Axes \ {k} : CoordOf(config.shape, s)[j] = CoordOf(config.shape, r)[j]
           /\ k \in {"tp", "dp"} => CoordOf(config.shape, s).pp = CoordOf(config.shape, r).pp
    <1>1. CASE k = "world"
        <2>1. group[r][k] = [i \in 1 .. World |-> i - 1]
            BY <1>1 DEF GroupInv, Kinds
        <2>2. PICK i \in 1 .. World : s = i - 1
            BY <2>1 DEF Members, Range
        <2>3. World \in Nat
            BY TrainStepAssumption
        <2>. QED
            BY <1>1, <2>2, <2>3 DEF Ranks, Axes
    <1>2. CASE k # "world"
        <2>1. k \in Axes
            BY <1>2 DEF Kinds, Axes
        <2>2. Members(r, k) = {q \in Ranks : \A j \in Axes \ {k} :
                                  CoordOf(config.shape, q)[j] = CoordOf(config.shape, r)[j]}
            BY <2>1, KeptGroup
        <2>3. s \in Ranks /\ \A j \in Axes \ {k} : CoordOf(config.shape, s)[j] = CoordOf(config.shape, r)[j]
            BY <2>2
        <2>4. k \in {"tp", "dp"} => "pp" \in Axes \ {k}
            BY DEF Axes
        <2>. QED
            BY <2>3, <2>4
    <1>. QED
        BY <1>1, <1>2

\* The members of a group call the same collectives on it in their whole runs.
LEMMA AllCallsMatch ==
    ASSUME GroupInv, NEW r \in Ranks, NEW k \in Kinds, NEW s \in Members(r, k)
    PROVE  AllCalls(config, s, k) = AllCalls(config, r, k)
    <1>1. config \in Configs /\ s \in Ranks /\ NumSteps + 2 \in Nat
        BY AlongGroup, TrainStepAssumption DEF GroupInv
    <1>2. k \in {"tp", "dp"} => CoordOf(config.shape, s).pp = CoordOf(config.shape, r).pp
        BY AlongGroup
    <1>. QED
        BY <1>1, <1>2, SameCallsBefore DEF AllCalls

\* The members of a group make the same calls, in the same places.
LEMMA CallsMatch ==
    ASSUME GroupInv, StateTypes, NEW d \in [Ranks -> Seq(Operations)], Recorded(d)
    PROVE  GroupCallsMatch
    <1>1. ASSUME NEW r \in Ranks, NEW k \in Kinds, Len(called[r][k]) > 0, NEW s \in Members(r, k),
                 Len(called[r][k]) <= Len(called[s][k])
          PROVE  called[s][k][Len(called[r][k])] = called[r][k][Len(called[r][k])]
        <2>. DEFINE i == Len(called[r][k])
                    a == called[r][k][i]
                    b == called[s][k][i]
        <2>1. s \in Ranks
            BY AlongGroup
        <2>2. Len(called[r][k]) \in Nat /\ Len(called[s][k]) \in Nat
            BY <2>1 DEF StateTypes
        <2>3. i \in 1 .. Len(called[r][k]) /\ i \in 1 .. Len(called[s][k])
            BY <1>1, <2>2
        <2>. HIDE DEF i
        <2>4. AllCalls(config, r, k)[i] = Call(k, a) /\ AllCalls(config, s, k)[i] = Call(k, b)
            BY <2>1, <2>3, CallInPlace
        <2>5. Call(k, a) = Call(k, b)
            BY <2>4, AllCallsMatch
        <2>6. Call(k, a).name = a /\ Call(k, b).name = b
            BY DEF Call
        <2>7. a = b
            BY <2>5, <2>6
        <2>. QED
            BY <2>7 DEF i
    <1>. QED
        BY <1>1 DEF GroupCallsMatch

-----------------------------------------------------------------------------
(* Where the broadcasts are: behind the construction, only of the loss. *)

\* What begins with the construction and goes on without broadcasts, but
\* those of the loss.
Starts(c, r) ==
    {x \in Seq(Operations) :
        \E y \in Seq(Others({"tp", "dp", "world"})) : x = Program(c, r, 0) \o y}

\* A run that has started still has when it goes on.
LEMMA AfterStart ==
    ASSUME NEW c \in Configs, NEW r \in Ranks, NEW x \in Starts(c, r),
           NEW p \in Seq(Others({"tp", "dp", "world"}))
    PROVE  x \o p \in Starts(c, r)
    <1>. DEFINE U == Others({"tp", "dp", "world"})
                q == Program(c, r, 0)
    <1>1. U \subseteq Operations
        BY DEF Others
    <1>2. q \in Seq(Operations)
        BY ProgramParts
    <1>3. x \in Seq(Operations) /\ \E y \in Seq(U) : x = q \o y
        BY DEF Starts
    <1>. HIDE DEF q
    <1>4. p \in Seq(U)
        OBVIOUS
    <1>. HIDE DEF U
    <1>5. \A y \in Seq(U) : (q \o y) \o p = q \o (y \o p) /\ y \o p \in Seq(U)
        <2>. TAKE y \in Seq(U)
        <2>1. y \in Seq(Operations) /\ p \in Seq(Operations)
            BY <1>1, <1>4, SeqMonotonic
        <2>2. (q \o y) \o p = q \o (y \o p)
            BY <1>2, <2>1, ConcatAssociative
        <2>. QED
            BY <1>4, <2>2
    <1>6. p \in Seq(Operations)
        BY <1>1, <1>4, SeqMonotonic
    <1>7. x \o p \in Seq(Operations)
        BY <1>3, <1>6
    <1>8. PICK y \in Seq(U) : x = q \o y
        BY <1>3
    <1>9. x \o p = q \o (y \o p) /\ y \o p \in Seq(U)
        BY <1>5, <1>8
    <1>. QED
        BY <1>7, <1>9 DEF Starts, U, q

\* A run past its first part has started.
LEMMA BeforeStarts ==
    ASSUME NEW c \in Configs, NEW r \in Ranks
    PROVE  \A n \in Nat : Before(c, r, n + 1) \in Starts(c, r)
    <1>. DEFINE Good == {n \in Nat : Before(c, r, n + 1) \in Starts(c, r)}
    <1>1. 0 \in Good
        <2>. DEFINE q == Program(c, r, 0)
                    none == << >>
                    U == Others({"tp", "dp", "world"})
        <2>1. Before(c, r, 0 + 1) = Before(c, r, 0) \o q /\ Before(c, r, 0) = none
            BY BeforeStep
        <2>2. q \in Seq(Operations)
            BY ProgramParts
        <2>. HIDE DEF q
        <2>3. none \o q = q /\ q \o none = q
            BY <2>2
        <2>. HIDE DEF U
        <2>4. none \in Seq(U)
            OBVIOUS
        <2>. HIDE DEF none
        <2>5. q \in Starts(c, r)
            BY <2>2, <2>3, <2>4 DEF Starts, U, q
        <2>6. Before(c, r, 0 + 1) = q
            BY <2>1, <2>3
        <2>. QED
            BY <2>5, <2>6
    <1>2. ASSUME NEW n \in Nat, n \in Good PROVE n + 1 \in Good
        <2>. DEFINE m == n + 1
                    p == Program(c, r, m)
        <2>1. m \in Nat /\ m > 0
            OBVIOUS
        <2>. HIDE DEF m
        <2>2. Before(c, r, m + 1) = Before(c, r, m) \o p
            BY <2>1, BeforeStep
        <2>3. p \in Seq(Others({"tp", "dp", "world"}))
            BY <2>1, ProgramParts
        <2>4. Before(c, r, m) \in Starts(c, r)
            BY <1>2 DEF m
        <2>. HIDE DEF p
        <2>5. Before(c, r, m) \o p \in Starts(c, r)
            BY <2>3, <2>4, AfterStart
        <2>6. Before(c, r, m + 1) \in Starts(c, r)
            BY <2>2, <2>5
        <2>. QED
            BY <2>6 DEF m
    <1>3. Good = Nat
        <2>1. Good \in SUBSET Nat
            OBVIOUS
        <2>. HIDE DEF Good
        <2>. QED
            BY <1>1, <1>2, <2>1, SetInduction
    <1>. QED
        BY <1>3

\* No broadcast on a tensor group or the world, and on a data group no other
\* than the first call.
LEMMA NoBroadcasts ==
    ASSUME NEW c \in Configs, NEW r \in Ranks, NEW k \in {"tp", "dp", "world"},
           NEW i \in 1 .. Len(AllCalls(c, r, k)), k = "dp" => i >= 2
    PROVE  AllCalls(c, r, k)[i] \in Others({k})
    <1>. DEFINE y == Before(c, r, NumSteps + 2)
                R == CallsOn(k)
                a == AllCalls(c, r, k)
    <1>1. NumSteps + 1 \in Nat /\ NumSteps + 2 \in Nat /\ (NumSteps + 1) + 1 = NumSteps + 2
        BY TrainStepAssumption
    <1>2. ASSUME NEW K, k \in K PROVE Others(K) \subseteq Others({k})
        <2>1. {k} \subseteq K
            BY <1>2
        <2>2. Broadcasts({k}) \subseteq Broadcasts(K)
            BY <2>1, FewerBroadcasts
        <2>. QED
            BY <2>2 DEF Others
    <1>3. CASE k # "dp"
        <2>. DEFINE U == Others({"tp", "world"})
        <2>1. k \in {"tp", "world"}
            BY <1>3
        <2>2. U \subseteq Others({k})
            BY <1>2, <2>1
        <2>3. y \in Seq(U)
            BY <1>1, BeforeOrders
        <2>4. a \in Seq(U \cap R)
            <3>. HIDE DEF U, y, R
            <3>1. Only(y, R) \in Seq(U \cap R)
                BY <2>3, OnlyType
            <3>. QED
                BY <3>1 DEF AllCalls, y, R
        <2>. HIDE DEF U, R
        <2>5. a[i] \in U
            BY <2>4
        <2>. QED
            BY <2>2, <2>5
    <1>4. CASE k = "dp"
        <2>. DEFINE U == Others({"tp", "dp", "world"})
                    q == Program(c, r, 0)
        <2>1. y \in Starts(c, r)
            <3>. DEFINE n == NumSteps + 1
            <3>1. n \in Nat /\ n + 1 = NumSteps + 2
                BY <1>1
            <3>. HIDE DEF n
            <3>2. Before(c, r, n + 1) \in Starts(c, r)
                BY <3>1, BeforeStarts
            <3>. QED
                BY <3>1, <3>2
        <2>2. PICK z \in Seq(U) : y = q \o z
            BY <2>1 DEF Starts
        <2>3. U \subseteq Operations /\ U \subseteq Others({k})
            <3>1. U \subseteq Others({k})
                BY <1>2, <1>4
            <3>. QED
                BY <3>1 DEF Others
        <2>4. q \in Seq(Operations)
            BY ProgramParts
        <2>5. Tally(q, R) <= 1
            <3>1. q = ConstructOps(c, r)
                BY DEF Program
            <3>2. Tally(ConstructOps(c, r), R) = IF Size(c, "dp") > 1 /\ c.strategy # "none" THEN 1 ELSE 0
                BY <1>4, ConstructParts
            <3>. QED
                BY <3>1, <3>2
        <2>. HIDE DEF U, q, y, R
        <2>6. z \in Seq(Operations)
            BY <2>3, SeqMonotonic
        <2>. DEFINE f == Only(q, R)
                    g == Only(z, R)
        <2>7. a = f \o g
            <3>1. Only(q \o z, R) = f \o g
                BY <2>4, <2>6, OnlyConcat
            <3>. QED
                BY <2>2, <3>1 DEF AllCalls, y, R
        <2>8. f \in Seq(Operations \cap R) /\ g \in Seq(U \cap R)
            BY <2>4, OnlyType
        <2>9. Len(f) <= 1
            BY <2>5 DEF Tally
        <2>. HIDE DEF f, g, a
        <2>10. g \in Seq(U)
            <3>1. U \cap R \subseteq U
                OBVIOUS
            <3>. QED
                BY <2>8, <3>1, SeqMonotonic
        <2>11. f \in Seq(Operations) /\ g \in Seq(Operations)
            <3>1. Operations \cap R \subseteq Operations
                OBVIOUS
            <3>. QED
                BY <2>3, <2>8, <2>10, <3>1, SeqMonotonic
        <2>12. Len(f \o g) = Len(f) + Len(g) /\ Len(f) \in Nat /\ Len(g) \in Nat
               /\ \A j \in 1 .. Len(f) + Len(g) : (f \o g)[j] = IF j <= Len(f) THEN f[j] ELSE g[j - Len(f)]
            BY <2>11
        <2>13. i \in 1 .. Len(f \o g) /\ i >= 2 /\ i \in Nat
            <3>1. i \in 1 .. Len(a) /\ i >= 2
                BY <1>4 DEF a
            <3>. QED
                BY <2>7, <3>1
        <2>14. i - Len(f) \in 1 .. Len(g) /\ i > Len(f)
            BY <2>9, <2>12, <2>13
        <2>15. (f \o g)[i] = g[i - Len(f)]
            BY <2>12, <2>13, <2>14
        <2>16. g[i - Len(f)] \in U
            BY <2>10, <2>14
        <2>17. a[i] \in U
            BY <2>7, <2>15, <2>16
        <2>. QED
            BY <2>3, <2>17 DEF a
    <1>. QED
        BY <1>3, <1>4

-----------------------------------------------------------------------------
(* What is waited for. *)

\* The tally after one more operation.
LEMMA TallyAppend ==
    ASSUME NEW s \in Seq(Operations), NEW e \in Operations, NEW R
    PROVE  /\ Tally(s, R) \in Nat
           /\ Tally(Append(s, e), R) = Tally(s, R) + (IF e \in R THEN 1 ELSE 0)
    <1>1. Only(Append(s, e), R) = IF e \in R THEN Append(Only(s, R), e) ELSE Only(s, R)
        BY OnlyAppend
    <1>2. Only(s, R) \in Seq(Operations \cap R)
        BY OnlyType
    <1>. DEFINE o == Only(s, R)
                V == Operations \cap R
    <1>3. e \in R => e \in V
        OBVIOUS
    <1>. HIDE DEF o, V
    <1>4. o \in Seq(V)
        BY <1>2 DEF o, V
    <1>5. Len(o) \in Nat /\ (e \in R => Len(Append(o, e)) = Len(o) + 1)
        BY <1>3, <1>4
    <1>6. Tally(Append(s, e), R) = IF e \in R THEN Len(Append(o, e)) ELSE Len(o)
        BY <1>1 DEF Tally, o
    <1>7. Tally(s, R) = Len(o)
        BY DEF Tally, o
    <1>. QED
        BY <1>5, <1>6, <1>7

\* What is done and what is left of a step are all of it.
LEMMA RunAll ==
    ASSUME NEW c \in Configs, NEW r \in Ranks, NEW n, NEW d, NEW t, Within(c, r, n, d, t)
    PROVE  Run(c, r, n, d) \o t = Before(c, r, n + 1)
    <1>. DEFINE b == Before(c, r, n)
    <1>1. n \in Nat /\ d \in Seq(Operations) /\ t \in Seq(Operations) /\ d \o t = Program(c, r, n)
        BY DEF Within
    <1>2. b \in Seq(Operations) /\ Before(c, r, n + 1) = b \o (d \o t)
        BY <1>1, BeforeStep
    <1>. HIDE DEF b
    <1>3. (b \o d) \o t = b \o (d \o t)
        <2>1. b \in Seq(Operations) /\ d \in Seq(Operations) /\ t \in Seq(Operations)
            BY <1>1, <1>2
        <2>. QED
            BY <2>1, ConcatAssociative
    <1>. QED
        BY <1>2, <1>3 DEF b, Run

\* A rank waits for what it has called.
LEMMA WaitsBehind ==
    ASSUME GroupInv, StateTypes, NEW d \in [Ranks -> Seq(Operations)], Recorded(d),
           NEW r \in Ranks, NEW k \in Kinds
    PROVE  /\ waited[r][k] \in Nat /\ Len(called[r][k]) \in Nat
           /\ waited[r][k] <= Len(called[r][k])
           /\ todo[r] # << >> /\ Now(r).op = "wait" /\ Now(r).kind = k => waited[r][k] < Len(called[r][k])
    <1>. DEFINE x == Ran(r, d[r])
                n == step[r]
                W == WaitsOn(k)
                C == CallsOn(k)
                t == todo[r]
    <1>1. /\ config \in Configs /\ Within(config, r, n, d[r], t)
          /\ x \in Seq(Operations) /\ n + 1 \in Nat
        BY RanWithin
    <1>2. x \o t = Before(config, r, n + 1)
        <2>. DEFINE o == d[r]
                    c == config
        <2>1. c \in Configs /\ Within(c, r, n, o, t)
            BY <1>1
        <2>. HIDE DEF o, t, n, c
        <2>2. Run(c, r, n, o) \o t = Before(c, r, n + 1)
            BY <2>1, RunAll
        <2>. QED
            BY <2>2 DEF Ran, o, n, c
    <1>3. Before(config, r, n + 1) \in Leading(Operations, W, C)
        BY <1>1, BeforeOrders DEF PairedOn
    <1>4. t \in Seq(Operations)
        BY DEF StateTypes
    <1>5. Len(called[r][k]) = Tally(x, C) /\ waited[r][k] = Tally(x, W)
        BY CallInPlace DEF Recorded
    <1>. HIDE DEF x, t, W, C
    <1>6. \A a, b \in Seq(Operations) : a \o b = x \o t => Tally(a, W) <= Tally(a, C)
        BY <1>2, <1>3 DEF Leading
    <1>7. Tally(x, W) <= Tally(x, C) /\ Tally(x, W) \in Nat /\ Tally(x, C) \in Nat
        BY <1>1, <1>4, <1>6, TallyType
    <1>8. ASSUME t # << >>, Head(t).op = "wait", Head(t).kind = k
          PROVE  Tally(x, W) < Tally(x, C)
        <2>. DEFINE e == Head(t)
                    u == Tail(t)
        <2>1. e \in Operations /\ u \in Seq(Operations)
            BY <1>4, <1>8
        <2>2. Append(x, e) \o u = x \o t
            BY <1>1, <1>4, <1>8, OneMore
        <2>3. e \in W /\ e \notin C
            BY <1>8, <2>1, KindOf DEF W, C
        <2>. HIDE DEF e, u
        <2>4. Append(x, e) \in Seq(Operations)
            BY <1>1, <2>1
        <2>5. Tally(Append(x, e), W) <= Tally(Append(x, e), C)
            BY <1>6, <2>1, <2>2, <2>4
        <2>6. Tally(Append(x, e), W) = Tally(x, W) + 1 /\ Tally(Append(x, e), C) = Tally(x, C) + 0
            BY <1>1, <2>1, <2>3, TallyAppend
        <2>. QED
            BY <1>7, <2>5, <2>6
    <1>. QED
        BY <1>5, <1>7, <1>8 DEF Now, t

\* No call is taken back.
LEMMA CallsStay ==
    ASSUME StateTypes, [Next]_vars, NEW s \in Ranks, NEW k \in Kinds
    PROVE  Len(called[s][k]) \in Nat /\ Len(called'[s][k]) >= Len(called[s][k])
    <1>1. called[s][k] \in Seq(Names \X Seq(Nat))
        BY DEF StateTypes
    <1>2. Len(called[s][k]) \in Nat
        BY <1>1
    <1>3. ASSUME NEW r \in Ranks, CallCollective(r)
          PROVE  Len(called'[s][k]) >= Len(called[s][k])
        <2>1. Effect(r, Now(r))
            BY <1>3, CallEffect
        <2>. DEFINE e == Now(r)
                    o == called[s][k]
        <2>2. called'[s][k] = IF s = r /\ e \in CallsOn(k) THEN Append(o, e.name) ELSE o
            BY <2>1 DEF Effect
        <2>3. e \in CallsOn(k) => e.name \in Names \X Seq(Nat)
            <3>1. todo[r] # << >> /\ e = Head(todo[r]) /\ todo[r] \in Seq(Operations)
                BY <1>3 DEF CallCollective, At, Now, StateTypes
            <3>2. e \in Operations
                BY <3>1
            <3>. QED
                BY <3>2, KindOf, OneOperation
        <2>. HIDE DEF e, o
        <2>. DEFINE V == Names \X Seq(Nat)
        <2>4. o \in Seq(V) /\ (e \in CallsOn(k) => e.name \in V)
            BY <1>1, <2>3 DEF o
        <2>. HIDE DEF V
        <2>5. Len(o) \in Nat /\ (e \in CallsOn(k) => Len(Append(o, e.name)) = Len(o) + 1)
            BY <2>4
        <2>. QED
            BY <2>2, <2>5 DEF o
    <1>4. ASSUME called' = called
          PROVE  Len(called'[s][k]) >= Len(called[s][k])
        BY <1>2, <1>4
    <1>. QED
        BY <1>2, <1>3, <1>4 DEF Next, RankStep, BeginStep, WaitCollective, SendMessage, RecvMessage,
                                DrainSends, BroadcastEarly, DrainEarly, Terminating, vars

\* Who returns early from a wait on a tensor group, the world, or on a data
\* group but the first time, returns from no broadcast.
LEMMA EarlyWait ==
    ASSUME GroupInv, StateTypes, NEW d \in [Ranks -> Seq(Operations)], Recorded(d),
           NEW r \in Ranks, BroadcastEarly(r), NEW k \in {"tp", "dp", "world"}, Now(r).kind = k,
           k = "dp" => waited[r][k] >= 1
    PROVE  FALSE
    <1>. DEFINE i == waited[r][k] + 1
                a == AllCalls(config, r, k)
                x == called[r][k][i]
    <1>1. /\ todo[r] # << >> /\ Now(r).op = "wait"
          /\ x[1] \in {"loss", "parameters"}
        BY DEF BroadcastEarly, At, Now
    <1>2. k \in Kinds /\ config \in Configs
        BY DEF Kinds, GroupInv
    <1>3. /\ waited[r][k] \in Nat /\ Len(called[r][k]) \in Nat
          /\ waited[r][k] < Len(called[r][k])
        BY <1>1, <1>2, WaitsBehind
    <1>4. i \in 1 .. Len(called[r][k]) /\ (k = "dp" => i >= 2)
        BY <1>3
    <1>5. /\ a \in Seq(Operations \cap CallsOn(k)) /\ Len(called[r][k]) <= Len(a)
          /\ \A j \in 1 .. Len(called[r][k]) : a[j] = Call(k, called[r][k][j])
        BY <1>2, CallInPlace
    <1>. HIDE DEF i
    <1>6. i \in 1 .. Len(a) /\ a[i] = Call(k, x)
        <2>1. Len(a) \in Nat
            BY <1>5
        <2>. HIDE DEF a
        <2>. QED
            BY <1>3, <1>4, <1>5, <2>1
    <1>7. a[i] \in Operations
        <2>. HIDE DEF a
        <2>. QED
            BY <1>5, <1>6
    <1>8. a[i] \in Others({k})
        BY <1>2, <1>4, <1>6, NoBroadcasts
    <1>. HIDE DEF a, x
    <1>9. Call(k, x).op = "call" /\ Call(k, x).kind = k /\ Call(k, x).name = x
        BY DEF Call
    <1>10. a[i] \in Broadcasts({k})
        BY <1>1, <1>6, <1>7, <1>9 DEF Broadcasts
    <1>. QED
        BY <1>8, <1>10 DEF Others

\* No step undoes what a wait has met.
LEMMA WaitsStayMet ==
    ASSUME GroupInv, StateTypes, NEW d \in [Ranks -> Seq(Operations)], Recorded(d), WaitsMet,
           [Next]_vars
    PROVE  WaitsMet'
    <1>1. group' = group /\ config' = config
        BY DEF Next, RankStep, BeginStep, CallCollective, WaitCollective, SendMessage,
               RecvMessage, DrainSends, BroadcastEarly, DrainEarly, Terminating, vars
    <1>2. \A s \in Ranks : \A k \in Kinds :
             Len(called[s][k]) \in Nat /\ Len(called'[s][k]) \in Nat /\ Len(called'[s][k]) >= Len(called[s][k])
        <2>1. StateTypes'
            BY StepsRecorded
        <2>2. \A s \in Ranks : \A k \in Kinds : Len(called'[s][k]) \in Nat
            BY <2>1 DEF StateTypes
        <2>. QED
            BY <2>2, CallsStay
    <1>3. \A r \in Ranks : \A k \in Kinds : Members(r, k)' = Members(r, k)
        BY <1>1 DEF Members
    <1>4. \A r \in Ranks : \A k \in Kinds : \A s \in Members(r, k) : s \in Ranks
        BY AlongGroup
    <1>5. ASSUME waited' = waited
          PROVE  WaitsMet'
        <2>1. ASSUME NEW r \in Ranks, NEW k \in {"tp", "dp", "world"}, k # "dp" \/ waited'[r][k] >= 2,
                     NEW s \in Members(r, k)
              PROVE  waited'[r][k] <= Len(called'[s][k])
            <3>1. waited[r][k] <= Len(called[s][k])
                BY <1>5, <2>1 DEF WaitsMet
            <3>2. k \in Kinds /\ s \in Ranks
                BY <1>4 DEF Kinds
            <3>3. waited[r][k] \in Nat
                BY <3>2 DEF StateTypes
            <3>. QED
                BY <1>2, <1>5, <3>1, <3>2, <3>3
        <2>. QED
            BY <1>3, <2>1 DEF WaitsMet, Kinds
    <1>6. ASSUME NEW q \in Ranks, WaitCollective(q) \/ BroadcastEarly(q)
          PROVE  WaitsMet'
        <2>. DEFINE e == Now(q)
        <2>1. /\ Effect(q, e) /\ e.op = "wait" /\ e.kind \in Kinds
              /\ called' = called /\ todo[q] # << >>
            BY <1>6, WaitEffect DEF WaitCollective, BroadcastEarly, At
        <2>2. e \in Operations
            BY <2>1 DEF Now, StateTypes
        <2>3. \A k : e \in WaitsOn(k) <=> e.kind = k
            BY <2>1, <2>2, KindOf
        <2>. HIDE DEF e
        <2>4. ASSUME NEW r \in Ranks, NEW k \in {"tp", "dp", "world"}, k # "dp" \/ waited'[r][k] >= 2,
                     NEW s \in Members(r, k)
              PROVE  waited'[r][k] <= Len(called'[s][k])
            <3>1. k \in Kinds /\ s \in Ranks
                BY <1>4 DEF Kinds
            <3>2. waited[r][k] \in Nat
                BY <3>1 DEF StateTypes
            <3>3. waited'[r][k] = IF r = q /\ e.kind = k THEN waited[r][k] + 1 ELSE waited[r][k]
                BY <2>1, <2>3, <3>1 DEF Effect
            <3>4. CASE r = q /\ e.kind = k
                <4>1. waited'[r][k] = waited[r][k] + 1
                    BY <3>3, <3>4
                <4>2. k = "dp" => waited[r][k] >= 1
                    BY <2>4, <3>2, <4>1
                <4>3. ~BroadcastEarly(r)
                    BY <3>4, <4>2, EarlyWait DEF e
                <4>4. Returned(r, k)
                    BY <1>6, <3>4, <4>3 DEF WaitCollective, e
                <4>5. Len(called[s][k]) > waited[r][k]
                    BY <4>4 DEF Returned
                <4>. QED
                    BY <1>2, <2>1, <3>1, <3>2, <4>1, <4>5
            <3>5. CASE ~(r = q /\ e.kind = k)
                <4>1. waited'[r][k] = waited[r][k]
                    BY <3>3, <3>5
                <4>2. waited[r][k] <= Len(called[s][k])
                    BY <2>4, <4>1 DEF WaitsMet
                <4>. QED
                    BY <2>1, <4>1, <4>2
            <3>. QED
                BY <3>4, <3>5
        <2>. QED
            BY <1>3, <2>4 DEF WaitsMet, Kinds
    <1>. QED
        BY <1>5, <1>6 DEF Next, RankStep, BeginStep, CallCollective, SendMessage, RecvMessage,
                          DrainSends, DrainEarly, Terminating, vars

\* The record and the waits stay what they are in every step.
LEMMA RunStays == RunInv /\ [Next]_vars => RunInv'
    <1>. SUFFICES ASSUME RunInv, [Next]_vars PROVE RunInv'
        OBVIOUS
    <1>1. PICK d \in [Ranks -> Seq(Operations)] : Recorded(d)
        BY DEF RunInv
    <1>2. GroupInv /\ StateTypes /\ WaitsMet
        BY DEF RunInv
    <1>3. GroupInv'
        BY <1>2, GroupsStay
    <1>4. StateTypes' /\ \E u \in [Ranks -> Seq(Operations)] : Recorded(u)'
        BY <1>1, <1>2, StepsRecorded
    <1>5. WaitsMet'
        BY <1>1, <1>2, WaitsStayMet
    <1>. QED
        BY <1>3, <1>4, <1>5 DEF RunInv

\* The invariant holds at the start.
LEMMA RunStarts == Init => RunInv
    <1>. SUFFICES ASSUME Init PROVE RunInv
        OBVIOUS
    <1>1. GroupInv /\ StateTypes /\ \E d \in [Ranks -> Seq(Operations)] : Recorded(d)
        BY NothingRun
    <1>2. \A r \in Ranks : \A k \in Kinds : waited[r][k] = 0
        BY DEF Init
    <1>3. WaitsMet
        <2>1. ASSUME NEW r \in Ranks, NEW k \in {"tp", "dp", "world"}, NEW s \in Members(r, k)
              PROVE  waited[r][k] <= Len(called[s][k])
            <3>1. k \in Kinds
                BY DEF Kinds
            <3>2. s \in Ranks
                BY <1>1, <3>1, AlongGroup
            <3>3. Len(called[s][k]) \in Nat
                BY <1>1, <3>1, <3>2 DEF StateTypes
            <3>. QED
                BY <1>2, <3>1, <3>3
        <2>. QED
            BY <2>1 DEF WaitsMet
    <1>. QED
        BY <1>1, <1>3 DEF RunInv

-----------------------------------------------------------------------------
(* How far a rank is. *)

\* A state in which rank r has done d[r] of its step.
Recording(d) ==
    /\ d \in [Ranks -> Seq(Operations)] /\ config \in Configs
    /\ GroupInv /\ StateTypes /\ WaitsMet /\ Recorded(d)

\* How often a rank has done something of R.
Count(d, r, R) == Tally(Ran(r, d[r]), R)

\* In step j, or beyond it, it has done some.
Gone(d, r, R, j) == Count(d, r, R) > Tally(Before(config, r, j), R)

\* How a rank's tallies compare with those of whole parts.
LEMMA CountFacts ==
    ASSUME NEW d, Recording(d), NEW r \in Ranks, NEW R, NEW j \in Nat
    PROVE  /\ Count(d, r, R) \in Nat /\ Tally(Before(config, r, j), R) \in Nat
           /\ step[r] \in Nat /\ step[r] \in Started
           /\ Gone(d, r, R, j) => step[r] >= j
           /\ step[r] >= j => Count(d, r, R) >= Tally(Before(config, r, j), R)
           /\ Count(d, r, R) <= Tally(Before(config, r, step[r] + 1), R)
    <1>. DEFINE n == step[r]
                o == d[r]
                t == todo[r]
                c == config
    <1>1. d \in [Ranks -> Seq(Operations)] /\ GroupInv /\ StateTypes /\ Recorded(d)
        BY DEF Recording
    <1>2. /\ c \in Configs /\ Within(c, r, n, o, t) /\ n \in Nat
          /\ Ran(r, o) \in Seq(Operations) /\ n \in Started
        BY <1>1, RanWithin DEF StateTypes
    <1>. HIDE DEF n, o, t, c
    <1>3. Tally(Before(c, r, j), R) \in Nat
        BY <1>2, BeforeCount
    <1>4. /\ Tally(Run(c, r, n, o), R) > Tally(Before(c, r, j), R) => n >= j
          /\ n >= j => Tally(Run(c, r, n, o), R) >= Tally(Before(c, r, j), R)
        BY <1>2, Reached
    <1>5. /\ Tally(o, R) \in Nat /\ Tally(t, R) \in Nat /\ Tally(Before(c, r, n), R) \in Nat
          /\ Tally(Run(c, r, n, o), R) = Tally(Before(c, r, n), R) + Tally(o, R)
          /\ Tally(Before(c, r, n + 1), R) = Tally(Before(c, r, n), R) + Tally(o, R) + Tally(t, R)
        BY <1>2, RunCount
    <1>6. Tally(Run(c, r, n, o), R) \in Nat /\ Tally(Run(c, r, n, o), R) <= Tally(Before(c, r, n + 1), R)
        BY <1>5
    <1>7. Count(d, r, R) = Tally(Run(c, r, n, o), R)
        BY DEF Count, Ran, n, o, c
    <1>. QED
        BY <1>2, <1>3, <1>4, <1>6, <1>7 DEF Gone, n, c

\* In a training step the program is that of a step.
LEMMA TrainingStep ==
    ASSUME NEW c, NEW r, NEW j \in 1 .. NumSteps
    PROVE  Program(c, r, j) = StepOps(c, r) /\ j \in Nat
    <1>1. NumSteps \in Nat
        BY TrainStepAssumption
    <1>2. j # 0 /\ j <= NumSteps /\ j \in Nat
        BY <1>1
    <1>. QED
        BY <1>2 DEF Program

\* Where every R of a step has a Q before it, who has done an R has done a Q.
LEMMA GoneBefore ==
    ASSUME NEW d, Recording(d), NEW r \in Ranks, NEW R, NEW Q, NEW j \in 1 .. NumSteps,
           StepOps(config, r) \in Leading(Operations, R, Q), Tally(StepOps(config, r), Q) > 0,
           Gone(d, r, R, j)
    PROVE  Gone(d, r, Q, j)
    <1>. DEFINE n == step[r]
                o == d[r]
                t == todo[r]
                c == config
    <1>1. d \in [Ranks -> Seq(Operations)] /\ GroupInv /\ StateTypes /\ Recorded(d)
        BY DEF Recording
    <1>2. c \in Configs /\ Within(c, r, n, o, t)
        BY <1>1, RanWithin
    <1>3. Program(c, r, j) = StepOps(c, r) /\ j \in Nat
        BY TrainingStep
    <1>4. Tally(Run(c, r, n, o), R) > Tally(Before(c, r, j), R)
        BY DEF Gone, Count, Ran
    <1>5. Program(c, r, j) \in Leading(Operations, R, Q) /\ Tally(Program(c, r, j), Q) > 0
        BY <1>3
    <1>. HIDE DEF n, o, t, c
    <1>6. Tally(Run(c, r, n, o), Q) > Tally(Before(c, r, j), Q)
        BY <1>2, <1>3, <1>4, <1>5, Carries
    <1>. QED
        BY <1>6 DEF Gone, Count, Ran, n, o, c

\* A rank that is through the schedule of step j, or the forward.
Passed(d, r, j) ==
    \/ step[r] > j
    \/ step[r] = j /\ \E z \in Seq(Operations) : d[r] = Fore(config, r) \o z

\* A rank that has passed the front of step j has done of it all that the front has.
LEMMA PassedGone ==
    ASSUME NEW d, Recording(d), NEW r \in Ranks, NEW j \in 1 .. NumSteps, Passed(d, r, j),
           NEW R, Tally(Fore(config, r), R) > 0
    PROVE  Gone(d, r, R, j)
    <1>. DEFINE n == step[r]
                c == config
                f == Fore(c, r)
                b == Back(c, r)
                m == j + 1
    <1>1. c \in Configs /\ n \in Nat /\ j \in Nat /\ m \in Nat
        <2>1. n \in Nat /\ config \in Configs
            BY RanWithin DEF Recording
        <2>2. j \in Nat
            BY TrainingStep
        <2>. QED
            BY <2>1, <2>2
    <1>2. f \in Seq(Operations) /\ b \in Seq(Operations) /\ StepOps(c, r) = f \o b
        <2>1. /\ StepOps(c, r) = f \o b
              /\ f \in Seq(TrainOps) /\ b \in Seq(TpOps \cup DpOps \cup LossOps \cup ScalerOps)
            BY <1>1, BackParts
        <2>2. TrainOps \subseteq Operations /\ TpOps \cup DpOps \cup LossOps \cup ScalerOps \subseteq Operations
            BY TrainSets
        <2>. QED
            BY <2>1, <2>2, SeqMonotonic
    <1>3. Program(c, r, j) = f \o b
        BY <1>2, TrainingStep
    <1>. HIDE DEF f, b
    <1>4. Tally(f \o b, R) = Tally(f, R) + Tally(b, R) /\ Tally(f, R) \in Nat /\ Tally(b, R) \in Nat
        BY <1>2, TallyConcat, TallyType
    <1>5. Tally(f, R) > 0
        BY DEF f
    <1>6. CASE n > j
        <2>1. n >= m
            BY <1>1, <1>6
        <2>2. Count(d, r, R) >= Tally(Before(c, r, m), R) /\ Count(d, r, R) \in Nat
            <3>. HIDE DEF m
            <3>. QED
                BY <1>1, <2>1, CountFacts
        <2>3. Tally(Before(c, r, m), R) = Tally(Before(c, r, j), R) + Tally(Program(c, r, j), R)
              /\ Tally(Before(c, r, j), R) \in Nat
            BY <1>1, BeforeCount
        <2>. HIDE DEF m
        <2>4. Count(d, r, R) > Tally(Before(c, r, j), R)
            BY <1>3, <1>4, <1>5, <2>2, <2>3
        <2>. QED
            BY <2>4 DEF Gone
    <1>7. CASE ~(n > j)
        <2>1. n = j /\ \E z \in Seq(Operations) : d[r] = f \o z
            BY <1>7 DEF Passed, f
        <2>2. PICK z \in Seq(Operations) : d[r] = f \o z
            BY <2>1
        <2>3. Tally(f \o z, R) = Tally(f, R) + Tally(z, R) /\ Tally(z, R) \in Nat
            BY <1>2, TallyConcat, TallyType
        <2>4. Within(c, r, n, d[r], todo[r])
            BY RanWithin DEF Recording
        <2>. DEFINE o == d[r]
                    t == todo[r]
        <2>. HIDE DEF o, t, n
        <2>5. Tally(Run(c, r, n, o), R) = Tally(Before(c, r, n), R) + Tally(o, R)
              /\ Tally(Before(c, r, n), R) \in Nat
            <3>1. Within(c, r, n, o, t)
                BY <2>4 DEF o, t
            <3>. QED
                BY <1>1, <3>1, RunCount
        <2>6. Tally(o, R) = Tally(f, R) + Tally(z, R)
            BY <2>2, <2>3 DEF o
        <2>7. Tally(Run(c, r, n, o), R) > Tally(Before(c, r, n), R)
            BY <1>4, <1>5, <2>3, <2>5, <2>6
        <2>8. Tally(Run(c, r, n, o), R) > Tally(Before(c, r, j), R)
            BY <2>1, <2>7
        <2>. QED
            BY <2>8 DEF Gone, Count, Ran, o, n
    <1>. QED
        BY <1>6, <1>7

-----------------------------------------------------------------------------
(* From a rank to those it waits for. *)

\* Who has received from a neighbour in a step has a neighbour in the step.
LEMMA MessageHop ==
    ASSUME NEW d, Recording(d), NEW r \in Ranks, NEW p, NEW j \in 1 .. NumSteps,
           \/ ~IsFirstStage(config.shape, r) /\ p = Prev(config.shape, r)
           \/ ~IsLastStage(config.shape, r) /\ p = Succ(config.shape, r),
           Gone(d, r, {Recv(p)}, j)
    PROVE  p \in Ranks /\ Gone(d, p, {Send(r)}, j)
    <1>1. config \in Configs /\ j \in Nat /\ j \in 1 .. NumSteps + 1
        BY TrainStepAssumption DEF Recording
    <1>2. /\ p \in Ranks
          /\ \/ ~IsFirstStage(config.shape, p) /\ r = Prev(config.shape, p)
             \/ ~IsLastStage(config.shape, p) /\ r = Succ(config.shape, p)
        BY <1>1, SuccStage, PrevStage
    <1>. DEFINE s == Count(d, p, {Send(r)})
                v == Count(d, r, {Recv(p)})
                l == link[<<p, r>>]
                x == Tally(Before(config, p, j), {Send(r)})
                y == Tally(Before(config, r, j), {Recv(p)})
    <1>3. s = v + l /\ l \in Nat /\ v \in Nat /\ s \in Nat
        <2>1. s = v + l
            BY <1>2 DEF Recording, Recorded, Count
        <2>2. l \in Nat
            BY <1>2 DEF Recording, StateTypes
        <2>3. v \in Nat /\ s \in Nat
            BY <1>1, <1>2, CountFacts
        <2>. QED
            BY <2>1, <2>2, <2>3
    <1>4. x = (j - 1) * M
        BY <1>1, <1>2, BeforeMessages
    <1>5. y = (j - 1) * M
        BY <1>1, BeforeMessages
    <1>6. v > y
        BY DEF Gone
    <1>7. y \in Nat
        BY <1>1, CountFacts
    <1>. HIDE DEF s, v, l, x, y
    <1>8. s > x
        BY <1>3, <1>4, <1>5, <1>6, <1>7
    <1>. QED
        BY <1>2, <1>8 DEF Gone, s, x

\* The ranks of the stages before a rank that is through its schedule.
LEMMA StagesBefore ==
    ASSUME NEW d, Recording(d), NEW r \in Ranks, NEW j \in 1 .. NumSteps, Passed(d, r, j),
           config.shape.pp > 1
    PROVE  \A e \in 1 .. CoordOf(config.shape, r).pp : \E s \in Ranks :
              /\ CoordOf(config.shape, s).pp = CoordOf(config.shape, r).pp - e
              /\ \A k \in Axes \ {"pp"} : CoordOf(config.shape, s)[k] = CoordOf(config.shape, r)[k]
              /\ ~IsLastStage(config.shape, s) /\ Gone(d, s, {Send(Succ(config.shape, s))}, j)
    <1>. DEFINE c == config
                m == c.shape
                at(q) == CoordOf(m, q)
                n == at(r).pp
                Good == {e \in 0 .. n : e > 0 => \E s \in Ranks :
                            /\ at(s).pp = n - e
                            /\ \A k \in Axes \ {"pp"} : at(s)[k] = at(r)[k]
                            /\ ~IsLastStage(m, s) /\ Gone(d, s, {Send(Succ(m, s))}, j)}
    <1>1. c \in Configs /\ M \in Nat \ {0}
        BY TrainStepAssumption DEF Recording
    <1>2. n \in Nat /\ \A q \in Ranks : at(q).pp \in Nat
        BY <1>1, ShapeOf
    <1>3. \A q \in Ranks : IsFirstStage(m, q) <=> at(q).pp = 0
        BY DEF IsFirstStage
    <1>. HIDE DEF m, at, n
    <1>4. ASSUME NEW s \in Ranks, at(s).pp > 0, Gone(d, s, {Recv(Prev(m, s))}, j)
          PROVE  \E q \in Ranks :
                    /\ at(q).pp = at(s).pp - 1
                    /\ \A k \in Axes \ {"pp"} : at(q)[k] = at(s)[k]
                    /\ ~IsLastStage(m, q) /\ Gone(d, q, {Send(Succ(m, q))}, j)
        <2>. DEFINE q == Prev(m, s)
        <2>1. ~IsFirstStage(m, s)
            BY <1>3, <1>4
        <2>2. /\ q \in Ranks /\ at(q).pp = at(s).pp - 1 /\ ~IsLastStage(m, q) /\ Succ(m, q) = s
              /\ \A k \in Axes \ {"pp"} : at(q)[k] = at(s)[k]
            BY <1>1, <2>1, PrevStage DEF m, at
        <2>3. Gone(d, q, {Send(s)}, j)
            BY <1>4, <2>1, MessageHop DEF m
        <2>. HIDE DEF q
        <2>. QED
            BY <2>2, <2>3
    <1>5. 0 \in Good
        BY <1>2
    <1>6. ASSUME NEW e \in 0 .. n - 1, e \in Good PROVE e + 1 \in Good
        <2>1. CASE e = 0
            <3>1. at(r).pp > 0
                BY <1>2, <2>1 DEF n
            <3>2. Gone(d, r, {Recv(Prev(m, r))}, j)
                <4>. DEFINE p == Prev(m, r)
                <4>1. ~IsFirstStage(m, r)
                    BY <1>3, <3>1
                <4>2. Tally(StepOps(c, r), {Recv(p)}) = Tally(Fore(c, r), {Recv(p)})
                      /\ Tally(StepOps(c, r), {Recv(p)})
                            = (IF ~IsFirstStage(m, r) /\ p = Prev(m, r) THEN M ELSE 0)
                              + (IF ~IsLastStage(m, r) /\ p = Succ(m, r) THEN M ELSE 0)
                    BY <1>1, StepParts DEF m
                <4>. HIDE DEF p
                <4>3. Tally(Fore(c, r), {Recv(p)}) > 0
                    <5>1. Tally(Fore(c, r), {Recv(p)})
                             = (IF ~IsFirstStage(m, r) /\ p = Prev(m, r) THEN M ELSE 0)
                               + (IF ~IsLastStage(m, r) /\ p = Succ(m, r) THEN M ELSE 0)
                        BY <4>2
                    <5>2. (IF ~IsFirstStage(m, r) /\ p = Prev(m, r) THEN M ELSE 0) = M
                        BY <4>1 DEF p
                    <5>3. (IF ~IsLastStage(m, r) /\ p = Succ(m, r) THEN M ELSE 0) \in {0, M}
                        OBVIOUS
                    <5>. QED
                        BY <1>1, <5>1, <5>2, <5>3
                <4>4. Gone(d, r, {Recv(p)}, j)
                    BY <4>3, PassedGone
                <4>. QED
                    BY <4>4 DEF p
            <3>3. PICK q \in Ranks :
                     /\ at(q).pp = at(r).pp - 1
                     /\ \A k \in Axes \ {"pp"} : at(q)[k] = at(r)[k]
                     /\ ~IsLastStage(m, q) /\ Gone(d, q, {Send(Succ(m, q))}, j)
                BY <1>4, <3>1, <3>2
            <3>4. at(q).pp = n - (e + 1) /\ e + 1 \in 0 .. n
                BY <1>2, <2>1, <3>3 DEF n
            <3>. QED
                BY <3>3, <3>4
        <2>2. CASE e # 0
            <3>1. e > 0 /\ e \in Nat /\ e + 1 \in 0 .. n
                BY <1>2, <2>2
            <3>2. PICK s \in Ranks :
                     /\ at(s).pp = n - e
                     /\ \A k \in Axes \ {"pp"} : at(s)[k] = at(r)[k]
                     /\ ~IsLastStage(m, s) /\ Gone(d, s, {Send(Succ(m, s))}, j)
                BY <1>6, <3>1
            <3>3. at(s).pp > 0
                BY <1>2, <3>2
            <3>4. Gone(d, s, {Recv(Prev(m, s))}, j)
                <4>. DEFINE p == Prev(m, s)
                            a == Succ(m, s)
                <4>1. ~IsFirstStage(m, s) /\ ~IsLastStage(m, s)
                    BY <1>3, <3>2, <3>3
                <4>2. /\ StepOps(c, s) \in Leading(Operations, {Send(a)}, {Recv(p)})
                      /\ Tally(StepOps(c, s), {Recv(p)})
                            = (IF ~IsFirstStage(m, s) /\ p = Prev(m, s) THEN M ELSE 0)
                              + (IF ~IsLastStage(m, s) /\ p = Succ(m, s) THEN M ELSE 0)
                    BY <1>1, <4>1, StepParts DEF m
                <4>3. Gone(d, s, {Send(a)}, j)
                    BY <3>2
                <4>. HIDE DEF p, a
                <4>4. Tally(StepOps(c, s), {Recv(p)}) > 0
                    BY <1>1, <4>1, <4>2 DEF p
                <4>5. Gone(d, s, {Recv(p)}, j)
                    BY <4>2, <4>3, <4>4, GoneBefore
                <4>. QED
                    BY <4>5 DEF p
            <3>5. PICK q \in Ranks :
                     /\ at(q).pp = at(s).pp - 1
                     /\ \A k \in Axes \ {"pp"} : at(q)[k] = at(s)[k]
                     /\ ~IsLastStage(m, q) /\ Gone(d, q, {Send(Succ(m, q))}, j)
                BY <1>4, <3>3, <3>4
            <3>6. at(q).pp = n - (e + 1)
                BY <1>2, <3>1, <3>2, <3>5
            <3>7. \A k \in Axes \ {"pp"} : at(q)[k] = at(r)[k]
                BY <3>2, <3>5
            <3>. QED
                BY <3>1, <3>5, <3>6, <3>7
        <2>. QED
            BY <2>1, <2>2
    <1>7. \A e \in 0 .. n : e \in Good
        <2>. HIDE DEF Good
        <2>. QED
            BY <1>2, <1>5, <1>6, InductionTo
    <1>8. ASSUME NEW e \in 1 .. n
          PROVE  \E s \in Ranks :
                    /\ at(s).pp = n - e
                    /\ \A k \in Axes \ {"pp"} : at(s)[k] = at(r)[k]
                    /\ ~IsLastStage(m, s) /\ Gone(d, s, {Send(Succ(m, s))}, j)
        <2>1. e \in 0 .. n /\ e > 0
            BY <1>2
        <2>2. e \in Good
            BY <1>7, <2>1
        <2>. QED
            BY <2>1, <2>2
    <1>. QED
        BY <1>8 DEF at, m, n
\* The ranks of the stages behind a rank that is through its schedule.
LEMMA StagesBehind ==
    ASSUME NEW d, Recording(d), NEW r \in Ranks, NEW j \in 1 .. NumSteps, Passed(d, r, j),
           config.shape.pp > 1
    PROVE  \A e \in 1 .. config.shape.pp - 1 - CoordOf(config.shape, r).pp : \E s \in Ranks :
              /\ CoordOf(config.shape, s).pp = CoordOf(config.shape, r).pp + e
              /\ \A k \in Axes \ {"pp"} : CoordOf(config.shape, s)[k] = CoordOf(config.shape, r)[k]
              /\ ~IsFirstStage(config.shape, s) /\ Gone(d, s, {Send(Prev(config.shape, s))}, j)
    <1>. DEFINE c == config
                m == c.shape
                at(q) == CoordOf(m, q)
                n == at(r).pp
                l == m.pp - 1 - n
                Good == {e \in 0 .. l : e > 0 => \E s \in Ranks :
                            /\ at(s).pp = n + e
                            /\ \A k \in Axes \ {"pp"} : at(s)[k] = at(r)[k]
                            /\ ~IsFirstStage(m, s) /\ Gone(d, s, {Send(Prev(m, s))}, j)}
    <1>1. c \in Configs /\ M \in Nat \ {0}
        BY TrainStepAssumption DEF Recording
    <1>2. /\ n \in Nat /\ m.pp \in Nat /\ l \in Nat /\ l = m.pp - 1 - n
          /\ \A q \in Ranks : at(q).pp \in Nat
        <2>1. m.pp \in Nat \ {0} /\ \A q \in Ranks : at(q).pp \in 0 .. m.pp - 1
            BY <1>1, ShapeOf
        <2>2. at(r).pp \in 0 .. m.pp - 1
            BY <2>1
        <2>. HIDE DEF m, at
        <2>. QED
            BY <2>1, <2>2
    <1>3. \A q \in Ranks : IsLastStage(m, q) <=> at(q).pp = m.pp - 1
        BY DEF IsLastStage
    <1>. HIDE DEF m, at, n, l
    <1>4. ASSUME NEW s \in Ranks, at(s).pp < m.pp - 1, Gone(d, s, {Recv(Succ(m, s))}, j)
          PROVE  \E q \in Ranks :
                    /\ at(q).pp = at(s).pp + 1
                    /\ \A k \in Axes \ {"pp"} : at(q)[k] = at(s)[k]
                    /\ ~IsFirstStage(m, q) /\ Gone(d, q, {Send(Prev(m, q))}, j)
        <2>. DEFINE q == Succ(m, s)
        <2>1. ~IsLastStage(m, s)
            BY <1>2, <1>3, <1>4
        <2>2. /\ q \in Ranks /\ at(q).pp = at(s).pp + 1 /\ ~IsFirstStage(m, q) /\ Prev(m, q) = s
              /\ \A k \in Axes \ {"pp"} : at(q)[k] = at(s)[k]
            BY <1>1, <2>1, SuccStage DEF m, at
        <2>3. Gone(d, q, {Send(s)}, j)
            BY <1>4, <2>1, MessageHop DEF m
        <2>. HIDE DEF q
        <2>. QED
            BY <2>2, <2>3
    <1>5. 0 \in Good
        BY <1>2
    <1>6. ASSUME NEW e \in 0 .. l - 1, e \in Good PROVE e + 1 \in Good
        <2>1. CASE e = 0
            <3>1. at(r).pp < m.pp - 1
                BY <1>2, <2>1 DEF n
            <3>2. Gone(d, r, {Recv(Succ(m, r))}, j)
                <4>. DEFINE p == Succ(m, r)
                <4>1. ~IsLastStage(m, r)
                    BY <1>2, <1>3, <3>1
                <4>2. /\ \A q : Tally(StepOps(c, r), {Recv(q)}) = Tally(Fore(c, r), {Recv(q)})
                      /\ \A q : Tally(StepOps(c, r), {Recv(q)})
                            = (IF ~IsFirstStage(m, r) /\ q = Prev(m, r) THEN M ELSE 0)
                              + (IF ~IsLastStage(m, r) /\ q = Succ(m, r) THEN M ELSE 0)
                    BY <1>1, StepParts DEF m
                <4>. HIDE DEF p
                <4>3. Tally(Fore(c, r), {Recv(p)}) > 0
                    <5>1. Tally(Fore(c, r), {Recv(p)})
                             = (IF ~IsFirstStage(m, r) /\ p = Prev(m, r) THEN M ELSE 0)
                               + (IF ~IsLastStage(m, r) /\ p = Succ(m, r) THEN M ELSE 0)
                        BY <4>2
                    <5>2. (IF ~IsLastStage(m, r) /\ p = Succ(m, r) THEN M ELSE 0) = M
                        BY <4>1 DEF p
                    <5>3. (IF ~IsFirstStage(m, r) /\ p = Prev(m, r) THEN M ELSE 0) \in {0, M}
                        OBVIOUS
                    <5>. QED
                        BY <1>1, <5>1, <5>2, <5>3
                <4>4. Gone(d, r, {Recv(p)}, j)
                    BY <4>3, PassedGone
                <4>. QED
                    BY <4>4 DEF p
            <3>3. PICK q \in Ranks :
                     /\ at(q).pp = at(r).pp + 1
                     /\ \A k \in Axes \ {"pp"} : at(q)[k] = at(r)[k]
                     /\ ~IsFirstStage(m, q) /\ Gone(d, q, {Send(Prev(m, q))}, j)
                BY <1>4, <3>1, <3>2
            <3>4. at(q).pp = n + (e + 1) /\ e + 1 \in 0 .. l
                BY <1>2, <2>1, <3>3 DEF n
            <3>. QED
                BY <3>3, <3>4
        <2>2. CASE e # 0
            <3>1. e > 0 /\ e \in Nat /\ e + 1 \in 0 .. l
                BY <1>2, <2>2
            <3>2. PICK s \in Ranks :
                     /\ at(s).pp = n + e
                     /\ \A k \in Axes \ {"pp"} : at(s)[k] = at(r)[k]
                     /\ ~IsFirstStage(m, s) /\ Gone(d, s, {Send(Prev(m, s))}, j)
                BY <1>6, <3>1
            <3>3. at(s).pp < m.pp - 1
                BY <1>2, <3>2
            <3>4. Gone(d, s, {Recv(Succ(m, s))}, j)
                <4>. DEFINE p == Succ(m, s)
                            a == Prev(m, s)
                <4>1. ~IsLastStage(m, s) /\ ~IsFirstStage(m, s)
                    BY <1>2, <1>3, <3>2, <3>3
                <4>2. /\ StepOps(c, s) \in Leading(Operations, {Send(a)}, {Recv(p)})
                      /\ Tally(StepOps(c, s), {Recv(p)})
                            = (IF ~IsFirstStage(m, s) /\ p = Prev(m, s) THEN M ELSE 0)
                              + (IF ~IsLastStage(m, s) /\ p = Succ(m, s) THEN M ELSE 0)
                    BY <1>1, <4>1, StepParts DEF m
                <4>3. Gone(d, s, {Send(a)}, j)
                    BY <3>2
                <4>. HIDE DEF p, a
                <4>4. Tally(StepOps(c, s), {Recv(p)}) > 0
                    BY <1>1, <4>1, <4>2 DEF p
                <4>5. Gone(d, s, {Recv(p)}, j)
                    BY <4>2, <4>3, <4>4, GoneBefore
                <4>. QED
                    BY <4>5 DEF p
            <3>5. PICK q \in Ranks :
                     /\ at(q).pp = at(s).pp + 1
                     /\ \A k \in Axes \ {"pp"} : at(q)[k] = at(s)[k]
                     /\ ~IsFirstStage(m, q) /\ Gone(d, q, {Send(Prev(m, q))}, j)
                BY <1>4, <3>3, <3>4
            <3>6. at(q).pp = n + (e + 1)
                BY <1>2, <3>1, <3>2, <3>5
            <3>7. \A k \in Axes \ {"pp"} : at(q)[k] = at(r)[k]
                BY <3>2, <3>5
            <3>. QED
                BY <3>1, <3>5, <3>6, <3>7
        <2>. QED
            BY <2>1, <2>2
    <1>7. \A e \in 0 .. l : e \in Good
        <2>. HIDE DEF Good
        <2>. QED
            BY <1>2, <1>5, <1>6, InductionTo
    <1>8. ASSUME NEW e \in 1 .. l
          PROVE  \E s \in Ranks :
                    /\ at(s).pp = n + e
                    /\ \A k \in Axes \ {"pp"} : at(s)[k] = at(r)[k]
                    /\ ~IsFirstStage(m, s) /\ Gone(d, s, {Send(Prev(m, s))}, j)
        <2>1. e \in 0 .. l /\ e > 0
            BY <1>2
        <2>2. e \in Good
            BY <1>7, <2>1
        <2>. QED
            BY <2>1, <2>2
    <1>. QED
        BY <1>8 DEF at, m, n, l

\* Two members of a group that agree in the kind of the group are one.
LEMMA AloneInGroup ==
    ASSUME GroupInv, NEW r \in Ranks, NEW k \in Axes, NEW s \in Members(r, k),
           CoordOf(config.shape, s)[k] = CoordOf(config.shape, r)[k]
    PROVE  s = r
    <1>1. IsShape(config.shape) /\ RanksOf(config.shape) = Ranks
        BY ShapeOfJob
    <1>2. k \in Kinds
        BY DEF Axes, Kinds
    <1>3. s \in Ranks /\ \A j \in Axes \ {k} : CoordOf(config.shape, s)[j] = CoordOf(config.shape, r)[j]
        BY <1>2, AlongGroup
    <1>4. \A j \in Axes : CoordOf(config.shape, s)[j] = CoordOf(config.shape, r)[j]
        BY <1>3
    <1>. QED
        BY <1>1, <1>3, <1>4, SameCoord

\* The waits of a rank and the calls of another member of its group: as many
\* before every step.
LEMMA WaitsAreCalls ==
    ASSUME NEW d, Recording(d), NEW r \in Ranks, NEW k \in {"tp", "dp", "world"}, NEW x \in Members(r, k),
           NEW n \in Nat
    PROVE  /\ x \in Ranks
           /\ Tally(Before(config, r, n), WaitsOn(k)) = Tally(Before(config, x, n), CallsOn(k))
           /\ waited[r][k] = Count(d, r, WaitsOn(k))
           /\ Len(called[x][k]) = Count(d, x, CallsOn(k))
    <1>1. /\ config \in Configs /\ k \in Kinds /\ GroupInv /\ StateTypes /\ Recorded(d)
          /\ d \in [Ranks -> Seq(Operations)]
        BY DEF Recording, Kinds
    <1>2. x \in Ranks /\ (k \in {"tp", "dp"} => CoordOf(config.shape, x).pp = CoordOf(config.shape, r).pp)
        BY <1>1, AlongGroup
    <1>3. Tally(Before(config, r, n), WaitsOn(k)) = Tally(Before(config, r, n), CallsOn(k))
        <2>1. Before(config, r, n) \in PairedOn(k)
            BY <1>1, BeforeOrders
        <2>. QED
            BY <2>1 DEF PairedOn, Equal
    <1>4. Only(Before(config, x, n), CallsOn(k)) = Only(Before(config, r, n), CallsOn(k))
        BY <1>1, <1>2, SameCallsBefore
    <1>5. waited[r][k] = Count(d, r, WaitsOn(k))
        BY <1>1 DEF Recorded, Count
    <1>6. Len(called[x][k]) = Count(d, x, CallsOn(k))
        BY <1>1, <1>2, CallInPlace DEF Count
    <1>. QED
        BY <1>2, <1>3, <1>4, <1>5, <1>6 DEF Tally

\* Who is through a step has waited for the gradients of the step, if the model
\* is wrapped: its data group is through the schedule.
LEMMA GradientHop ==
    ASSUME NEW d, Recording(d), NEW r \in Ranks, NEW j \in 1 .. NumSteps, step[r] > j,
           config.strategy # "none", NEW x \in Members(r, "dp")
    PROVE  x \in Ranks /\ Passed(d, x, j)
    <1>. DEFINE c == config
                W == WaitsOn("dp")
                C == CallsOn("dp")
                m == j + 1
                f == Fore(c, x)
                b == Back(c, x)
    <1>1. /\ c \in Configs /\ GroupInv /\ j \in Nat /\ m \in Nat /\ j >= 1
          /\ "dp" \in Kinds /\ "dp" \in Axes
        BY TrainingStep, TrainStepAssumption DEF Recording, Kinds, Axes
    <1>2. x \in Ranks
        BY <1>1, AlongGroup
    <1>3. step[r] \in Nat /\ step[x] \in Nat /\ step[r] >= m
        <2>1. step[r] \in Nat /\ step[x] \in Nat
            BY <1>2, RanWithin DEF Recording
        <2>. QED
            BY <1>1, <2>1
    <1>4. CASE ~(Size(c, "dp") > 1)
        <2>1. c.shape.dp = 1
            <3>1. c.shape.dp \in Nat \ {0} /\ Size(c, "dp") = c.shape["dp"]
                BY <1>1, ShapeOf DEF Size
            <3>. QED
                BY <1>4, <3>1
        <2>2. CoordOf(c.shape, x).dp \in 0 .. 0 /\ CoordOf(c.shape, r).dp \in 0 .. 0
            <3>1. \A q \in Ranks : CoordOf(c.shape, q).dp \in 0 .. c.shape.dp - 1
                BY <1>1, ShapeOf
            <3>. QED
                BY <1>2, <2>1, <3>1
        <2>3. CoordOf(c.shape, x)["dp"] = CoordOf(c.shape, r)["dp"]
            BY <2>2
        <2>4. x = r
            BY <1>1, <2>3, AloneInGroup
        <2>. QED
            BY <1>2, <2>4 DEF Passed
    <1>5. CASE Size(c, "dp") > 1
        <2>. DEFINE B(i) == Tally(Before(c, x, i), C)
        <2>1. f \in Seq(Operations) /\ b \in Seq(Operations) /\ StepOps(c, x) = f \o b /\ Tally(b, C) > 0
            <3>1. /\ StepOps(c, x) = f \o b /\ Tally(b, C) > 0
                  /\ f \in Seq(TrainOps) /\ b \in Seq(TpOps \cup DpOps \cup LossOps \cup ScalerOps)
                BY <1>1, <1>2, <1>5, BackParts
            <3>2. TrainOps \subseteq Operations /\ TpOps \cup DpOps \cup LossOps \cup ScalerOps \subseteq Operations
                BY TrainSets
            <3>. QED
                BY <3>1, <3>2, SeqMonotonic
        <2>2. Program(c, x, j) = f \o b
            BY <2>1, TrainingStep
        <2>. HIDE DEF f, b
        <2>3. Tally(f \o b, C) = Tally(f, C) + Tally(b, C) /\ Tally(f, C) \in Nat /\ Tally(b, C) \in Nat
            BY <2>1, TallyConcat, TallyType
        <2>4. B(m) = B(j) + Tally(f, C) + Tally(b, C) /\ B(j) \in Nat
            <3>1. B(m) = B(j) + Tally(Program(c, x, j), C) /\ B(j) \in Nat
                BY <1>1, <1>2, BeforeCount
            <3>. HIDE DEF B, m
            <3>. QED
                BY <2>2, <2>3, <3>1
        <2>5. B(j) >= 1
            <3>1. B(0 + 1) = B(0) + Tally(Program(c, x, 0), C) /\ B(0) = 0
                BY <1>1, <1>2, BeforeCount
            <3>2. Program(c, x, 0) = ConstructOps(c, x)
                BY DEF Program
            <3>3. Tally(ConstructOps(c, x), C) = 1
                BY <1>1, <1>2, <1>5, ConstructParts
            <3>. DEFINE one == 1
            <3>4. one \in Nat /\ one <= j
                BY <1>1
            <3>5. B(one) = 1
                BY <3>1, <3>2, <3>3
            <3>. HIDE DEF one
            <3>6. Tally(Before(c, x, one), C) <= Tally(Before(c, x, j), C)
                BY <1>1, <1>2, <3>4, BeforeGrows
            <3>7. B(one) <= B(j)
                BY <3>6
            <3>. HIDE DEF B
            <3>. QED
                BY <2>4, <3>5, <3>7
        <2>6. Tally(Before(c, r, m), W) = B(m)
            <3>. HIDE DEF m
            <3>. QED
                BY <1>1, WaitsAreCalls
        <2>7. waited[r]["dp"] = Count(d, r, W) /\ Len(called[x]["dp"]) = Count(d, x, C)
            BY <1>1, WaitsAreCalls
        <2>8. Count(d, r, W) >= B(m) /\ Count(d, r, W) \in Nat /\ Count(d, x, C) \in Nat
            <3>1. Count(d, r, W) >= Tally(Before(c, r, m), W)
                <4>. HIDE DEF m, W
                <4>. QED
                    BY <1>1, <1>3, CountFacts
            <3>2. Count(d, r, W) \in Nat /\ Count(d, x, C) \in Nat
                BY <1>1, <1>2, CountFacts
            <3>. QED
                BY <2>6, <3>1, <3>2
        <2>9. Count(d, x, C) >= B(m)
            <3>1. waited[r]["dp"] >= 2
                <4>. HIDE DEF B, W
                <4>. QED
                    BY <2>1, <2>3, <2>4, <2>5, <2>7, <2>8
            <3>2. waited[r]["dp"] <= Len(called[x]["dp"])
                BY <3>1 DEF Recording, WaitsMet
            <3>. HIDE DEF B, W, C
            <3>. QED
                BY <2>3, <2>4, <2>7, <2>8, <3>2
        <2>10. step[x] >= j
            <3>1. Count(d, x, C) > Tally(Before(c, x, j), C)
                <4>1. Count(d, x, C) > B(j)
                    <5>. HIDE DEF B
                    <5>. QED
                        BY <2>1, <2>3, <2>4, <2>8, <2>9
                <4>. QED
                    BY <4>1
            <3>. HIDE DEF C
            <3>. QED
                BY <1>1, <1>2, <3>1, CountFacts DEF Gone
        <2>11. CASE step[x] > j
            BY <1>2, <2>11 DEF Passed
        <2>12. CASE ~(step[x] > j)
            <3>. DEFINE o == d[x]
                        t == todo[x]
            <3>1. step[x] = j
                BY <1>1, <1>3, <2>10, <2>12
            <3>2. Within(c, x, j, o, t)
                BY <1>2, <3>1, RanWithin DEF Recording
            <3>3. o \in Seq(Operations) /\ t \in Seq(Operations) /\ o \o t = f \o b
                BY <2>2, <3>2 DEF Within
            <3>4. Count(d, x, C) = B(j) + Tally(o, C) /\ Tally(o, C) \in Nat
                <4>1. Count(d, x, C) = Tally(Run(c, x, j, o), C)
                    BY <3>1 DEF Count, Ran
                <4>. HIDE DEF o, t, C
                <4>2. Tally(Run(c, x, j, o), C) = Tally(Before(c, x, j), C) + Tally(o, C) /\ Tally(o, C) \in Nat
                    BY <1>1, <1>2, <3>2, RunCount
                <4>. QED
                    BY <4>1, <4>2
            <3>. HIDE DEF o, t
            <3>5. Tally(o, C) > Tally(f, C)
                <4>. HIDE DEF B
                <4>. QED
                    BY <2>1, <2>3, <2>4, <2>8, <2>9, <3>4
            <3>6. ~\E z : z \in Between(Operations, o, t, f, b)
                <4>. SUFFICES ASSUME NEW z \in Between(Operations, o, t, f, b) PROVE FALSE
                    OBVIOUS
                <4>1. z \in Seq(Operations) /\ f = o \o z
                    BY DEF Between
                <4>2. Tally(o, C) <= Tally(o \o z, C)
                    BY <3>3, <4>1, TallyPart
                <4>3. Tally(o, C) <= Tally(f, C)
                    BY <4>1, <4>2
                <4>. QED
                    BY <2>3, <3>4, <3>5, <4>3
            <3>7. PICK z : z \in Between(Operations, f, b, o, t)
                <4>1. \/ \E z : z \in Between(Operations, o, t, f, b)
                      \/ \E z : z \in Between(Operations, f, b, o, t)
                    BY <2>1, <3>3, SplitConcat
                <4>. QED
                    BY <3>6, <4>1
            <3>8. z \in Seq(Operations) /\ o = f \o z
                BY <3>7 DEF Between
            <3>9. \E y \in Seq(Operations) : d[x] = Fore(config, x) \o y
                BY <3>8 DEF o, f
            <3>. QED
                BY <1>2, <3>1, <3>9 DEF Passed
        <2>. QED
            BY <2>11, <2>12
    <1>. QED
        BY <1>4, <1>5

\* Who has waited for its tensor group in a step has it in the step.
LEMMA ReduceHop ==
    ASSUME NEW d, Recording(d), NEW y \in Ranks, NEW j \in Nat, step[y] >= j,
           Size(config, "tp") > 1 => Gone(d, y, WaitsOn("tp"), j), NEW z \in Members(y, "tp")
    PROVE  step[z] >= j
    <1>. DEFINE c == config
                W == WaitsOn("tp")
                C == CallsOn("tp")
    <1>1. c \in Configs /\ GroupInv /\ "tp" \in Kinds /\ "tp" \in Axes
        BY DEF Recording, Kinds, Axes
    <1>2. z \in Ranks
        BY <1>1, AlongGroup
    <1>3. CASE ~(Size(c, "tp") > 1)
        <2>1. c.shape.tp = 1
            <3>1. c.shape.tp \in Nat \ {0} /\ Size(c, "tp") = c.shape["tp"]
                BY <1>1, ShapeOf DEF Size
            <3>. QED
                BY <1>3, <3>1
        <2>2. CoordOf(c.shape, z).tp \in 0 .. 0 /\ CoordOf(c.shape, y).tp \in 0 .. 0
            <3>1. \A q \in Ranks : CoordOf(c.shape, q).tp \in 0 .. c.shape.tp - 1
                BY <1>1, ShapeOf
            <3>. QED
                BY <1>2, <2>1, <3>1
        <2>3. CoordOf(c.shape, z)["tp"] = CoordOf(c.shape, y)["tp"]
            BY <2>2
        <2>4. z = y
            BY <1>1, <2>3, AloneInGroup
        <2>. QED
            BY <2>4
    <1>4. CASE Size(c, "tp") > 1
        <2>1. Count(d, y, W) > Tally(Before(c, y, j), W)
            BY <1>4 DEF Gone
        <2>2. /\ Tally(Before(c, y, j), W) = Tally(Before(c, z, j), C)
              /\ waited[y]["tp"] = Count(d, y, W) /\ Len(called[z]["tp"]) = Count(d, z, C)
            BY <1>1, WaitsAreCalls
        <2>3. waited[y]["tp"] <= Len(called[z]["tp"])
            BY DEF Recording, WaitsMet
        <2>. HIDE DEF W, C, c
        <2>4. Count(d, y, W) \in Nat /\ Count(d, z, C) \in Nat /\ Tally(Before(c, z, j), C) \in Nat
            BY <1>2, CountFacts DEF c
        <2>5. Count(d, z, C) > Tally(Before(c, z, j), C)
            BY <2>1, <2>2, <2>3, <2>4
        <2>. QED
            BY <1>2, <2>5, CountFacts DEF Gone, c
    <1>. QED
        BY <1>3, <1>4

\* With a scaler, who is through a step has the whole world in the step.
LEMMA WorldHop ==
    ASSUME NEW d, Recording(d), NEW r \in Ranks, NEW j \in 1 .. NumSteps, step[r] > j,
           config.scaled, NEW x \in Ranks
    PROVE  step[x] >= j
    <1>. DEFINE c == config
                W == WaitsOn("world")
                C == CallsOn("world")
                m == j + 1
                f == Fore(c, x)
                b == Back(c, x)
                B(i) == Tally(Before(c, x, i), C)
    <1>1. /\ c \in Configs /\ GroupInv /\ j \in Nat /\ m \in Nat /\ "world" \in Kinds
        BY TrainingStep DEF Recording, Kinds
    <1>2. x \in Members(r, "world")
        <2>1. group[r]["world"] = [i \in 1 .. World |-> i - 1]
            BY <1>1 DEF GroupInv
        <2>2. x + 1 \in 1 .. World /\ x = (x + 1) - 1
            BY TrainStepAssumption DEF Ranks
        <2>. QED
            BY <2>1, <2>2 DEF Members, Range
    <1>3. step[r] \in Nat /\ step[r] >= m
        <2>1. step[r] \in Nat
            BY RanWithin DEF Recording
        <2>. QED
            BY <1>1, <2>1
    <1>4. StepOps(c, x) \in Seq(Operations) /\ Tally(StepOps(c, x), C) > 0
        <2>. DEFINE z == ScalerStep(c)
                    y == IF c.shape.pp > 1 THEN GradientSync(c) \o BroadcastLoss(c, x) ELSE PlainBack(c, x)
                    o == StepOps(c, x)
        <2>1. z \in Seq(Operations) /\ Tally(z, C) = 1
            <3>1. z \in Paired(ScalerOps) /\ ScalerOps \subseteq Operations /\ ScalerOps \in SUBSET Operations
                BY ScalerPaired, TrainSets
            <3>2. z \in Seq(Operations) /\ Tally(z, C) = Tally(z, W)
                <4>1. z \in Seq(ScalerOps) /\ z \in PairedOn("world")
                    BY <1>1, <3>1 DEF Paired
                <4>. HIDE DEF z
                <4>. QED
                    BY <3>1, <4>1, SeqMonotonic DEF PairedOn, Equal
            <3>3. Tally(z, W) = 1
                <4>. DEFINE none == << >>
                            N == {"found_inf"}
                            n == "found_inf"
                            k == "world"
                <4>1. none \in Seq(Nat) /\ k \in Kinds /\ N \in SUBSET Names /\ n \in N
                    BY <1>1 DEF Names
                <4>2. Size(c, k) > 1
                    BY ShapeOf, <1>1 DEF Size
                <4>3. z = Blocking(c, k, <<n, none>>)
                    BY DEF ScalerStep
                <4>. HIDE DEF none, N, n, k, z
                <4>4. Tally(Blocking(c, k, <<n, none>>), WaitsOn(k)) = 1
                    BY <4>1, <4>2, BlockingPaired
                <4>. QED
                    BY <4>3, <4>4 DEF k
            <3>. QED
                BY <3>2, <3>3
        <2>2. Back(c, x) = y \o z
            BY DEF Back
        <2>3. o = f \o b /\ f \in Seq(Operations) /\ b \in Seq(Operations) /\ o \in Seq(Operations)
            <3>1. /\ StepOps(c, x) = f \o b
                  /\ f \in Seq(TrainOps) /\ b \in Seq(TpOps \cup DpOps \cup LossOps \cup ScalerOps)
                BY <1>1, BackParts
            <3>2. TrainOps \subseteq Operations /\ TpOps \cup DpOps \cup LossOps \cup ScalerOps \subseteq Operations
                BY TrainSets
            <3>. HIDE DEF f, b
            <3>3. f \in Seq(Operations) /\ b \in Seq(Operations)
                BY <3>1, <3>2, SeqMonotonic
            <3>. QED
                BY <3>1, <3>3
        <2>4. y \in Seq(Operations)
            <3>1. CASE c.shape.pp > 1
                <4>1. ~c.overlap
                    BY <1>1, <3>1, ShapeOf
                <4>2. GradientSync(c) \in Paired(DpOps) /\ BroadcastLoss(c, x) \in Paired(LossOps)
                    BY <1>1, <4>1, SyncPaired, LossBroadcast
                <4>3. GradientSync(c) \in Seq(Operations) /\ BroadcastLoss(c, x) \in Seq(Operations)
                    BY <4>2, TrainSets, OpSets, SeqMonotonic DEF Paired
                <4>. QED
                    BY <3>1, <4>3
            <3>2. CASE ~(c.shape.pp > 1)
                <4>1. c.shape.pp = 1
                    BY <1>1, <3>2, ShapeOf
                <4>2. PlainBack(c, x) \in Seq(TpOps \cup DpOps)
                    BY <1>1, <4>1, PlainPaired
                <4>3. PlainBack(c, x) \in Seq(Operations)
                    BY <4>2, OpSets, SeqMonotonic
                <4>. QED
                    BY <3>2, <4>3
            <3>. QED
                BY <3>1, <3>2
        <2>. HIDE DEF f, b, y, z, o
        <2>5. Tally(z, C) <= Tally(y \o z, C)
            BY <2>1, <2>4, TallyPart
        <2>6. Tally(b, C) <= Tally(f \o b, C)
            BY <2>3, TallyPart
        <2>7. Tally(b, C) \in Nat /\ Tally(o, C) \in Nat
            BY <2>3, TallyType
        <2>8. Tally(b, C) = Tally(y \o z, C)
            BY <2>2 DEF b
        <2>9. Tally(o, C) > 0
            <3>. HIDE DEF C
            <3>. QED
                BY <2>1, <2>3, <2>5, <2>6, <2>7, <2>8
        <2>. QED
            BY <2>3, <2>9 DEF o
    <1>5. B(m) > B(j) /\ B(m) \in Nat /\ B(j) \in Nat
        <2>1. Program(c, x, j) = StepOps(c, x)
            BY TrainingStep
        <2>2. /\ B(m) = B(j) + Tally(Program(c, x, j), C) /\ B(j) \in Nat
              /\ Tally(Program(c, x, j), C) \in Nat
            BY <1>1, BeforeCount
        <2>. HIDE DEF B, m
        <2>. QED
            BY <1>4, <2>1, <2>2
    <1>6. Tally(Before(c, r, m), W) = B(m)
        <2>. HIDE DEF m
        <2>. QED
            BY <1>1, <1>2, WaitsAreCalls
    <1>7. waited[r]["world"] = Count(d, r, W) /\ Len(called[x]["world"]) = Count(d, x, C)
        BY <1>1, <1>2, WaitsAreCalls
    <1>8. Count(d, r, W) >= Tally(Before(c, r, m), W) /\ Count(d, r, W) \in Nat
        <2>. HIDE DEF m, W
        <2>. QED
            BY <1>1, <1>3, CountFacts
    <1>9. waited[r]["world"] <= Len(called[x]["world"])
        BY <1>2 DEF Recording, WaitsMet
    <1>10. Count(d, x, C) \in Nat
        BY <1>1, CountFacts
    <1>11. Count(d, x, C) > Tally(Before(c, x, j), C)
        <2>1. Count(d, x, C) > B(j)
            <3>. HIDE DEF B, W, C, m
            <3>. QED
                BY <1>5, <1>6, <1>7, <1>8, <1>9, <1>10
        <2>. QED
            BY <2>1
    <1>. HIDE DEF C
    <1>. QED
        BY <1>1, <1>11, CountFacts DEF Gone

-----------------------------------------------------------------------------
(* Nobody is two steps ahead. *)

\* Who is through the schedule of a step, or has sent in it, has waited for
\* its tensor group in it.
LEMMA ReducedBefore ==
    ASSUME NEW d, Recording(d), NEW y \in Ranks, NEW j \in 1 .. NumSteps,
           Passed(d, y, j) \/ \E p : Gone(d, y, {Send(p)}, j)
    PROVE  /\ step[y] \in Nat /\ step[y] >= j
           /\ Size(config, "tp") > 1 => Gone(d, y, WaitsOn("tp"), j)
    <1>. DEFINE c == config
                W == WaitsOn("tp")
                f == Fore(c, y)
                b == Back(c, y)
    <1>1. c \in Configs /\ j \in Nat /\ step[y] \in Nat
        BY TrainingStep, RanWithin DEF Recording
    <1>2. step[y] >= j
        <2>1. CASE Passed(d, y, j)
            BY <1>1, <2>1 DEF Passed
        <2>2. ASSUME NEW p, Gone(d, y, {Send(p)}, j) PROVE step[y] >= j
            <3>. DEFINE R == {Send(p)}
            <3>. HIDE DEF R
            <3>1. Gone(d, y, R, j)
                BY <2>2 DEF R
            <3>. QED
                BY <1>1, <3>1, CountFacts
        <2>. QED
            BY <2>1, <2>2
    <1>3. ASSUME Size(c, "tp") > 1
          PROVE  Gone(d, y, W, j)
        <2>1. Tally(f, W) > 0
            BY <1>1, <1>3, StepParts
        <2>2. f \in Seq(Operations) /\ b \in Seq(Operations) /\ StepOps(c, y) = f \o b
            <3>1. /\ StepOps(c, y) = f \o b
                  /\ f \in Seq(TrainOps) /\ b \in Seq(TpOps \cup DpOps \cup LossOps \cup ScalerOps)
                BY <1>1, BackParts
            <3>2. TrainOps \subseteq Operations /\ TpOps \cup DpOps \cup LossOps \cup ScalerOps \subseteq Operations
                BY TrainSets
            <3>. QED
                BY <3>1, <3>2, SeqMonotonic
        <2>3. CASE Passed(d, y, j)
            <3>. HIDE DEF W
            <3>. QED
                BY <2>1, <2>3, PassedGone
        <2>4. ASSUME NEW p, Gone(d, y, {Send(p)}, j) PROVE Gone(d, y, W, j)
            <3>1. StepOps(c, y) \in Leading(Operations, {Send(p)}, W)
                BY <1>1, <1>3, StepParts
            <3>2. Tally(StepOps(c, y), W) > 0
                <4>. HIDE DEF f, b, W
                <4>1. Tally(f, W) <= Tally(f \o b, W) /\ Tally(f, W) \in Nat /\ Tally(f \o b, W) \in Nat
                    <5>1. f \o b \in Seq(Operations)
                        BY <2>2
                    <5>. QED
                        BY <2>2, <5>1, TallyPart, TallyType
                <4>. QED
                    BY <2>1, <2>2, <4>1
            <3>. DEFINE R == {Send(p)}
            <3>. HIDE DEF R, W
            <3>3. Gone(d, y, R, j) /\ StepOps(c, y) \in Leading(Operations, R, W)
                BY <2>4, <3>1 DEF R
            <3>. QED
                BY <3>2, <3>3, GoneBefore
        <2>. QED
            BY <2>3, <2>4
    <1>. QED
        BY <1>1, <1>2, <1>3

\* The invariant keeps ranks that are tied within one step.
LEMMA Together == RunInv => WithinOneStep
    <1>. SUFFICES ASSUME RunInv, NEW r \in Ranks, NEW s \in Ranks, Tied(r, s) PROVE step[r] <= step[s] + 1
        BY DEF WithinOneStep
    <1>1. PICK d \in [Ranks -> Seq(Operations)] : Recorded(d)
        BY DEF RunInv
    <1>2. Recording(d) /\ GroupInv
        BY <1>1 DEF RunInv, Recording, GroupInv
    <1>. DEFINE m == config.shape
                at(q) == CoordOf(m, q)
                j == step[r] - 1
    <1>3. /\ config \in Configs /\ NumSteps \in Nat
          /\ step[r] \in Nat /\ step[s] \in Nat /\ step[r] <= NumSteps + 1
        BY <1>2, TrainStepAssumption DEF Recording, StateTypes, Started
    <1>4. IsShape(m) /\ RanksOf(m) = Ranks /\ m.pp \in Nat \ {0}
          /\ \A q \in Ranks : at(q).pp \in 0 .. m.pp - 1 /\ at(q).dp \in 0 .. m.dp - 1
        BY <1>3, ShapeOf
    <1>. SUFFICES ASSUME step[r] > step[s] + 1 PROVE FALSE
        BY <1>3
    <1>5. j \in 1 .. NumSteps /\ j \in Nat /\ step[r] > j /\ ~(step[s] >= j)
        BY <1>3
    <1>. HIDE DEF j
    <1>12. ~config.scaled
        <2>1. config.scaled => step[s] >= j
            BY <1>2, <1>5, WorldHop
        <2>. QED
            BY <1>5, <2>1
    <1>6. PICK x \in Ranks : /\ at(x).dp = at(s).dp /\ at(x).pp = at(r).pp /\ at(x).tp = at(r).tp
                             /\ Passed(d, x, j)
        <2>1. CASE config.strategy # "none"
            <3>1. PICK x \in Ranks : /\ at(x).dp = at(s).dp /\ at(x).pp = at(r).pp /\ at(x).tp = at(r).tp
                                     /\ x \in Members(r, "dp")
                <4>. DEFINE e == at(s).dp + 1
                            x == Member(m, at(r), "dp", e)
                <4>1. "dp" \in Axes /\ e \in 1 .. m["dp"] /\ e - 1 = at(s).dp
                    <5>1. at(s).dp \in 0 .. m.dp - 1 /\ m.dp \in Nat
                        BY <1>3, <1>4, ShapeOf
                    <5>. QED
                        BY <5>1 DEF Axes
                <4>. HIDE DEF e
                <4>2. /\ x \in RanksOf(m) /\ CoordOf(m, x)["dp"] = e - 1
                      /\ \A k \in Axes \ {"dp"} : CoordOf(m, x)[k] = CoordOf(m, r)[k]
                    BY <1>4, <4>1, MemberCoord
                <4>. HIDE DEF x
                <4>3. x \in Members(r, "dp")
                    <5>1. Members(r, "dp") = {q \in Ranks : \A k \in Axes \ {"dp"} : CoordOf(m, q)[k] = CoordOf(m, r)[k]}
                        BY <1>2, <4>1, KeptGroup
                    <5>. QED
                        BY <1>4, <4>2, <5>1
                <4>4. at(x).pp = at(r).pp /\ at(x).tp = at(r).tp
                    BY <4>2 DEF Axes
                <4>. QED
                    BY <1>4, <4>1, <4>2, <4>3, <4>4
            <3>2. Passed(d, x, j)
                BY <1>2, <1>5, <2>1, <3>1, GradientHop
            <3>. QED
                BY <3>1, <3>2
        <2>2. CASE config.strategy = "none"
            <3>1. at(r).dp = at(s).dp
                BY <1>12, <2>2 DEF Tied
            <3>2. Passed(d, r, j)
                BY <1>5 DEF Passed
            <3>. QED
                BY <3>1, <3>2
        <2>. QED
            BY <2>1, <2>2
    <1>8. PICK y \in Ranks : /\ at(y).pp = at(s).pp /\ at(y).dp = at(x).dp
                             /\ Passed(d, y, j) \/ \E p : Gone(d, y, {Send(p)}, j)
        <2>1. at(x).pp \in 0 .. m.pp - 1 /\ at(s).pp \in 0 .. m.pp - 1
            BY <1>4, <1>6
        <2>2. CASE at(s).pp = at(x).pp
            BY <1>6, <2>2
        <2>3. CASE at(s).pp < at(x).pp
            <3>. DEFINE e == at(x).pp - at(s).pp
            <3>1. m.pp > 1 /\ e \in 1 .. at(x).pp /\ at(x).pp - e = at(s).pp
                BY <1>4, <2>1, <2>3
            <3>. HIDE DEF e
            <3>2. PICK y \in Ranks :
                     /\ at(y).pp = at(x).pp - e
                     /\ \A k \in Axes \ {"pp"} : at(y)[k] = at(x)[k]
                     /\ ~IsLastStage(m, y) /\ Gone(d, y, {Send(Succ(m, y))}, j)
                BY <1>2, <1>5, <1>6, <3>1, StagesBefore
            <3>3. at(y).dp = at(x).dp
                BY <3>2 DEF Axes
            <3>. QED
                BY <3>1, <3>2, <3>3
        <2>4. CASE at(s).pp > at(x).pp
            <3>. DEFINE e == at(s).pp - at(x).pp
            <3>1. m.pp > 1 /\ e \in 1 .. m.pp - 1 - at(x).pp /\ at(x).pp + e = at(s).pp
                <4>. DEFINE a == at(x).pp
                            b == at(s).pp
                            l == m.pp
                <4>1. a \in 0 .. l - 1 /\ b \in 0 .. l - 1 /\ l \in Nat /\ b > a
                    BY <1>4, <2>1, <2>4
                <4>. HIDE DEF a, b, l
                <4>2. l > 1 /\ b - a \in 1 .. l - 1 - a /\ a + (b - a) = b
                    BY <4>1
                <4>. QED
                    BY <4>2 DEF a, b, l
            <3>. HIDE DEF e
            <3>2. PICK y \in Ranks :
                     /\ at(y).pp = at(x).pp + e
                     /\ \A k \in Axes \ {"pp"} : at(y)[k] = at(x)[k]
                     /\ ~IsFirstStage(m, y) /\ Gone(d, y, {Send(Prev(m, y))}, j)
                BY <1>2, <1>5, <1>6, <3>1, StagesBehind
            <3>3. at(y).dp = at(x).dp
                BY <3>2 DEF Axes
            <3>. QED
                BY <3>1, <3>2, <3>3
        <2>5. at(s).pp = at(x).pp \/ at(s).pp < at(x).pp \/ at(s).pp > at(x).pp
            <3>. DEFINE a == at(x).pp
                        b == at(s).pp
                        l == m.pp
            <3>1. a \in 0 .. l - 1 /\ b \in 0 .. l - 1 /\ l \in Nat
                BY <1>4, <2>1
            <3>. HIDE DEF a, b, l
            <3>2. b = a \/ b < a \/ b > a
                BY <3>1
            <3>. QED
                BY <3>2 DEF a, b
        <2>. QED
            BY <2>2, <2>3, <2>4, <2>5
    <1>9. s \in Members(y, "tp")
        <2>1. Members(y, "tp") = {q \in Ranks : \A k \in Axes \ {"tp"} : CoordOf(m, q)[k] = CoordOf(m, y)[k]}
            BY <1>2, KeptGroup DEF Axes
        <2>2. \A k \in Axes \ {"tp"} : CoordOf(m, s)[k] = CoordOf(m, y)[k]
            BY <1>6, <1>8 DEF Axes
        <2>. QED
            BY <2>1, <2>2
    <1>10. step[y] >= j /\ (Size(config, "tp") > 1 => Gone(d, y, WaitsOn("tp"), j))
        BY <1>2, <1>5, <1>8, ReducedBefore
    <1>11. step[s] >= j
        BY <1>2, <1>5, <1>9, <1>10, ReduceHop
    <1>. QED
        BY <1>5, <1>11

-----------------------------------------------------------------------------
(* The messages under way. *)

\* Ranks of other stages than the next exchange none.
LEMMA NoMessagesBetween ==
    ASSUME NEW d, Recording(d), NEW r \in Ranks, NEW p,
           IsFirstStage(config.shape, r) \/ p # Prev(config.shape, r),
           IsLastStage(config.shape, r) \/ p # Succ(config.shape, r)
    PROVE  Count(d, r, {Send(p)}) = 0
    <1>. DEFINE c == config
                R == {Send(p)}
                none == {}
                T == Equal(Operations, R, none)
    <1>1. c \in Configs /\ T \in Joined(Operations)
        BY EqualJoined DEF Recording
    <1>2. \A s \in Seq(Operations) : Tally(s, none) = 0
        <2>1. Operations \cap none = {}
            OBVIOUS
        <2>. HIDE DEF none
        <2>. QED
            BY <2>1, TallyNone
    <1>3. \A s \in Seq(Operations) : s \in T <=> Tally(s, R) = 0
        BY <1>2 DEF Equal
    <1>4. ASSUME NEW i \in Nat PROVE Program(c, r, i) \in T
        <2>1. Program(c, r, i) \in Seq(Operations)
            BY <1>1, ProgramParts
        <2>2. Tally(Program(c, r, i), R) = 0
            <3>1. CASE i = 0 \/ i > NumSteps
                BY <1>1, <3>1, ProgramMessages
            <3>2. CASE ~(i = 0 \/ i > NumSteps)
                <4>1. i \in 1 .. NumSteps
                    BY <3>2, TrainStepAssumption
                <4>2. Program(c, r, i) = StepOps(c, r)
                    BY <4>1, TrainingStep
                <4>3. \A q : Tally(StepOps(c, r), {Send(q)})
                          = (IF ~IsLastStage(c.shape, r) /\ q = Succ(c.shape, r) THEN M ELSE 0)
                            + (IF ~IsFirstStage(c.shape, r) /\ q = Prev(c.shape, r) THEN M ELSE 0)
                    BY <1>1, StepParts
                <4>4. Tally(StepOps(c, r), {Send(p)}) = 0 + 0
                    BY <4>3
                <4>. QED
                    BY <4>2, <4>4
            <3>. QED
                BY <3>1, <3>2
        <2>. QED
            BY <1>3, <2>1, <2>2
    <1>5. \A n \in Nat : Before(c, r, n) \in T
        <2>. HIDE DEF T
        <2>. QED
            BY <1>1, <1>4, BeforeJoined
    <1>. DEFINE n == step[r]
    <1>6. n \in Nat /\ n + 1 \in Nat
        BY <1>1, RanWithin DEF Recording
    <1>7. Tally(Before(c, r, n + 1), R) = 0
        <2>1. Before(c, r, n + 1) \in Seq(Operations)
            BY <1>1, <1>6, BeforeStep
        <2>2. Before(c, r, n + 1) \in T
            BY <1>5, <1>6
        <2>. HIDE DEF T
        <2>. QED
            BY <1>3, <2>1, <2>2
    <1>8. Count(d, r, R) <= Tally(Before(c, r, n + 1), R) /\ Count(d, r, R) \in Nat
        <2>. HIDE DEF R
        <2>. QED
            BY <1>6, CountFacts
    <1>. HIDE DEF R
    <1>9. Count(d, r, R) = 0
        BY <1>7, <1>8
    <1>. QED
        BY <1>9 DEF R

\* With a neighbour, a rank is in the same step with its sends as with its
\* receipts: they are M of each.
LEMMA StepMessages ==
    ASSUME NEW d, Recording(d), NEW r \in Ranks, NEW p,
           \/ ~IsFirstStage(config.shape, r) /\ p = Prev(config.shape, r)
           \/ ~IsLastStage(config.shape, r) /\ p = Succ(config.shape, r)
    PROVE  /\ Count(d, r, {Send(p)}) \in Nat /\ Count(d, r, {Recv(p)}) \in Nat
           /\ Count(d, r, {Send(p)}) <= Count(d, r, {Recv(p)}) + M
           /\ Count(d, r, {Recv(p)}) <= Count(d, r, {Send(p)}) + M
    <1>. DEFINE c == config
                n == step[r]
                S == {Send(p)}
                V == {Recv(p)}
                Both(i) == {Tally(Before(c, r, i), S), Tally(Before(c, r, i), V)}
    <1>1. c \in Configs /\ n \in Nat /\ n \in Started /\ NumSteps \in Nat \ {0} /\ M \in Nat \ {0}
          /\ n + 1 \in Nat
        <2>1. n \in Nat /\ n \in Started /\ c \in Configs
            BY RanWithin DEF Recording, StateTypes
        <2>. HIDE DEF n, c
        <2>. QED
            BY <2>1, TrainStepAssumption
    <1>2. /\ \A i \in 1 .. NumSteps + 1 : Tally(Before(c, r, i), S) = (i - 1) * M
          /\ \A i \in 1 .. NumSteps + 1 : Tally(Before(c, r, i), V) = (i - 1) * M
        <2>1. \A i \in 1 .. NumSteps + 1 : /\ Tally(Before(c, r, i), {Send(p)}) = (i - 1) * M
                                           /\ Tally(Before(c, r, i), {Recv(p)}) = (i - 1) * M
            BY <1>1, BeforeMessages
        <2>. QED
            BY <2>1
    <1>3. ASSUME NEW R, R = S \/ R = V
          PROVE  /\ Tally(Before(c, r, 0), R) = 0
                 /\ n = 0 \/ n > NumSteps
                       => Tally(Before(c, r, n + 1), R) = Tally(Before(c, r, n), R)
                 /\ Tally(Before(c, r, n), R) <= Count(d, r, R)
                 /\ Count(d, r, R) <= Tally(Before(c, r, n + 1), R)
                 /\ Count(d, r, R) \in Nat
        <2>1. n = 0 \/ n > NumSteps => Tally(Program(c, r, n), R) = 0
            <3>1. n = 0 \/ n > NumSteps => /\ Tally(Program(c, r, n), {Send(p)}) = 0
                                           /\ Tally(Program(c, r, n), {Recv(p)}) = 0
                BY <1>1, ProgramMessages
            <3>. QED
                BY <1>3, <3>1
        <2>2. /\ Tally(Before(c, r, 0), R) = 0 /\ Tally(Before(c, r, n), R) \in Nat
              /\ Tally(Before(c, r, n + 1), R) = Tally(Before(c, r, n), R) + Tally(Program(c, r, n), R)
            BY <1>1, BeforeCount
        <2>3. /\ Tally(Before(c, r, n), R) <= Count(d, r, R)
              /\ Count(d, r, R) <= Tally(Before(c, r, n + 1), R)
              /\ Count(d, r, R) \in Nat
            BY <1>1, CountFacts
        <2>. HIDE DEF S, V
        <2>4. n = 0 \/ n > NumSteps => Tally(Before(c, r, n + 1), R) = Tally(Before(c, r, n), R)
            BY <2>1, <2>2
        <2>. QED
            BY <2>2, <2>3, <2>4
    <1>. DEFINE a == Count(d, r, S)
                b == Count(d, r, V)
    <1>4. \E low \in Nat : low <= a /\ a <= low + M /\ low <= b /\ b <= low + M
        <2>1. CASE n = 0
            <3>1. Tally(Before(c, r, n), S) = 0 /\ Tally(Before(c, r, n), V) = 0
                BY <1>3, <2>1
            <3>2. a \in Nat /\ b \in Nat /\ a <= 0 /\ b <= 0
                BY <1>3, <2>1, <3>1
            <3>. HIDE DEF a, b
            <3>. QED
                BY <1>1, <3>2
        <2>2. CASE n \in 1 .. NumSteps
            <3>. DEFINE low == (n - 1) * M
            <3>1. n \in 1 .. NumSteps + 1 /\ n + 1 \in 1 .. NumSteps + 1 /\ (n + 1) - 1 = n
                BY <1>1, <2>2
            <3>2. Tally(Before(c, r, n), S) = low /\ Tally(Before(c, r, n), V) = low
                BY <1>2, <3>1
            <3>3. Tally(Before(c, r, n + 1), S) = n * M /\ Tally(Before(c, r, n + 1), V) = n * M
                <4>. DEFINE i == n + 1
                <4>1. i \in 1 .. NumSteps + 1 /\ i - 1 = n
                    BY <3>1
                <4>. HIDE DEF i
                <4>2. Tally(Before(c, r, i), S) = (i - 1) * M /\ Tally(Before(c, r, i), V) = (i - 1) * M
                    BY <1>2, <4>1
                <4>. QED
                    BY <4>1, <4>2 DEF i
            <3>4. n * M = low + M /\ low \in Nat
                <4>. DEFINE i == n - 1
                <4>1. i \in Nat /\ n = i + 1 /\ M \in Nat
                    BY <1>1, <2>2
                <4>. HIDE DEF i, n
                <4>2. (i + 1) * M = i * M + M /\ i * M \in Nat
                    BY <4>1
                <4>. QED
                    BY <4>1, <4>2 DEF i
            <3>5. low <= a /\ a <= n * M /\ low <= b /\ b <= n * M
                BY <1>3, <3>2, <3>3
            <3>. HIDE DEF low, a, b, n
            <3>. QED
                BY <3>4, <3>5
        <2>3. CASE n = NumSteps + 1
            <3>. DEFINE low == NumSteps * M
            <3>1. n > NumSteps /\ NumSteps + 1 \in 1 .. NumSteps + 1 /\ (NumSteps + 1) - 1 = NumSteps
                BY <1>1, <2>3
            <3>2. Tally(Before(c, r, n), S) = low /\ Tally(Before(c, r, n), V) = low
                <4>. DEFINE i == NumSteps + 1
                <4>1. i \in 1 .. NumSteps + 1 /\ i - 1 = NumSteps /\ n = i
                    BY <2>3, <3>1
                <4>. HIDE DEF i
                <4>2. Tally(Before(c, r, i), S) = (i - 1) * M /\ Tally(Before(c, r, i), V) = (i - 1) * M
                    BY <1>2, <4>1
                <4>. QED
                    BY <4>1, <4>2
            <3>3. low <= a /\ a <= low /\ low <= b /\ b <= low /\ a \in Nat /\ b \in Nat
                BY <1>3, <3>1, <3>2
            <3>4. low \in Nat
                BY <1>1
            <3>. HIDE DEF low, a, b, n
            <3>. QED
                BY <1>1, <3>3, <3>4
        <2>. QED
            BY <1>1, <2>1, <2>2, <2>3 DEF Started
    <1>5. a \in Nat /\ b \in Nat
        BY <1>3
    <1>. HIDE DEF a, b
    <1>6. a <= b + M /\ b <= a + M
        BY <1>1, <1>4, <1>5
    <1>. QED
        BY <1>5, <1>6 DEF a, b

\* No gradient has been sent back for which no activation has been received.
LEMMA GradientsBehind ==
    ASSUME NEW d, Recording(d), NEW r \in Ranks, ~IsFirstStage(config.shape, r)
    PROVE  Count(d, r, {Send(Prev(config.shape, r))}) <= Count(d, r, {Recv(Prev(config.shape, r))})
    <1>. DEFINE c == config
                n == step[r]
                o == d[r]
                t == todo[r]
                S == {Send(Prev(c.shape, r))}
                V == {Recv(Prev(c.shape, r))}
                x == Run(c, r, n, o)
    <1>1. c \in Configs /\ Within(c, r, n, o, t) /\ n \in Nat /\ n + 1 \in Nat /\ x \in Seq(Operations)
        BY RanWithin DEF Recording, Ran
    <1>2. Before(c, r, n + 1) \in Leading(Operations, S, V)
        BY <1>1, BeforeOrders
    <1>3. t \in Seq(Operations)
        BY <1>1 DEF Within
    <1>. HIDE DEF S, V, n, o, t, c
    <1>4. Run(c, r, n, o) \o t = Before(c, r, n + 1)
        BY <1>1, RunAll
    <1>. HIDE DEF x
    <1>5. x \o t \in Leading(Operations, S, V)
        BY <1>2, <1>4 DEF x
    <1>6. Tally(x, S) <= Tally(x, V)
        BY <1>1, <1>3, <1>5 DEF Leading
    <1>. QED
        BY <1>6 DEF Count, Ran, x, S, V, n, o, c

\* At most a step's microbatches are under way.
LEMMA FewUnderWay ==
    ASSUME NEW d, Recording(d), NEW a \in Ranks, NEW b \in Ranks
    PROVE  link[<<a, b>>] \in 0 .. M
    <1>. DEFINE m == config.shape
                l == link[<<a, b>>]
                s == Count(d, a, {Send(b)})
                v == Count(d, b, {Recv(a)})
    <1>1. config \in Configs /\ M \in Nat
        BY TrainStepAssumption DEF Recording
    <1>2. s = v + l /\ l \in Nat
        BY DEF Recording, Recorded, Count, StateTypes
    <1>3. v \in Nat /\ s \in Nat
        <2>1. 0 \in Nat
            OBVIOUS
        <2>. QED
            BY <2>1, CountFacts
    <1>4. CASE ~IsFirstStage(m, a) /\ b = Prev(m, a)
        <2>1. ~IsLastStage(m, b) /\ Succ(m, b) = a
            BY <1>1, <1>4, PrevStage
        <2>. DEFINE w == Count(d, a, {Recv(b)})
                    u == Count(d, b, {Send(a)})
                    i == link[<<b, a>>]
        <2>2. s <= w
            BY <1>4, GradientsBehind
        <2>3. u = w + i /\ i \in Nat
            BY DEF Recording, Recorded, Count, StateTypes
        <2>4. u <= v + M /\ u \in Nat
            BY <2>1, StepMessages
        <2>5. w \in Nat
            BY <1>4, StepMessages
        <2>. HIDE DEF w, u, i, s, v, l
        <2>6. l \in 0 .. M
            BY <1>1, <1>2, <1>3, <2>2, <2>3, <2>4, <2>5
        <2>. QED
            BY <2>6 DEF l
    <1>5. CASE ~IsLastStage(m, a) /\ b = Succ(m, a)
        <2>1. ~IsFirstStage(m, b) /\ Prev(m, b) = a
            BY <1>1, <1>5, SuccStage
        <2>. DEFINE w == Count(d, a, {Recv(b)})
                    u == Count(d, b, {Send(a)})
                    i == link[<<b, a>>]
        <2>2. s <= w + M /\ w \in Nat
            BY <1>5, StepMessages
        <2>3. u = w + i /\ i \in Nat
            BY DEF Recording, Recorded, Count, StateTypes
        <2>4. u <= v
            BY <2>1, GradientsBehind
        <2>5. u \in Nat
            BY <2>1, StepMessages
        <2>. HIDE DEF w, u, i, s, v, l
        <2>6. l \in 0 .. M
            BY <1>1, <1>2, <1>3, <2>2, <2>3, <2>4, <2>5
        <2>. QED
            BY <2>6 DEF l
    <1>6. CASE /\ ~(~IsFirstStage(m, a) /\ b = Prev(m, a))
               /\ ~(~IsLastStage(m, a) /\ b = Succ(m, a))
        <2>1. s = 0
            BY <1>6, NoMessagesBetween
        <2>. HIDE DEF s, v, l
        <2>2. l \in 0 .. M
            BY <1>1, <1>2, <1>3, <2>1
        <2>. QED
            BY <2>2 DEF l
    <1>. QED
        BY <1>4, <1>5, <1>6

-----------------------------------------------------------------------------
(* The types. *)

\* The groups are sequences of ranks.
LEMMA GroupTypes == GroupInv => group \in [Ranks -> [Kinds -> Seq(Ranks)]]
    <1>. SUFFICES ASSUME GroupInv PROVE group \in [Ranks -> [Kinds -> Seq(Ranks)]]
        OBVIOUS
    <1>. DEFINE g(r, k) == IF k = "world" THEN [i \in 1 .. World |-> i - 1] ELSE GroupOf(config.shape, r, k)
    <1>1. group = [r \in Ranks |-> [k \in Kinds |-> g(r, k)]]
        BY DEF GroupInv
    <1>2. ASSUME NEW r \in Ranks, NEW k \in Kinds PROVE g(r, k) \in Seq(Ranks)
        <2>1. CASE k = "world"
            <3>1. World \in Nat
                BY TrainStepAssumption
            <3>2. [i \in 1 .. World |-> i - 1] \in [1 .. World -> Ranks]
                BY <3>1 DEF Ranks
            <3>3. [i \in 1 .. World |-> i - 1] \in Seq(Ranks)
                BY <3>1, <3>2
            <3>. QED
                BY <2>1, <3>3
        <2>2. CASE k # "world"
            <3>. DEFINE m == config.shape
            <3>1. k \in Axes
                BY <2>2 DEF Kinds, Axes
            <3>2. IsShape(m) /\ RanksOf(m) = Ranks /\ m[k] \in Nat
                BY <3>1, ShapeOfJob DEF IsShape, Axes
            <3>. HIDE DEF m
            <3>3. GroupOf(m, r, k) = [e \in 1 .. m[k] |-> Member(m, CoordOf(m, r), k, e)]
                BY <3>1, <3>2, GroupMembers
            <3>4. \A e \in 1 .. m[k] : Member(m, CoordOf(m, r), k, e) \in Ranks
                BY <3>1, <3>2, MemberCoord
            <3>5. GroupOf(m, r, k) \in [1 .. m[k] -> Ranks]
                BY <3>3, <3>4
            <3>6. GroupOf(m, r, k) \in Seq(Ranks)
                <4>. DEFINE n == m[k]
                            f == GroupOf(m, r, k)
                <4>1. n \in Nat /\ f \in [1 .. n -> Ranks]
                    BY <3>2, <3>5
                <4>. HIDE DEF n, f
                <4>2. f \in Seq(Ranks)
                    BY <4>1
                <4>. QED
                    BY <4>2 DEF f
            <3>. QED
                BY <2>2, <3>6 DEF m
        <2>. QED
            BY <2>1, <2>2
    <1>. HIDE DEF g
    <1>. QED
        BY <1>1, <1>2

\* The invariant types the state.
LEMMA RunTypes == RunInv => TypeOK
    <1>. SUFFICES ASSUME RunInv PROVE TypeOK
        OBVIOUS
    <1>1. PICK d \in [Ranks -> Seq(Operations)] : Recorded(d)
        BY DEF RunInv
    <1>2. Recording(d) /\ GroupInv /\ StateTypes
        BY <1>1 DEF RunInv, Recording, GroupInv
    <1>3. config \in Configs /\ group \in [Ranks -> [Kinds -> Seq(Ranks)]]
        BY <1>2, GroupTypes DEF Recording
    <1>4. step \in [Ranks -> 0 .. NumSteps + 1] /\ waited \in [Ranks -> [Kinds -> Nat]]
        BY <1>2 DEF StateTypes, Started
    <1>5. ASSUME NEW r \in Ranks, todo[r] # << >> PROVE Now(r) \in Operations
        BY <1>2, <1>5 DEF Now, StateTypes
    <1>6. ASSUME NEW r \in Ranks, NEW k \in Kinds
          PROVE  /\ waited[r][k] <= Len(called[r][k])
                 /\ called[r][k] # << >> => Last(called[r][k]) \in Names \X Seq(Nat)
        <2>1. waited[r][k] <= Len(called[r][k])
            BY <1>1, <1>2, WaitsBehind
        <2>. DEFINE V == Names \X Seq(Nat)
                    o == called[r][k]
        <2>2. o \in Seq(V)
            BY <1>2 DEF StateTypes
        <2>. HIDE DEF V, o
        <2>3. o # << >> => Last(o) \in V
            <3>1. o # << >> => Len(o) \in 1 .. Len(o)
                BY <2>2
            <3>. QED
                BY <2>2, <3>1 DEF Last
        <2>. QED
            BY <2>1, <2>3 DEF V, o
    <1>7. link \in [Ranks \X Ranks -> 0 .. M]
        <2>1. link \in [Ranks \X Ranks -> Nat]
            BY <1>2 DEF StateTypes
        <2>2. \A e \in Ranks \X Ranks : link[e] \in 0 .. M
            <3>. TAKE e \in Ranks \X Ranks
            <3>1. PICK a \in Ranks, b \in Ranks : e = <<a, b>>
                OBVIOUS
            <3>. QED
                BY <1>2, <3>1, FewUnderWay
        <2>. QED
            BY <2>1, <2>2
    <1>. QED
        BY <1>3, <1>4, <1>5, <1>6, <1>7 DEF TypeOK

\* The invariant makes the calls of a group match.
LEMMA RunMatches == RunInv => GroupCallsMatch
    BY CallsMatch DEF RunInv

\* The invariant holds in every state.
LEMMA RunsKept == Spec => []RunInv
    BY RunStarts, RunStays, PTL DEF Spec

\* The variables keep their types: nothing is waited for that was not called,
\* and no more messages are under way between two ranks than a step has
\* microbatches.
THEOREM TrainStepTypes == Spec => []TypeOK
    BY RunsKept, RunTypes, PTL

\* In every configuration, the members of every group make the same calls in
\* the same order.
THEOREM CallsMatchInGroups == Spec => []GroupCallsMatch
    BY RunsKept, RunMatches, PTL

\* No rank is more than one training step ahead of another it is tied to: all
\* ranks are, unless the model is unwrapped and nothing is scaled, and then those
\* of one replica.
THEOREM StepsTogether == Spec => []WithinOneStep
    BY RunsKept, Together, PTL
=============================================================================
