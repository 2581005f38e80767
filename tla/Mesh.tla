-------------------------------- MODULE Mesh --------------------------------
(***************************************************************************)
(* minidist/mesh.py: the ranks as a pipeline x data x tensor mesh, and the *)
(* process groups along its axes.  A shape is a record of the three        *)
(* parallel degrees.                                                       *)
(***************************************************************************)
EXTENDS Integers, Sequences, SequencesExt

WorldSize(m) == m.tp * m.dp * m.pp
RanksOf(m) == 0 .. WorldSize(m) - 1

IsShape(m) == m \in [tp : Nat \ {0}, dp : Nat \ {0}, pp : Nat \ {0}]

\* Mutant: the data-parallel rank wraps at the number of stages.
CoordOfMixed(m, rank) ==
    [pp |-> rank \div (m.tp * m.dp), dp |-> (rank \div m.tp) % m.pp, tp |-> rank % m.tp]

CoordOf(m, rank) ==
    [pp |-> rank \div (m.tp * m.dp), dp |-> (rank \div m.tp) % m.dp, tp |-> rank % m.tp]

RankOf(m, pp, dp, tp) == pp * (m.dp * m.tp) + dp * m.tp + tp

\* The groups _build_groups creates, in its order: all of one kind before
\* the next, each an ordered list of ranks.
TpGroups(m) ==
    [i \in 1 .. m.pp * m.dp |-> [kind |-> "tp", ranks |->
        [t \in 1 .. m.tp |-> RankOf(m, (i - 1) \div m.dp, (i - 1) % m.dp, t - 1)]]]

DpGroups(m) ==
    [i \in 1 .. m.pp * m.tp |-> [kind |-> "dp", ranks |->
        [d \in 1 .. m.dp |-> RankOf(m, (i - 1) \div m.tp, d - 1, (i - 1) % m.tp)]]]

PpGroups(m) ==
    [i \in 1 .. m.dp * m.tp |-> [kind |-> "pp", ranks |->
        [p \in 1 .. m.pp |-> RankOf(m, p - 1, (i - 1) \div m.tp, (i - 1) % m.tp)]]]

AllGroups(m) == TpGroups(m) \o DpGroups(m) \o PpGroups(m)

\* Mutant: a rank creates the groups it is a member of.
GroupsCreatedOwn(m, rank) ==
    SelectSeq(AllGroups(m), LAMBDA g : rank \in Range(g.ranks))

\* Mutant: a rank creates no more groups once it has all of its own.
GroupsCreatedUntilOwn(m, rank) ==
    SubSeq(AllGroups(m), 1, SelectLastInSeq(AllGroups(m), LAMBDA g : rank \in Range(g.ranks)))

\* What one rank creates: every group, also those it is no member of.
GroupsCreated(m, rank) == AllGroups(m)

\* The group a rank keeps, of those it created: the last it is a member of.
GroupOf(m, rank, kind) ==
    LET created == GroupsCreated(m, rank)
        mine == SelectLastInSeq(created,
                                LAMBDA g : g.kind = kind /\ rank \in Range(g.ranks))
    IN  created[mine].ranks

IsFirstStage(m, rank) == CoordOf(m, rank).pp = 0
IsLastStage(m, rank) == CoordOf(m, rank).pp = m.pp - 1

\* pp_ranks, the pipeline group a rank keeps, is indexed from 0 in the code.
PrevStageRank(m, rank, pp_ranks) == pp_ranks[CoordOf(m, rank).pp]
NextStageRank(m, rank, pp_ranks) == pp_ranks[CoordOf(m, rank).pp + 2]
=============================================================================
