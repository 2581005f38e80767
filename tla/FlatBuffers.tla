---------------------------- MODULE FlatBuffers ----------------------------
(***************************************************************************)
(* The flat buffers gradients and parameters travel in: the buckets of     *)
(* minidist/ddp.py and the flat parameters of minidist/fsdp.py.            *)
(***************************************************************************)
EXTENDS Tensors

Numel(t) == Len(t) * Width(t)

\* reshape(-1), and the view of a shape like t's at an offset.
Flat(t) == FlattenSeq(t)
ViewAs(flat, offset, t) ==
    [i \in DOMAIN t |-> [j \in DOMAIN t[i] |-> flat[offset + (i - 1) * Width(t) + j]]]

\* Where each of a list of tensors begins, when they are laid end to end.
Offsets(numels) ==
    [k \in DOMAIN numels |-> FoldLeft(+, 0, SubSeq(numels, 1, k - 1))]

Zeros(n) == [i \in 1 .. n |-> 0]
Scaled(flat, k) == [i \in DOMAIN flat |-> (flat[i] * k) % P]
SumFlats(flats) ==
    [i \in DOMAIN flats[0] |-> Total([r \in DOMAIN flats |-> flats[r][i]])]

-----------------------------------------------------------------------------
(* DistributedDataParallel *)

\* Mutant: a full bucket is dropped when the next one is begun.
PlacedAnew(st, p, size, cap) ==
    IF st.current # << >> /\ st.bytes + size > cap
    THEN [st EXCEPT !.current = <<p>>, !.bytes = size]
    ELSE [st EXCEPT !.current = Append(@, p), !.bytes = @ + size]

\* One turn of the loop of _build_buckets.
Placed(st, p, size, cap) ==
    IF st.current # << >> /\ st.bytes + size > cap
    THEN [buckets |-> Append(st.buckets, st.current), current |-> <<p>>, bytes |-> size]
    ELSE [st EXCEPT !.current = Append(@, p), !.bytes = @ + size]

\* _build_buckets: params in order, their sizes, and the capacity.
BuildBuckets(params, size, cap) ==
    LET end == FoldLeft(LAMBDA st, p : Placed(st, p, size[p], cap),
                        [buckets |-> << >>, current |-> << >>, bytes |-> 0],
                        Reverse(params))
    IN  IF end.current # << >> THEN Append(end.buckets, end.current) ELSE end.buckets

\* gather_into_buffer: the gradients end to end, times 1 / world.
GatherIntoBuffer(bucket, grads, world) ==
    Scaled(FlattenSeq([k \in DOMAIN bucket |-> Flat(grads[bucket[k]])]),
           Reciprocal[world])

\* scatter_from_buffer: the parameters of the bucket get their slices.
ScatterFromBuffer(bucket, flat, grads) ==
    LET offsets == Offsets([k \in DOMAIN bucket |-> Numel(grads[bucket[k]])])
        PlaceIn(p) == CHOOSE k \in DOMAIN bucket : bucket[k] = p
    IN  [p \in DOMAIN grads |->
            IF p \in Range(bucket)
            THEN ViewAs(flat, offsets[PlaceIn(p)], grads[p])
            ELSE grads[p]]

\* All buckets reduced over the group: what each rank's gradients become.
ReduceBuckets(buckets, grads) ==
    LET world == Cardinality(DOMAIN grads)
        Reduce(gs, bucket) ==
            LET flat == SumFlats([r \in DOMAIN gs |-> GatherIntoBuffer(bucket, gs[r], world)])
            IN  [r \in DOMAIN gs |-> ScatterFromBuffer(bucket, flat, gs[r])]
    IN  FoldLeft(Reduce, grads, buckets)

-----------------------------------------------------------------------------
(* FullyShardedDataParallel *)

ShardNumel(total, world) == (total + world - 1) \div world
PaddedNumel(total, world) == ShardNumel(total, world) * world

\* A unit's tensors end to end, padded to a multiple of the group's size.
FlatParameter(unit, tensors, world) ==
    LET flat == FlattenSeq([k \in DOMAIN unit |-> Flat(tensors[unit[k]])])
    IN  flat \o Zeros(PaddedNumel(Len(flat), world) - Len(flat))

\* Mutant: shards overlap in the first element of the next one.
ShardOfOverlapping(flat, world, rank) ==
    SubSeq(flat, rank * (Len(flat) \div world) + (IF rank = 0 THEN 1 ELSE 0),
           (rank + 1) * (Len(flat) \div world))

\* A rank's slice of a padded flat parameter.
ShardOf(flat, world, rank) ==
    SubSeq(flat, rank * (Len(flat) \div world) + 1, (rank + 1) * (Len(flat) \div world))

\* reduce_scatter_grads: the shards of the mean, by rank.
ReduceScatterGrads(unit, grads) ==
    LET world == Cardinality(DOMAIN grads)
        scaled == [r \in DOMAIN grads |->
                      Scaled(FlatParameter(unit, grads[r], world), Reciprocal[world])]
    IN  [r \in DOMAIN grads |-> ShardOf(SumFlats(scaled), world, r)]

\* unshard: the shards end to end, seen through the parameters' views.
Unsharded(unit, shards, tensors) ==
    LET world == Cardinality(DOMAIN shards)
        full == FlattenSeq([r \in 1 .. world |-> shards[r - 1]])
        offsets == Offsets([k \in DOMAIN unit |-> Numel(tensors[unit[k]])])
        PlaceIn(p) == CHOOSE k \in DOMAIN unit : unit[k] = p
    IN  [p \in Range(unit) |-> ViewAs(full, offsets[PlaceIn(p)], tensors[p])]
=============================================================================
