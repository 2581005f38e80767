--------------------------- MODULE MCShardedStep ---------------------------
(* Small instance of ShardedStep for TLC: two heads of one feature, four    *)
(* token ids, sequences of two tokens, up to three replicas and one or two  *)
(* ranks to a tensor group.                                                *)
EXTENDS ShardedStep

CONSTANTS Dps, Tps

\* Weights without a pattern that two shards could share.
Hashed(rows, columns, seed) ==
    [i \in 1 .. rows |-> [j \in 1 .. columns |->
        (seed * seed + 7 * i * i * i + 31 * i * j + 17 * j * j + 3 * seed * (i + 2 * j)) % P]]

MCFullWeight ==
    [wte |-> Hashed(Vocab, Embd, 1), wpe |-> Hashed(SeqLen, Embd, 2),
     ln1 |-> Hashed(Embd, 1, 3), qkv |-> Hashed(3 * Embd, Embd, 4),
     qkv_bias |-> Hashed(3 * Embd, 1, 5), attn_proj |-> Hashed(Embd, Embd, 6),
     attn_proj_bias |-> Hashed(Embd, 1, 7), ln2 |-> Hashed(Embd, 1, 8),
     fc |-> Hashed(4 * Embd, Embd, 9), fc_bias |-> Hashed(4 * Embd, 1, 10),
     mlp_proj |-> Hashed(Embd, 4 * Embd, 11), mlp_proj_bias |-> Hashed(Embd, 1, 12),
     ln_f |-> Hashed(Embd, 1, 13), head |-> Hashed(Vocab, Embd, 14)]

\* Between them every id is a token and a target.
MCSamples == {[ids |-> <<0, 3>>, targets |-> <<2, 1>>], [ids |-> <<2, 1>>, targets |-> <<3, 0>>]}

\* record_comm is used with DDP, on at most two replicas.
MCConfigs ==
    [dp : Dps, tp : Tps, wrapper : {"ddp", "fsdp"}, gathered : BOOLEAN, records : {0}]
    \cup [dp : {1, 2}, tp : Tps, wrapper : {"ddp"}, gathered : BOOLEAN, records : {2}]
=============================================================================
