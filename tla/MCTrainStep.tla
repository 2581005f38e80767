----------------------------- MODULE MCTrainStep -----------------------------
(* Small instances of TrainStep for TLC. *)
EXTENDS TrainStep

\* The meshes with a given number of ranks on axes of one, two or four.
MCShapes == {m \in [tp : {1, 2, 4}, dp : {1, 2, 4}, pp : {1, 2, 4}] : WorldSize(m) = World}
=============================================================================
