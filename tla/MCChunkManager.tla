--------------------------- MODULE MCChunkManager ---------------------------
(* Small instances of ChunkManager for TLC. *)
EXTENDS ChunkManager, TLC

OneEach == [read |-> 1, prefetch |-> 1]
Symmetric == Permutations(Readers)
==============================================================================
