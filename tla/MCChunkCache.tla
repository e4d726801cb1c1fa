---------------------------- MODULE MCChunkCache ----------------------------
(* A small instance of ChunkCache for TLC: three chunks of two files. *)
EXTENDS ChunkCache

CONSTANTS a0, a1, b0
FileOf == [k \in Keys |-> IF k = b0 THEN "b" ELSE "a"]
==============================================================================
