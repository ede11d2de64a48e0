---------------------------- MODULE MCChunkPlan ----------------------------
(* Small instances of ChunkPlan for TLC. *)
EXTENDS ChunkPlan

(* Every size of a small int64: files below the threshold, files whose     *)
(* number of chunks the column cannot hold, and sums that wrap around.     *)
AllSizes == 1 .. IntMax
SmallPreferences == 0 .. 5

=============================================================================
