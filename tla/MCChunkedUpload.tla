------------------------- MODULE MCChunkedUpload -------------------------
(* Small instances of ChunkedUpload for TLC. *)
EXTENDS ChunkedUpload

NoFaults == [k \in FaultKind |-> 0]
OneOfEach == [k \in FaultKind |-> 1]

=============================================================================
