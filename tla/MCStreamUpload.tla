--------------------------- MODULE MCStreamUpload ---------------------------
(* StreamUpload for TLC: a form of a few pieces. *)
EXTENDS StreamUpload

=============================================================================
