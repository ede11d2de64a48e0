-------------------------- MODULE MCIAMCredentials --------------------------
(* Small instances of IAMCredentials for TLC. *)
EXTENDS IAMCredentials

=============================================================================
