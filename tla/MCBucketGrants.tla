--------------------------- MODULE MCBucketGrants ---------------------------
(* Small instances of BucketGrants for TLC. *)
EXTENDS BucketGrants, TLC

CONSTANTS u1, u2, i1, i2

(* One user has both IAM users, the other none, but buckets. *)
BothOfOne == (i1 :> u1) @@ (i2 :> u1)

(* Every run of it checks safety only. *)
Symmetry ==
  Permutations(Ids) \cup Permutations(Keys) \cup Permutations(Buckets) \cup Permutations(Jobs)

=============================================================================
