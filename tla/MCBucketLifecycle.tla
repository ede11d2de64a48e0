------------------------- MODULE MCBucketLifecycle -------------------------
(* Small instances of BucketLifecycle for TLC. *)
EXTENDS BucketLifecycle

OneOf(kinds) == [k \in FaultKind |-> IF k \in kinds THEN 1 ELSE 0]

(* A failure of each sort: calls and statements without effect, a rollback *)
(* that fails, a replica that stops, a message that is delivered again.    *)
SomeFaults == OneOf({"db", "minio", "rollback", "listing", "publish", "crash", "requeue", "redelivery"})

(* The publication fails, and nothing else does. *)
Unpublished == OneOf({"publish"})

=============================================================================
