-------------------------- MODULE BucketLifecycle --------------------------
(***************************************************************************)
(* The life of a bucket: its row in Postgres, the bucket in MinIO, and the *)
(* queue bucket.delete between the HTTP server and the consumer            *)
(* (http/controller/bucket.go, consumer/worker/bucket.go).                 *)
(*                                                                         *)
(* Requests and messages name the MinIO bucket by its name, rows go by     *)
(* uuid, and a name that was deleted may be used again: row[n] numbers the *)
(* rows that name n had, one after the other.  Nothing ties the row to the *)
(* bucket but the order of the steps, so each statement, call to MinIO,    *)
(* publication and acknowledgement is an action, and a request or message  *)
(* is a token at the place it has reached.                                 *)
(*                                                                         *)
(* The policies that grant the bucket are the module BucketGrants's.       *)
(***************************************************************************)
EXTENDS Integers, FiniteSets

CONSTANTS
  Names,       \* bucket names
  MaxRows,     \* bound: rows a name may have, one after the other
  MaxCreates,  \* bound: CreateBucket requests for a name at a time
  MaxDeletes,  \* bound: DeleteBucketByID requests for a row at a time
  MaxUses,     \* bound: uploads, and access changes, for a row at a time
  MaxFaults    \* bound: failures of each kind in a behaviour

(* What may fail: a statement, without effect or with its answer lost; a   *)
(* call to MinIO likewise ("rollback": the one that undoes a creation);    *)
(* the listing of a bucket; a publication, with an error or lost without   *)
(* one; the HTTP replica during a request; the consumer, before the bucket *)
(* is removed ("requeue") or after ("redelivery").                         *)
FaultKind == {"db", "db_reply", "minio", "reply", "rollback", "listing",
              "publish", "lost", "crash", "requeue", "redelivery"}

ASSUME BoundsAssumption ==
  /\ MaxRows \in Nat /\ MaxCreates \in Nat /\ MaxDeletes \in Nat /\ MaxUses \in Nat
  /\ MaxFaults \in [FaultKind -> Nat]

Rows == 1 .. MaxRows

HttpPlace == {"make", "insert", "rollback", "publish"}
ConsumerPlace == {"remove_objects", "remove_bucket", "policies"}
Place == HttpPlace \cup {"queued"} \cup ConsumerPlace

(* Requests that have found a row by its uuid. *)
RowPlace == {"delete_row", "store", "exists", "set_access"}

VARIABLES
  row,      \* table buckets: the row of the name, or 0
  last,     \* history: the last row that the name had
  minio,    \* the names whose bucket is in MinIO
  content,  \* rows under which files were stored that are still in the bucket
  public,   \* the row whose owner made the bucket public, or 0: private
  at,       \* requests and messages that go by the name
  of,       \* requests that go by a row
  faults    \* history: failures of each kind

vars == <<row, last, minio, content, public, at, of, faults>>

storage == <<minio, content, public>>

Init ==
  /\ row = [n \in Names |-> 0]
  /\ last = [n \in Names |-> 0]
  /\ minio = {}
  /\ content = [n \in Names |-> {}]
  /\ public = [n \in Names |-> 0]
  /\ at = [n \in Names |-> [p \in Place |-> 0]]
  /\ of = [n \in Names |-> [r \in Rows |-> [p \in RowPlace |-> 0]]]
  /\ faults = [k \in FaultKind |-> 0]

----------------------------------------------------------------------------
(* Helpers. *)

Fault(k) == faults[k] < MaxFaults[k] /\ faults' = [faults EXCEPT ![k] = @ + 1]
NoFault == UNCHANGED faults

(* One request or message moves, appears or ends. *)
Move(n, p, q) ==
  /\ at[n][p] > 0
  /\ at' = [at EXCEPT ![n][p] = @ - 1, ![n][q] = @ + 1]
Enter(n, q) == at' = [at EXCEPT ![n][q] = @ + 1]
Leave(n, p) == at[n][p] > 0 /\ at' = [at EXCEPT ![n][p] = @ - 1]

MoveOf(n, r, p, q) ==
  /\ of[n][r][p] > 0
  /\ of' = [of EXCEPT ![n][r][p] = @ - 1, ![n][r][q] = @ + 1]
EnterOf(n, r, q) == of' = [of EXCEPT ![n][r][q] = @ + 1]
LeaveOf(n, r, p) == of[n][r][p] > 0 /\ of' = [of EXCEPT ![n][r][p] = @ - 1]

(* A handler finds the row of a uuid, and the caller owns it. *)
FindByID(n, r) == row[n] = r

(* An attempt that failed is repeated; after the third the message goes    *)
(* back to the queue.  The attempts differ in the pause before them only.  *)
Retry(n, p) == Move(n, p, "remove_objects") \/ Move(n, p, "queued")

----------------------------------------------------------------------------
(* CreateBucket. *)

(* ExistsByName.  Every request that gets this far may need a row. *)
CreateBucket(n) ==
  /\ row[n] = 0
  /\ at[n]["make"] < MaxCreates
  /\ last[n] + at[n]["make"] + at[n]["insert"] < MaxRows
  /\ Enter(n, "make")
  /\ UNCHANGED <<row, last, storage, of, faults>>

(* Slip: a bucket that is there already is taken for one's own. *)
MakeOrReuse(n) ==
  /\ Move(n, "make", "insert")
  /\ minio' = minio \cup {n}
  /\ UNCHANGED <<row, last, content, public, of, faults>>

(* MakeBucket fails when the bucket is there, and the client gets a 500.   *)
(* When the answer is lost the bucket is there all the same.               *)
MakeBucket(n) ==
  /\ \/ /\ n \notin minio
        /\ minio' = minio \cup {n}
        /\ \/ Move(n, "make", "insert") /\ NoFault
           \/ Leave(n, "make") /\ Fault("reply")
     \/ /\ Leave(n, "make")
        /\ ((n \in minio /\ NoFault) \/ Fault("minio"))
        /\ UNCHANGED minio
  /\ UNCHANGED <<row, last, content, public, of>>

(* Slip: the bucket is left behind when the row cannot be inserted. *)
InsertNoRollback(n) ==
  /\ Leave(n, "insert")
  /\ \/ row[n] = 0 /\ row' = [row EXCEPT ![n] = last[n] + 1]
        /\ last' = [last EXCEPT ![n] = @ + 1] /\ NoFault
     \/ UNCHANGED <<row, last>> /\ Fault("db")
  /\ UNCHANGED <<storage, of>>

(* The insert, which the unique name may refuse; then the request ends     *)
(* (whether or not update_policy was published) or rolls back.             *)
InsertRow(n) ==
  /\ \/ /\ row[n] = 0
        /\ row' = [row EXCEPT ![n] = last[n] + 1]
        /\ last' = [last EXCEPT ![n] = @ + 1]
        /\ \/ Leave(n, "insert") /\ NoFault
           \/ Move(n, "insert", "rollback") /\ Fault("db_reply")
     \/ /\ Move(n, "insert", "rollback")
        /\ ((row[n] # 0 /\ NoFault) \/ Fault("db"))
        /\ UNCHANGED <<row, last>>
  /\ UNCHANGED <<storage, of>>

(* RemoveBucket takes an empty bucket only.  Its error is logged. *)
Rollback(n) ==
  /\ Leave(n, "rollback")
  /\ \/ /\ n \in minio /\ content[n] = {}
        /\ minio' = minio \ {n}
        /\ public' = [public EXCEPT ![n] = 0]
        /\ NoFault
     \/ /\ (((n \notin minio \/ content[n] # {}) /\ NoFault) \/ Fault("rollback"))
        /\ UNCHANGED <<minio, public>>
  /\ UNCHANGED <<row, last, content, of>>

----------------------------------------------------------------------------
(* DeleteBucketByID. *)

DeleteBucketByID(n, r) ==
  /\ FindByID(n, r)
  /\ of[n][r]["delete_row"] < MaxDeletes
  /\ EnterOf(n, r, "delete_row")
  /\ UNCHANGED <<row, last, storage, at, faults>>

(* Slip: the message is published first. *)
PublishBeforeDelete(n, r) ==
  /\ of[n][r]["delete_row"] > 0
  /\ \/ at[n]["publish"] = 0 /\ Enter(n, "publish") /\ UNCHANGED <<row, of>>
     \/ /\ LeaveOf(n, r, "delete_row")
        /\ row' = [row EXCEPT ![n] = IF @ = r THEN 0 ELSE @]
        /\ UNCHANGED at
  /\ UNCHANGED <<last, storage, faults>>

(* DELETE ... WHERE id: it is no error that there is no such row (any      *)
(* more).  The rows of the objects go with it, their files do not.         *)
DeleteRow(n, r) ==
  /\ LeaveOf(n, r, "delete_row")
  /\ \/ /\ row' = [row EXCEPT ![n] = IF @ = r THEN 0 ELSE @]
        /\ \/ Enter(n, "publish") /\ NoFault
           \/ UNCHANGED at /\ Fault("db_reply")
     \/ UNCHANGED <<row, at>> /\ Fault("db")
  /\ UNCHANGED <<last, storage>>

(* PublishDeleteBucket; its error is only logged. *)
PublishDeleteBucket(n) ==
  /\ \/ Move(n, "publish", "queued") /\ NoFault
     \/ Leave(n, "publish") /\ (Fault("publish") \/ Fault("lost"))
  /\ UNCHANGED <<row, last, storage, of>>

----------------------------------------------------------------------------
(* handleDeleteBucket, in the order of executeDeleteBucket. *)

DeliverDelete(n) ==
  /\ Move(n, "queued", "remove_objects")
  /\ UNCHANGED <<row, last, storage, of, faults>>

(* RemoveAllObjectsFromBucket skips the errors of the listing: then, and   *)
(* when there is no bucket, it reports success.  An object that cannot be  *)
(* removed is an error, and some others may be gone.                       *)
RemoveAllObjects(n) ==
  /\ \/ /\ Move(n, "remove_objects", "remove_bucket")
        /\ \/ content' = [content EXCEPT ![n] = {}] /\ NoFault
           \/ UNCHANGED content /\ Fault("listing")
     \/ /\ Retry(n, "remove_objects")
        /\ \E kept \in SUBSET content[n] : content' = [content EXCEPT ![n] = kept]
        /\ Fault("minio")
  /\ UNCHANGED <<row, last, minio, public, of>>

(* Slip: a bucket that is not empty any more is dropped from the books. *)
RemoveBucketGivesUp(n) ==
  /\ Move(n, "remove_bucket", "policies")
  /\ IF n \in minio /\ content[n] = {}
     THEN minio' = minio \ {n} /\ public' = [public EXCEPT ![n] = 0]
     ELSE UNCHANGED <<minio, public>>
  /\ UNCHANGED <<row, last, content, of, faults>>

(* DeleteBucket of infra/minio.go: a bucket that is missing or holds a     *)
(* file is an error, and so is an answer that was lost.                    *)
RemoveBucket(n) ==
  /\ \/ /\ n \in minio /\ content[n] = {}
        /\ minio' = minio \ {n}
        /\ public' = [public EXCEPT ![n] = 0]
        /\ \/ Move(n, "remove_bucket", "policies") /\ NoFault
           \/ Retry(n, "remove_bucket") /\ Fault("reply")
     \/ /\ Retry(n, "remove_bucket")
        /\ (((n \notin minio \/ content[n] # {}) /\ NoFault) \/ Fault("minio"))
        /\ UNCHANGED <<minio, public>>
  /\ UNCHANGED <<row, last, content, of>>

(* removeBucketFromPolicies, whose error is logged, and the Ack. *)
AckDelete(n) ==
  /\ Leave(n, "policies")
  /\ UNCHANGED <<row, last, storage, of, faults>>

----------------------------------------------------------------------------
(* Uploads into the bucket, and UpdateBucketAccess. *)

UploadObject(n, r) ==
  /\ FindByID(n, r)
  /\ of[n][r]["store"] < MaxUses
  /\ EnterOf(n, r, "store")
  /\ UNCHANGED <<row, last, storage, at, faults>>

(* The upload-service stores the file under the name of the bucket. *)
StoreFile(n, r) ==
  /\ LeaveOf(n, r, "store")
  /\ \/ n \in minio /\ content' = [content EXCEPT ![n] = @ \cup {r}] /\ NoFault
     \/ UNCHANGED content /\ ((n \notin minio /\ NoFault) \/ Fault("minio"))
  /\ UNCHANGED <<row, last, minio, public, at>>

UpdateBucketAccess(n, r) ==
  /\ FindByID(n, r)
  /\ of[n][r]["exists"] + of[n][r]["set_access"] < MaxUses
  /\ EnterOf(n, r, "exists")
  /\ UNCHANGED <<row, last, storage, at, faults>>

BucketExists(n, r) ==
  /\ \/ n \in minio /\ MoveOf(n, r, "exists", "set_access") /\ NoFault
     \/ LeaveOf(n, r, "exists") /\ ((n \notin minio /\ NoFault) \/ Fault("minio"))
  /\ UNCHANGED <<row, last, storage, at>>

(* public is the row of the request that opened the bucket. *)
SetBucketPolicy(n, r) ==
  /\ LeaveOf(n, r, "set_access")
  /\ \/ /\ n \in minio
        /\ \E access \in {0, r} : public' = [public EXCEPT ![n] = access]
        /\ NoFault
     \/ UNCHANGED public /\ ((n \notin minio /\ NoFault) \/ Fault("minio"))
  /\ UNCHANGED <<row, last, minio, content, at>>

----------------------------------------------------------------------------
(* The environment. *)

(* A replica of the HTTP server is stopped during a request. *)
HttpCrash(n) ==
  /\ Fault("crash")
  /\ \/ (\E p \in HttpPlace : Leave(n, p)) /\ UNCHANGED of
     \/ (\E r \in Rows, p \in RowPlace : LeaveOf(n, r, p)) /\ UNCHANGED at
  /\ UNCHANGED <<row, last, storage>>

(* The consumer stops before its Ack: the broker delivers again. *)
ConsumerCrash(n) ==
  /\ \/ /\ Fault("requeue")
        /\ \E p \in {"remove_objects", "remove_bucket"} : Move(n, p, "queued")
     \/ Fault("redelivery") /\ Move(n, "policies", "queued")
  /\ UNCHANGED <<row, last, storage, of>>

HttpStep(n) ==
  \/ MakeBucket(n) \/ InsertRow(n) \/ Rollback(n) \/ PublishDeleteBucket(n)
  \/ \E r \in Rows :
       DeleteRow(n, r) \/ StoreFile(n, r) \/ BucketExists(n, r) \/ SetBucketPolicy(n, r)

Request(n) ==
  \/ CreateBucket(n)
  \/ \E r \in Rows :
       DeleteBucketByID(n, r) \/ UploadObject(n, r) \/ UpdateBucketAccess(n, r)

ConsumerStep(n) ==
  DeliverDelete(n) \/ RemoveAllObjects(n) \/ RemoveBucket(n) \/ AckDelete(n)

Next ==
  \E n \in Names :
    Request(n) \/ HttpStep(n) \/ ConsumerStep(n) \/ HttpCrash(n) \/ ConsumerCrash(n)

Spec == Init /\ [][Next]_vars

(* Handlers run on and queued messages are delivered and worked on; no     *)
(* request has to come and nothing has to fail.                            *)
Fairness ==
  \A n \in Names :
    /\ WF_vars(MakeBucket(n)) /\ WF_vars(InsertRow(n)) /\ WF_vars(Rollback(n))
    /\ WF_vars(PublishDeleteBucket(n))
    /\ WF_vars(DeliverDelete(n)) /\ WF_vars(RemoveAllObjects(n))
    /\ WF_vars(RemoveBucket(n)) /\ WF_vars(AckDelete(n))
    /\ \A r \in Rows : WF_vars(DeleteRow(n, r)) /\ WF_vars(StoreFile(n, r))

FairSpec == Spec /\ Fairness

----------------------------------------------------------------------------
(* Properties. *)

TypeOK ==
  /\ row \in [Names -> 0 .. MaxRows]
  /\ last \in [Names -> 0 .. MaxRows]
  /\ minio \subseteq Names
  /\ content \in [Names -> SUBSET Rows]
  /\ public \in [Names -> 0 .. MaxRows]
  /\ at \in [Names -> [Place -> Nat]]
  /\ of \in [Names -> [Rows -> [RowPlace -> Nat]]]
  /\ faults \in [FaultKind -> Nat]

(* Every row is deleted by one request at a time, no answer was lost after *)
(* the work was done, and no message was delivered again after the bucket  *)
(* it is about was removed.  The handlers guard against none of the three. *)
Quiet ==
  /\ MaxDeletes <= 1
  /\ \A k \in {"reply", "db_reply", "redelivery"} : faults[k] = 0

(* A bucket that a row lists is there: CreateBucket makes it before the    *)
(* row, and deletes the row before the bucket.  Everything that starts     *)
(* with FindByID and goes on with the name relies on it.                   *)
RowHasBucket == Quiet => \A n \in Names : row[n] # 0 => n \in minio

(* What is stored under a row is not removed while the row is there: as    *)
(* long as it is quiet, the consumer destroys deleted buckets only.        *)
ContentSurvives ==
  [][\A n \in Names :
       (Quiet' /\ row[n] # 0 /\ row'[n] = row[n]) =>
         content[n] \cap {row[n]} \subseteq content'[n]]_vars

(* Quiet or not, the first owner of a name is safe: no message for the     *)
(* name exists before its first row was deleted.                           *)
FirstOwnerIsSafe ==
  [][\A n \in Names :
       (last[n] = 1 /\ row[n] = 1 /\ row'[n] = 1) =>
         content[n] \cap {1} \subseteq content'[n]]_vars

(* Who still answers for the bucket in MinIO: a request that made it, its  *)
(* row, a request that deleted the row, or a message.                      *)
Claims(n) ==
  at[n]["insert"] + at[n]["rollback"] + at[n]["publish"] + at[n]["queued"]
  + at[n]["remove_objects"] + at[n]["remove_bucket"]
  + (IF row[n] # 0 THEN 1 ELSE 0)

(* No bucket is answered for twice: two claims would mean that one of them *)
(* removes, or hands out, the bucket of the other.                         *)
OneClaim == Quiet => \A n \in Names : Claims(n) <= 1

(* "The bucket record is deleted from DB, MinIO cleanup will happen when   *)
(* consumer processes the message": a bucket without a row is some         *)
(* request's or some message's to remove.                                  *)
CleanupWillHappen == \A n \in Names : n \in minio => Claims(n) > 0

(* Failures after which nobody may be left to remove a bucket that was     *)
(* made, or whose row was deleted: an answer that was lost, a rollback     *)
(* that failed, a message that did not get out, a replica that stopped.    *)
Abandons == {"reply", "db_reply", "rollback", "publish", "lost", "crash"}
Abandoned == \E k \in Abandons : faults[k] > 0

(* Nothing else leaves a bucket behind but a statement that failed, and    *)
(* then only a bucket that is not empty: the rollback of a creation does   *)
(* not remove one into which a late upload, of an earlier row of the name, *)
(* was stored in the meantime.                                             *)
NothingOrphaned ==
  \A n \in Names :
    n \in minio =>
      \/ Claims(n) > 0
      \/ Abandoned
      \/ (faults["db"] > 0 /\ content[n] # {})

(* A delete message ends with the bucket gone, or given to a new row: the  *)
(* consumer keeps at it while late uploads still come in and calls fail.   *)
DeletedBucketGoes ==
  \A n \in Names : at[n]["queued"] > 0 ~> n \notin minio \/ row[n] # 0

(* The rows and buckets keep the promise of BucketPromise, each step of    *)
(* them, for as long as it is quiet.                                       *)
Promise == INSTANCE BucketPromise WITH storage <- minio, owner <- row, access <- public

PromiseKept == Promise!Init /\ [][Quiet' => [Promise!Next]_(Promise!vars)]_vars

----------------------------------------------------------------------------
(* The inductive invariant behind the theorems: rows are numbered in the   *)
(* order they come, and before the first of them is deleted nothing that   *)
(* removes a bucket's content is under way.                                *)
RowInv(n) ==
  /\ row[n] \in {0, last[n]}
  /\ last[n] + at[n]["make"] + at[n]["insert"] <= MaxRows
  /\ \A r \in Rows : of[n][r]["delete_row"] > 0 => r <= last[n]

FirstInv(n) ==
  (last[n] <= 1 /\ row[n] = last[n]) =>
    /\ at[n]["publish"] = 0 /\ at[n]["queued"] = 0
    /\ at[n]["remove_objects"] = 0 /\ at[n]["remove_bucket"] = 0
    /\ at[n]["policies"] = 0

IndInv == TypeOK /\ \A n \in Names : RowInv(n) /\ FirstInv(n)

(* While it is quiet, whoever claims a bucket is the only one and the      *)
(* bucket is there.                                                        *)
ClaimInv(n) ==
  /\ Claims(n) <= (IF n \in minio THEN 1 ELSE 0)
  /\ \A r \in Rows :
       /\ of[n][r]["delete_row"] <= 1
       /\ of[n][r]["delete_row"] > 0 => row[n] = r

QuietInv == Quiet => \A n \in Names : ClaimInv(n)

(* Somebody owes the removal of the bucket, or its row is there; a request *)
(* that rolls back is counted apart, because its removal may be refused.   *)
OwingPlace == {"insert", "publish", "queued", "remove_objects", "remove_bucket"}
Owing(n) == row[n] # 0 \/ \E p \in OwingPlace : at[n][p] > 0

KeptInv(n) ==
  n \in minio =>
    \/ Owing(n)
    \/ (faults["db"] > 0 /\ (at[n]["rollback"] > 0 \/ content[n] # {}))

OrphanInv == Abandoned \/ \A n \in Names : KeptInv(n)

=============================================================================
