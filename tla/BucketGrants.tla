---------------------------- MODULE BucketGrants ----------------------------
(***************************************************************************)
(* Which buckets an IAM user may use: the list of buckets in its policy,   *)
(* kept twice, in Postgres (iam_policies) and in MinIO, and changed by     *)
(* messages on three queues: a bucket was created (bucket.update_policy),  *)
(* a bucket was deleted (bucket.delete), the credentials of an IAM user    *)
(* changed (iam.update_policy).  consumer/worker/bucket.go and policy.go.  *)
(*                                                                         *)
(* A message names a user; the consumer lists the IAM users that the user  *)
(* has and, one after the other, reads the policy row, changes the list,   *)
(* puts it into MinIO, attaches it and writes the row back.  Each of these *)
(* is an action.  Every queue has a goroutine in every consumer, so        *)
(* messages overlap, and messages of two queues have no order.             *)
(*                                                                         *)
(* A policy is the set of buckets whose two ARNs stand in its statements;  *)
(* the actions it allows and the resources it starts with are left out.    *)
(* No access key is used by two IAM users here: a key is an element of     *)
(* Keys together with its IAM user.                                        *)
(* CreateBucket, DeleteBucketByID, CreateIAM, DeleteIAMByID and            *)
(* UpdateIAMCredentials are one step each: BucketLifecycle and             *)
(* IAMCredentials take them apart.                                         *)
(***************************************************************************)
EXTENDS Integers, FiniteSets

CONSTANTS
  Users,    \* owners of buckets and of IAM users
  Ids,      \* uuids of IAM users
  UserOf,   \* the user that an IAM user belongs to
  Keys,     \* the access keys that one IAM user may have
  Buckets,  \* names of buckets
  None,     \* no user, id, key, bucket or policy
  Jobs,     \* bound: messages at a time
  MaxRequests, \* bound: requests in a behaviour
  MaxFaults \* bound: failures in a behaviour, each of another kind

ASSUME UserOfAssumption == UserOf \in [Ids -> Users]
ASSUME NoneAssumption ==
  /\ None \notin Users \cup Ids \cup Keys \cup Buckets
  /\ \A doc \in SUBSET Buckets : doc # None
ASSUME BoundsAssumption == MaxRequests \in Nat /\ MaxFaults \in Nat

(* What may fail: the publication of a message; the listing of the IAM     *)
(* users; a statement or a call to MinIO for one of them, without effect   *)
(* ("step") or with its answer lost ("reply"); the consumer, before it     *)
(* acknowledges.                                                           *)
FaultKind == {"publish", "list", "step", "reply", "crash"}

(* How messages may cross: two are at work for one user, or a deletion is  *)
(* worked on while the message of the bucket's creation still waits.       *)
CrossKind == {"overlap", "order"}

MessageKind == {"grant", "revoke", "rename"}
WorkPlace == {"list", "each", "add", "attach", "save"}
Place == {"idle", "queued"} \cup WorkPlace

VARIABLES
  owner,    \* table buckets: the user whose bucket it is
  minio,    \* MinIO: the buckets
  key,      \* table iam_users, and MinIO's users: the key of an IAM user
  row,      \* table iam_policies: the buckets listed
  policy,   \* MinIO: the buckets that policy "<key>-s3-policy" lists
  attached, \* MinIO: the IAM users whose policy is attached to their key
  job,      \* the messages
  ever,     \* history: the buckets that a user had at some time
  due,      \* history: the buckets created for an IAM user since it exists
  requests, \* history: the requests there have been
  crossed,  \* history: how messages have crossed
  faults    \* history: the failures there have been

vars == <<owner, minio, key, row, policy, attached, job, ever, due,
          requests, crossed, faults>>

buckets == <<owner, minio, ever, due>>
done == <<requests, crossed>>
policies == <<policy, attached>>

NoList == [i \in Ids |-> None]
NoJob == [kind |-> "grant", place |-> "idle", user |-> None, bucket |-> None,
          list |-> NoList, id |-> None, key |-> None, doc |-> {}]

Init ==
  /\ owner = [b \in Buckets |-> None]
  /\ minio = {}
  /\ key = [i \in Ids |-> None]
  /\ row = [i \in Ids |-> {}]
  /\ policy = [i \in Ids |-> [k \in Keys |-> None]]
  /\ attached = {}
  /\ job = [j \in Jobs |-> NoJob]
  /\ ever = [u \in Users |-> {}]
  /\ due = [i \in Ids |-> {}]
  /\ requests = 0
  /\ crossed = {}
  /\ faults = {}

----------------------------------------------------------------------------
(* Helpers. *)

NoFault == UNCHANGED faults
Fault(k) ==
  /\ k \notin faults /\ Cardinality(faults) < MaxFaults
  /\ faults' = faults \cup {k}

At(j, p) == job[j].place = p
Is(j, k) == job[j].kind = k
Go(j, p) ==
  job' = [job EXCEPT ![j] = IF p = "idle" THEN NoJob ELSE [@ EXCEPT !.place = p]]

(* Slips of the next two. *)
ListEverybody(u) == key
DropTheRest(j, doc) ==
  IF Is(j, "grant") THEN {job[j].bucket} ELSE doc \ {job[j].bucket}

(* GetByUserID, with the keys that the IAM users have at the moment. *)
IamUsers(u) == [i \in Ids |-> IF UserOf[i] = u THEN key[i] ELSE None]

(* The key that the message in hand goes by: the one that was listed.      *)
KeyInHand(j) == job[j].list[job[j].id]

(* A message at work on its list, with one IAM user in hand or with none.  *)
Work(j, p, list, id, doc) ==
  job' = [job EXCEPT ![j] = [kind |-> job[j].kind, user |-> job[j].user,
                             bucket |-> job[j].bucket, key |-> job[j].key,
                             place |-> p, list |-> list, id |-> id, doc |-> doc]]

(* The loop goes on with the next IAM user, after a success or an error.   *)
Skip(j, i) == Work(j, "each", [job[j].list EXCEPT ![i] = None], None, {})
NextId(j) == Skip(j, job[j].id)

(* The list of buckets as the message wants it. *)
Changed(j, doc) ==
  IF Is(j, "grant") THEN doc \cup {job[j].bucket} ELSE doc \ {job[j].bucket}

(* A message at work for the user, or a renaming on its way: it carries    *)
(* the policy as it was when the request came.                             *)
Working(j) == job[j].place \in WorkPlace \/ (Is(j, "rename") /\ At(j, "queued"))
Busy(u) == \E h \in Jobs : job[h].user = u /\ Working(h)
GrantWaits(u, b) ==
  \E h \in Jobs : Is(h, "grant") /\ At(h, "queued") /\ job[h].user = u /\ job[h].bucket = b
Cross(overlap, order) ==
  crossed' = crossed \cup {k \in CrossKind : (k = "overlap" /\ overlap) \/ (k = "order" /\ order)}

(* A message is published; when that fails the request succeeds all the same. *)
Publish(j, kind, u, b) ==
  \/ /\ job' = [job EXCEPT ![j] = [NoJob EXCEPT !.kind = kind, !.place = "queued",
                                   !.user = u, !.bucket = b]]
     /\ NoFault
  \/ UNCHANGED job /\ Fault("publish")

----------------------------------------------------------------------------
(* Slips of the steps below. *)

SnapshotAnew(i) == {}

GrantListedOnce(j) ==
  /\ At(j, "queued") /\ Is(j, "grant") /\ UNCHANGED crossed
  /\ \/ /\ Work(j, "each", IamUsers(job[j].user), None, {})
        /\ NoFault
     \/ Go(j, "idle") /\ Fault("list")
  /\ UNCHANGED <<buckets, key, row, policies, requests>>

RevokeReturnsEarly(j, i) ==
  /\ At(j, "each") /\ job[j].list[i] # None /\ NoFault
  /\ IF key[i] # None /\ (Is(j, "revoke") => job[j].bucket \in row[i])
     THEN Work(j, "add", job[j].list, i, Changed(j, row[i]))
     ELSE Work(j, "each", NoList, None, {})
  /\ UNCHANGED <<buckets, key, row, policies, done>>

----------------------------------------------------------------------------
(* The requests that matter to the policies. *)

Ask == requests < MaxRequests /\ requests' = requests + 1

(* The name is free, the bucket is made, the row inserted; then the        *)
(* message is published.                                                   *)
CreateBucket(j, u, b) ==
  /\ At(j, "idle") /\ owner[b] = None /\ b \notin minio
  /\ owner' = [owner EXCEPT ![b] = u]
  /\ minio' = minio \cup {b}
  /\ ever' = [ever EXCEPT ![u] = @ \cup {b}]
  /\ due' = [i \in Ids |-> IF UserOf[i] = u /\ key[i] # None THEN due[i] \cup {b} ELSE due[i]]
  /\ Publish(j, "grant", u, b)
  /\ Ask /\ UNCHANGED <<key, row, policies, crossed>>

DeleteBucketByID(j, u, b) ==
  /\ At(j, "idle") /\ owner[b] = u
  /\ owner' = [owner EXCEPT ![b] = None]
  /\ due' = [i \in Ids |-> due[i] \ {b}]
  /\ Publish(j, "revoke", u, b)
  /\ Ask /\ UNCHANGED <<minio, ever, key, row, policies, crossed>>

(* A fresh uuid, which no message knows.  The policy of a new IAM user     *)
(* lists no bucket (BuildPolicyJSON), also when its user has some.         *)
CreateIAM(i, k) ==
  /\ key[i] = None
  /\ \A j \in Jobs : job[j].id # i /\ job[j].list[i] = None
  /\ key' = [key EXCEPT ![i] = k]
  /\ row' = [row EXCEPT ![i] = {}]
  /\ policy' = [policy EXCEPT ![i][k] = {}]
  /\ attached' = attached \cup {i}
  /\ Ask /\ UNCHANGED <<buckets, job, crossed, faults>>

(* The policy row goes with the user's (ON DELETE CASCADE), the policy in  *)
(* MinIO stays.  What a deletion does to a renaming under way is           *)
(* IAMCredentials's.                                                       *)
Renaming(i) == \E h \in Jobs : Is(h, "rename") /\ job[h].id = i
DeleteIAMByID(i) ==
  /\ key[i] # None /\ ~Renaming(i)
  /\ key' = [key EXCEPT ![i] = None]
  /\ row' = [row EXCEPT ![i] = {}]
  /\ attached' = attached \ {i}
  /\ due' = [due EXCEPT ![i] = {}]
  /\ Ask /\ UNCHANGED <<owner, minio, ever, policy, job, crossed, faults>>

(* The message of UpdateIAMCredentials, with the policy that it read. *)
Snapshot(i) == row[i]
RenameMessage(i, k) ==
  [kind |-> "rename", place |-> "queued", user |-> UserOf[i], bucket |-> None,
   list |-> [NoList EXCEPT ![i] = key[i]], id |-> i, key |-> k, doc |-> Snapshot(i)]

(* The user in MinIO is replaced by one without a policy, the row gets the *)
(* new key, and the message takes the policy along that was read at first. *)
UpdateIAMCredentials(j, i, k) ==
  /\ At(j, "idle") /\ key[i] # None /\ ~Renaming(i)
  /\ Cross(Busy(UserOf[i]), FALSE)
  /\ key' = [key EXCEPT ![i] = k]
  /\ attached' = attached \ {i}
  /\ \/ job' = [job EXCEPT ![j] = RenameMessage(i, k)] /\ NoFault
     \/ UNCHANGED job /\ Fault("publish")
  /\ Ask /\ UNCHANGED <<buckets, row, policy>>

----------------------------------------------------------------------------
(* The consumer. *)

(* handleUpdatePolicy of worker/policy.go, done to its end. *)
RenamePolicy(j) ==
  LET i == job[j].id IN
    /\ At(j, "queued") /\ Is(j, "rename")
    /\ policy' = [policy EXCEPT ![i] =
                    [k \in Keys |-> IF k = job[j].key THEN job[j].doc
                                    ELSE IF k = KeyInHand(j) THEN None ELSE policy[i][k]]]
    /\ attached' = attached \cup {i}
    /\ Go(j, "idle")
    /\ UNCHANGED <<buckets, key, row, done, faults>>

(* An attempt begins, and may cross others. *)
Deliver(j, kind) ==
  LET u == job[j].user IN
    /\ At(j, "queued") /\ Is(j, kind)
    /\ Cross(Busy(u), Is(j, "revoke") /\ GrantWaits(u, job[j].bucket))

(* executeUpdatePolicy: the IAM users of the user.  An error is one of the *)
(* whole message, which is repeated.                                       *)
ListForGrant(j) ==
  /\ Deliver(j, "grant")
  /\ \/ /\ Work(j, "each", IamUsers(job[j].user), None, {})
        /\ NoFault
     \/ UNCHANGED job /\ Fault("list")
  /\ UNCHANGED <<buckets, key, row, policies, requests>>

(* executeDeleteBucket, steps 1 and 2: an error if the bucket is not there *)
(* (any more), and the message is never done with.                         *)
RemoveBucket(j) ==
  /\ Deliver(j, "revoke")
  /\ minio' = minio \ {job[j].bucket}
  /\ Go(j, IF job[j].bucket \in minio THEN "list" ELSE "queued")
  /\ UNCHANGED <<owner, ever, due, key, row, policies, requests, faults>>

(* removeBucketFromPolicies, whose error is only logged. *)
ListForRevoke(j) ==
  /\ At(j, "list")
  /\ \/ /\ Work(j, "each", IamUsers(job[j].user), None, {})
        /\ NoFault
     \/ Go(j, "idle") /\ Fault("list")
  /\ UNCHANGED <<buckets, key, row, policies, done>>

(* updateIAMUserPolicy and removeIAMUserBucket read the row.  There may be *)
(* none by now; a deletion is done with an IAM user that does not list the *)
(* bucket, a creation goes on all the same.  Then the policy is removed    *)
(* from MinIO, which may refuse that while it is in use: only a warning.   *)
ReadPolicy(j, i) ==
  /\ At(j, "each") /\ job[j].list[i] # None
  /\ \/ /\ key[i] # None
        /\ Is(j, "revoke") => job[j].bucket \in row[i]
        /\ Work(j, "add", job[j].list, i, Changed(j, row[i]))
        /\ \/ policy' = [policy EXCEPT ![i][job[j].list[i]] = None]
           \/ UNCHANGED policy
        /\ NoFault
     \/ /\ Skip(j, i)
        /\ \/ key[i] = None /\ NoFault
           \/ Is(j, "revoke") /\ job[j].bucket \notin row[i] /\ NoFault
           \/ Fault("step")
        /\ UNCHANGED policy
  /\ UNCHANGED <<buckets, key, row, attached, done>>

AddPolicy(j) ==
  /\ At(j, "add")
  /\ \/ /\ policy' = [policy EXCEPT ![job[j].id][KeyInHand(j)] = job[j].doc]
        /\ (Go(j, "attach") /\ NoFault) \/ (NextId(j) /\ Fault("reply"))
     \/ UNCHANGED policy /\ NextId(j) /\ Fault("step")
  /\ UNCHANGED <<buckets, key, row, attached, done>>

(* SetPolicy knows neither a user whose key is another by now nor a policy *)
(* that somebody has just removed.                                         *)
AttachPolicy(j) ==
  LET i == job[j].id
      fits == key[i] = KeyInHand(j) /\ policy[i][KeyInHand(j)] # None
  IN  /\ At(j, "attach")
      /\ \/ /\ fits
            /\ attached' = attached \cup {i}
            /\ (Go(j, "save") /\ NoFault) \/ (NextId(j) /\ Fault("reply"))
         \/ /\ UNCHANGED attached /\ NextId(j)
            /\ (~fits /\ NoFault) \/ Fault("step")
      /\ UNCHANGED <<buckets, key, row, policy, done>>

(* Save; without its user the row is not inserted again (foreign key).     *)
SavePolicy(j) ==
  LET i == job[j].id IN
    /\ At(j, "save") /\ NextId(j)
    /\ \/ /\ key[i] # None
          /\ row' = [row EXCEPT ![i] = job[j].doc]
          /\ NoFault
       \/ UNCHANGED row /\ ((key[i] = None /\ NoFault) \/ Fault("step"))
    /\ UNCHANGED <<buckets, key, policies, done>>

Ack(j) ==
  /\ At(j, "each") /\ job[j].list = NoList
  /\ Go(j, "idle")
  /\ UNCHANGED <<buckets, key, row, policies, done, faults>>

(* The consumer stops before its Ack: the broker delivers again. *)
ConsumerCrash(j) ==
  /\ job[j].place \in WorkPlace
  /\ job' = [job EXCEPT ![j] = [NoJob EXCEPT !.kind = job[j].kind, !.place = "queued",
                                !.user = job[j].user, !.bucket = job[j].bucket]]
  /\ Fault("crash")
  /\ UNCHANGED <<buckets, key, row, policies, done>>

----------------------------------------------------------------------------
(* The system. *)

Request ==
  \/ \E j \in Jobs, u \in Users, b \in Buckets :
       CreateBucket(j, u, b) \/ DeleteBucketByID(j, u, b)
  \/ \E i \in Ids : DeleteIAMByID(i)
  \/ \E i \in Ids, k \in Keys :
       CreateIAM(i, k) \/ \E j \in Jobs : UpdateIAMCredentials(j, i, k)

ConsumerStep(j) ==
  \/ RenamePolicy(j) \/ ListForGrant(j) \/ RemoveBucket(j) \/ ListForRevoke(j)
  \/ \E i \in Ids : ReadPolicy(j, i)
  \/ AddPolicy(j) \/ AttachPolicy(j) \/ SavePolicy(j) \/ Ack(j)

Next == Request \/ \E j \in Jobs : ConsumerStep(j) \/ ConsumerCrash(j)

Spec == Init /\ [][Next]_vars

----------------------------------------------------------------------------
(* Properties. *)

JobRecord == [kind : MessageKind, place : Place, user : Users \cup {None},
              bucket : Buckets \cup {None}, list : [Ids -> Keys \cup {None}],
              id : Ids \cup {None}, key : Keys \cup {None}, doc : SUBSET Buckets]

TypeOK ==
  /\ owner \in [Buckets -> Users \cup {None}]
  /\ minio \subseteq Buckets
  /\ key \in [Ids -> Keys \cup {None}]
  /\ row \in [Ids -> SUBSET Buckets]
  /\ policy \in [Ids -> [Keys -> (SUBSET Buckets) \cup {None}]]
  /\ attached \subseteq Ids
  /\ job \in [Jobs -> JobRecord]
  /\ ever \in [Users -> SUBSET Buckets]
  /\ due \in [Ids -> SUBSET Buckets]
  /\ requests \in Nat
  /\ crossed \subseteq CrossKind
  /\ faults \subseteq FaultKind

Owned(u) == {b \in Buckets : owner[b] = u}

(* What an IAM user may use, as MinIO sees it. *)
Granted(i) ==
  IF i \in attached /\ policy[i][key[i]] # None THEN policy[i][key[i]] ELSE {}

(* No message is on its way or at work for the user. *)
Settled(u) == \A j \in Jobs : job[j].user # u

Without(crossings, failures) ==
  crossed \cap crossings = {} /\ faults \cap failures = {}

(* Nobody is ever listed for a bucket that was not its user's at some      *)
(* time: names of buckets are taken from messages that may come late,      *)
(* twice and in any order, and lists are carried from one place to another.*)
GrantsWereOwned ==
  \A i \in Ids :
    /\ row[i] \subseteq ever[UserOf[i]]
    /\ key[i] # None => Granted(i) \subseteq ever[UserOf[i]]

(* A bucket that was deleted is in no list when its message is done with:  *)
(* its name is free for another user, whose bucket the list would open.    *)
NoGrantOutlivesBucket ==
  Without(CrossKind, {"publish", "list", "step", "reply"}) =>
    \A i \in Ids :
      (key[i] # None /\ Settled(UserOf[i])) =>
        row[i] \cup Granted(i) \subseteq Owned(UserOf[i])

(* A bucket that was created is open to the IAM users that its user had.   *)
OwnerIsGranted ==
  Without({"overlap"}, {"publish", "step", "reply", "crash"}) =>
    \A i \in Ids :
      (key[i] # None /\ Settled(UserOf[i])) => due[i] \subseteq row[i] \cap Granted(i)

(* Whatever failed so far is made good: not a publication, nor a call for  *)
(* one IAM user, whose error is only logged.  A consumer that stops        *)
(* between the two stores is made good when its message comes again,       *)
(* unless the IAM users cannot be listed then, which ends the message.     *)
Recoverable ==
  Without({"overlap"}, {"publish", "step", "reply"}) /\ ~ {"crash", "list"} \subseteq faults

(* Postgres and MinIO list the same buckets when nothing is on its way,    *)
(* whatever order messages come in and however often.                      *)
StoresAgree ==
  Recoverable =>
    \A i \in Ids : (key[i] # None /\ Settled(UserOf[i])) => Granted(i) = row[i]

(* The write that ends a read and a change touches the message's bucket    *)
(* and no other, unless two messages are at work for one user.             *)
OtherBucketsKept ==
  [][\A i \in Ids :
       ("overlap" \notin crossed /\ row'[i] # row[i] /\ key[i] # None /\ key'[i] # None) =>
         \E j \in Jobs :
           At(j, "save") /\ row'[i] \ {job[j].bucket} = row[i] \ {job[j].bucket}]_vars

----------------------------------------------------------------------------
(* The inductive invariants behind the theorems.                           *)

(* What a message carries was its user's; the IAM users it lists and has   *)
(* in hand are its user's, and it is with one when it writes.              *)
JobInv(j) ==
  ~At(j, "idle") =>
    LET u == job[j].user IN
      /\ u \in Users
      /\ ~Is(j, "rename") => job[j].bucket \in ever[u]
      /\ job[j].doc \subseteq ever[u]
      /\ \A i \in Ids : job[j].list[i] # None => UserOf[i] = u
      /\ (Is(j, "rename") \/ job[j].place \in {"add", "attach", "save"}) =>
           /\ job[j].id \in Ids /\ UserOf[job[j].id] = u
           /\ KeyInHand(j) # None
      /\ Is(j, "rename") => At(j, "queued") /\ job[j].key # None

GrantInv ==
  /\ TypeOK
  /\ \A b \in Buckets : owner[b] # None => b \in ever[owner[b]]
  /\ \A i \in Ids :
       /\ row[i] \subseteq ever[UserOf[i]]
       /\ \A k \in Keys : policy[i][k] # None => policy[i][k] \subseteq ever[UserOf[i]]
  /\ \A j \in Jobs : JobInv(j)

(* Messages that never overlapped work for different users, so the list a  *)
(* message holds is the row's but for its own bucket.                      *)
Writing(j) == job[j].place \in {"add", "attach", "save"}
ApartInv ==
  /\ \A j, h \in Jobs :
       (j # h /\ Working(j) /\ Working(h)) => job[j].user # job[h].user
  /\ \A j \in Jobs :
       (Writing(j) /\ key[job[j].id] # None) => job[j].doc = Changed(j, row[job[j].id])

IndInv == GrantInv /\ ("overlap" \notin crossed => ApartInv)

(* A message has not come to the IAM user yet, or has it in hand. *)
Pending(j, i) ==
  \/ job[j].place \in {"queued", "list"}
  \/ (At(j, "each") \/ Writing(j)) /\ job[j].list[i] # None
Reaches(j, kind, i, b) ==
  Is(j, kind) /\ job[j].user = UserOf[i] /\ job[j].bucket = b /\ Pending(j, i)

(* Where the stores differ a message is to make them agree: a rename that  *)
(* waits, the message that has the IAM user in hand, or one that a         *)
(* consumer gave up, which comes to the IAM user again.  A deletion comes  *)
(* only to who still lists its bucket.                                     *)
Agrees(i) == i \in attached /\ policy[i][key[i]] = row[i]
Mends(j, i) ==
  /\ job[j].user = UserOf[i]
  /\ Is(j, "revoke") => job[j].bucket \in row[i]
  /\ \/ Is(j, "rename") /\ At(j, "queued") /\ job[j].id = i
     \/ Writing(j) /\ job[j].id = i
     \/ "crash" \in faults /\ ~Is(j, "rename") /\ Pending(j, i)

(* What a message knows of an IAM user is so still, a deletion found its   *)
(* bucket listed, and what the message wrote is there.                     *)
Current(j) ==
  LET i == job[j].id IN
    /\ \A h \in Ids :
         ((At(j, "each") \/ Writing(j)) /\ job[j].list[h] # None /\ key[h] # None) =>
           job[j].list[h] = key[h]
    /\ (Writing(j) /\ Is(j, "revoke") /\ key[i] # None) => job[j].bucket \in row[i]
    /\ (job[j].place \in {"attach", "save"} /\ key[i] # None) => policy[i][key[i]] = job[j].doc
    /\ (At(j, "save") /\ key[i] # None) => i \in attached
    /\ (Is(j, "rename") /\ At(j, "queued")) => key[i] = job[j].key /\ row[i] = job[j].doc

AgreeInv ==
  Recoverable =>
    /\ \A j \in Jobs : Current(j)
    /\ \A i \in Ids : key[i] # None => Agrees(i) \/ \E j \in Jobs : Mends(j, i)

(* A list has a bucket that is the user's or that a deletion is to take    *)
(* out; MinIO lists what Postgres lists and what a creation is to add; no  *)
(* creation is left when the deletion of its bucket begins.                *)
OutliveInv ==
  Without(CrossKind, {"publish", "list", "step", "reply"}) =>
    /\ \A i \in Ids, b \in Buckets :
         (key[i] # None /\ b \in row[i]) =>
           owner[b] = UserOf[i] \/ \E j \in Jobs : Reaches(j, "revoke", i, b)
    /\ \A i \in Ids, b \in Buckets :
         (key[i] # None /\ b \in Granted(i)) =>
           b \in row[i] \/ \E j \in Jobs : Reaches(j, "grant", i, b)
    /\ \A j \in Jobs : (Is(j, "grant") /\ ~At(j, "idle")) =>
         \/ owner[job[j].bucket] = job[j].user
         \/ \E h \in Jobs : /\ Is(h, "revoke") /\ At(h, "queued")
                           /\ job[h].user = job[j].user /\ job[h].bucket = job[j].bucket

(* A bucket that is somebody's is there.  A deletion that waits is the     *)
(* only one of a bucket that is nobody's and still there.  A bucket that   *)
(* is due is listed and no deletion is to take it out, or a creation is to *)
(* add it (again).                                                         *)
DueInv ==
  Without({"overlap"}, {"publish", "step", "reply", "crash"}) =>
    /\ \A b \in Buckets : owner[b] # None => b \in minio
    /\ \A j \in Jobs : At(j, "list") => Is(j, "revoke")
    /\ \A j \in Jobs : (Is(j, "revoke") /\ At(j, "queued")) =>
         /\ owner[job[j].bucket] = None /\ job[j].bucket \in minio
         /\ \A h \in Jobs : (Is(h, "revoke") /\ At(h, "queued") /\ job[h].bucket = job[j].bucket) =>
              h = j
    /\ \A i \in Ids : key[i] = None => due[i] = {}
    /\ \A i \in Ids : \A b \in due[i] :
         /\ owner[b] = UserOf[i]
         /\ \/ b \in row[i] /\ \A j \in Jobs : ~Reaches(j, "revoke", i, b)
            \/ \E j \in Jobs : Reaches(j, "grant", i, b)

=============================================================================
