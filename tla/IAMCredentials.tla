-------------------------- MODULE IAMCredentials --------------------------
(***************************************************************************)
(* IAM users: their rows in Postgres (iam_users, iam_policies) and their   *)
(* users, policies and attachments in MinIO; the handlers CreateIAM,       *)
(* DeleteIAMByID and UpdateIAMCredentials (http/controller/iam.go), and    *)
(* the message that renames the policy after a change of credentials       *)
(* (consumer/worker/policy.go).                                            *)
(*                                                                         *)
(* Nothing spans the stores: each statement, call to MinIO, publication    *)
(* and acknowledgement is an action, and an undo is a call like any other. *)
(* A job is a request at the place it has reached, with the variables of   *)
(* its handler; the message that UpdateIAMCredentials publishes is the     *)
(* same job further on.                                                    *)
(*                                                                         *)
(* The policy "<key>-s3-policy" is policy[key]; what it says (the buckets) *)
(* is not modelled here, only whose it is.                                 *)
(***************************************************************************)
EXTENDS Integers, FiniteSets

CONSTANTS
  Ids,        \* the uuids that CreateIAM may draw
  Keys,       \* access keys
  Secrets,    \* secret keys
  None,       \* no id, key or secret
  Jobs,       \* bound: requests and messages at a time
  MayOverlap, \* whether two of them may work on one id or one key
  MaxFaults,  \* bound: failures in a behaviour, each of another kind
  MissingFails  \* whether MinIO refuses to remove a missing "user", "policy"

Credentials == [key : Keys, secret : Secrets]
NoCredentials == [key |-> None, secret |-> None]

ASSUME NoneAssumption == None \notin Ids \cup Keys \cup Secrets
ASSUME BoundsAssumption == MayOverlap \in BOOLEAN /\ MaxFaults \in Nat
ASSUME MissingFailsAssumption == MissingFails \subseteq {"user", "policy"}

(* What may fail: a call to MinIO in CreateIAM; the inserts of CreateIAM   *)
(* and the delete; the removal of the user in DeleteIAMByID; a call to     *)
(* MinIO in UpdateIAMCredentials; its UPDATE; the publication, reported or *)
(* not; an undo; a call whose effect stays and whose answer is lost; the   *)
(* HTTP replica; a step of the consumer; the consumer before its Ack.      *)
FaultKind == {"create", "insert", "remove", "update", "save", "publish",
              "undo", "reply", "crash", "consumer", "redelivery"}

CreatePlace == {"create_policy", "create_user", "attach", "insert_user",
                "insert_policy", "undo_row", "undo_user", "undo_policy"}
DeletePlace == {"delete_row", "remove_user"}
UpdatePlace == {"remove_old", "create_new", "restore_old", "save",
                "undo_new", "undo_old", "publish"}
ConsumerPlace == {"delete_policy", "add_policy", "find_user", "attach_new",
                  "undo_delete", "undo_add", "undo_attach", "ack"}
HttpPlace == CreatePlace \cup DeletePlace \cup UpdatePlace
Place == {"idle", "queued"} \cup HttpPlace \cup ConsumerPlace

VARIABLES
  row,        \* table iam_users: the credentials of an id
  policyRow,  \* table iam_policies: the ids that have a row
  user,       \* MinIO: the secret of a user, by access key
  policy,     \* MinIO: the id whose policy "<key>-s3-policy" holds
  attached,   \* MinIO: the policy attached to a user, as its key
  job,        \* the requests and messages
  drawn,      \* history: the ids that were drawn
  faults      \* history: the failures there have been

vars == <<row, policyRow, user, policy, attached, job, drawn, faults>>

db == <<row, policyRow>>
minio == <<user, policy, attached>>

NoJob == [place |-> "idle", id |-> None, old |-> NoCredentials,
          new |-> NoCredentials, target |-> None]

Init ==
  /\ row = [i \in Ids |-> NoCredentials]
  /\ policyRow = {}
  /\ user = [k \in Keys |-> None]
  /\ policy = [k \in Keys |-> None]
  /\ attached = [k \in Keys |-> None]
  /\ job = [j \in Jobs |-> NoJob]
  /\ drawn = {}
  /\ faults = {}

----------------------------------------------------------------------------
(* Helpers. *)

NoFault == UNCHANGED faults
Fault(k) ==
  /\ k \notin faults /\ Cardinality(faults) < MaxFaults
  /\ faults' = faults \cup {k}

At(j, p) == job[j].place = p
Go(j, p) ==
  job' = [job EXCEPT ![j] = IF p = "idle" THEN NoJob ELSE [@ EXCEPT !.place = p]]

HasRow(i) == row[i] # NoCredentials

(* ExistsByAccessKey, and the unique index behind it. *)
KeyTaken(k) == \E i \in Ids : row[i].key = k
KeyTakenByOther(i, k) == \E h \in Ids \ {i} : row[h].key = k

(* The calls to MinIO.  A new secret keeps the attachment of a user; the   *)
(* removal of a user takes it away; nothing is attached to a missing user. *)
AddUser(c) ==
  user' = [user EXCEPT ![c.key] = c.secret] /\ UNCHANGED <<policy, attached>>
RemoveUser(k) ==
  /\ user' = [user EXCEPT ![k] = None]
  /\ attached' = [attached EXCEPT ![k] = None]
  /\ UNCHANGED policy
AddCannedPolicy(k, i) ==
  policy' = [policy EXCEPT ![k] = i] /\ UNCHANGED <<user, attached>>
RemoveCannedPolicy(k) ==
  policy' = [policy EXCEPT ![k] = None] /\ UNCHANGED <<user, attached>>
SetPolicy(k, p) ==
  /\ user[k] # None /\ policy[p] # None
  /\ attached' = [attached EXCEPT ![k] = p]
  /\ UNCHANGED <<user, policy>>

(* A call with its two ways on; kind is the failure that leaves no trace.  *)
Call(j, effect, kind, next, failed) ==
  \/ effect /\ Go(j, next) /\ NoFault
  \/ effect /\ Go(j, failed) /\ Fault("reply")
  \/ UNCHANGED minio /\ Go(j, failed) /\ Fault(kind)

(* The removal of what is missing. *)
RemoveMissing(j, what, next, failed) ==
  UNCHANGED minio /\ NoFault /\ Go(j, IF what \in MissingFails THEN failed ELSE next)

(* An undo, whose error nobody looks at. *)
Undo(j, effect, next) ==
  /\ Go(j, next)
  /\ \/ effect /\ NoFault
     \/ UNCHANGED minio /\ Fault("undo")

(* A request begins.  Jobs that share an id or a key disturb each other,   *)
(* and no lock or transaction keeps them apart.                            *)
KeysOf(j) == {job[j].old.key, job[j].new.key}
Apart(j, i, keys) ==
  \A h \in Jobs \ {j} :
    ~At(h, "idle") => job[h].id # i /\ KeysOf(h) \cap keys = {}
Begin(j, p, i, old, new) ==
  /\ At(j, "idle")
  /\ MayOverlap \/ Apart(j, i, {old.key, new.key})
  /\ job' = [job EXCEPT ![j] = [place |-> p, id |-> i, old |-> old, new |-> new,
                                target |-> None]]

----------------------------------------------------------------------------
(* Slips of the steps below. *)

InsertNoUndo(j) ==
  /\ At(j, "insert_user")
  /\ \/ /\ ~KeyTaken(job[j].new.key)
        /\ row' = [row EXCEPT ![job[j].id] = job[j].new]
        /\ Go(j, "insert_policy") /\ NoFault
     \/ UNCHANGED row /\ Go(j, "idle") /\ Fault("insert")
  /\ UNCHANGED <<policyRow, minio, drawn>>

RestoreWithNew(j) ==
  /\ At(j, "restore_old")
  /\ Undo(j, AddUser(job[j].new), "idle")
  /\ UNCHANGED <<db, drawn>>

AttachErrorIgnored(j) ==
  /\ At(j, "attach_new")
  /\ Call(j, SetPolicy(job[j].target, job[j].new.key), "consumer", "ack", "ack")
  /\ UNCHANGED <<db, drawn>>

DeleteOrGiveUp(j) ==
  /\ At(j, "delete_policy")
  /\ LET k == job[j].old.key IN
       IF policy[k] # None
       THEN Call(j, RemoveCannedPolicy(k), "consumer", "add_policy", "idle")
       ELSE RemoveMissing(j, "policy", "add_policy", "idle")
  /\ UNCHANGED <<db, drawn>>

CreateUnchecked(j, i, c) ==
  /\ i \notin drawn
  /\ Begin(j, "create_policy", i, c, c)
  /\ drawn' = drawn \cup {i}
  /\ UNCHANGED <<db, minio, faults>>

UpdateUnchecked(j, i, c) ==
  /\ HasRow(i) /\ i \in policyRow
  /\ Begin(j, "remove_old", i, row[i], c)
  /\ UNCHANGED <<db, minio, drawn, faults>>

----------------------------------------------------------------------------
(* CreateIAM. *)

(* The checks; the id is fresh.  That the name is free as well is left out *)
(* (it only refuses requests).                                             *)
CreateIAM(j, i, c) ==
  /\ i \notin drawn
  /\ ~KeyTaken(c.key)
  /\ Begin(j, "create_policy", i, c, c)
  /\ drawn' = drawn \cup {i}
  /\ UNCHANGED <<db, minio, faults>>

(* CreateIAMUserWithCustomPolicy and its rollbacks. *)
CreatePolicy(j) ==
  /\ At(j, "create_policy")
  /\ Call(j, AddCannedPolicy(job[j].new.key, job[j].id), "create",
          "create_user", "idle")
  /\ UNCHANGED <<db, drawn>>

CreateUser(j) ==
  /\ At(j, "create_user")
  /\ Call(j, AddUser(job[j].new), "create", "attach", "undo_policy")
  /\ UNCHANGED <<db, drawn>>

AttachPolicy(j) ==
  /\ At(j, "attach")
  /\ LET k == job[j].new.key IN
       \/ Call(j, SetPolicy(k, k), "create", "insert_user", "undo_user")
       \/ /\ user[k] = None \/ policy[k] = None
          /\ UNCHANGED minio /\ Go(j, "undo_user") /\ NoFault
  /\ UNCHANGED <<db, drawn>>

InsertUser(j) ==
  /\ At(j, "insert_user")
  /\ \/ /\ ~KeyTaken(job[j].new.key)
        /\ row' = [row EXCEPT ![job[j].id] = job[j].new]
        /\ \/ Go(j, "insert_policy") /\ NoFault
           \/ Go(j, "undo_user") /\ Fault("reply")
     \/ /\ UNCHANGED row /\ Go(j, "undo_user")
        /\ (KeyTaken(job[j].new.key) /\ NoFault) \/ Fault("insert")
  /\ UNCHANGED <<policyRow, minio, drawn>>

(* The foreign key refuses it when the user was deleted meanwhile. *)
InsertPolicy(j) ==
  /\ At(j, "insert_policy")
  /\ \/ /\ HasRow(job[j].id)
        /\ policyRow' = policyRow \cup {job[j].id}
        /\ \/ Go(j, "idle") /\ NoFault
           \/ Go(j, "undo_row") /\ Fault("reply")
     \/ /\ UNCHANGED policyRow /\ Go(j, "undo_row")
        /\ (~HasRow(job[j].id) /\ NoFault) \/ Fault("insert")
  /\ UNCHANGED <<row, minio, drawn>>

(* DELETE of a user; its policy rows follow by ON DELETE CASCADE. *)
DeleteRow(i) ==
  row' = [row EXCEPT ![i] = NoCredentials] /\ policyRow' = policyRow \ {i}

UndoRow(j) ==
  /\ At(j, "undo_row") /\ Go(j, "undo_user")
  /\ \/ DeleteRow(job[j].id) /\ NoFault
     \/ UNCHANGED db /\ Fault("undo")
  /\ UNCHANGED <<minio, drawn>>

UndoUser(j) ==
  /\ At(j, "undo_user")
  /\ Undo(j, RemoveUser(job[j].new.key), "undo_policy")
  /\ UNCHANGED <<db, drawn>>

UndoPolicy(j) ==
  /\ At(j, "undo_policy")
  /\ Undo(j, RemoveCannedPolicy(job[j].new.key), "idle")
  /\ UNCHANGED <<db, drawn>>

----------------------------------------------------------------------------
(* DeleteIAMByID.  The policy in MinIO is left behind. *)

DeleteIAMByID(j, i) ==
  /\ HasRow(i)
  /\ Begin(j, "delete_row", i, row[i], row[i])
  /\ UNCHANGED <<db, minio, drawn, faults>>

DeleteUserRow(j) ==
  /\ At(j, "delete_row")
  /\ \/ /\ DeleteRow(job[j].id)
        /\ (Go(j, "remove_user") /\ NoFault) \/ (Go(j, "idle") /\ Fault("reply"))
     \/ UNCHANGED db /\ Go(j, "idle") /\ Fault("insert")
  /\ UNCHANGED <<minio, drawn>>

(* An error is logged, and the client gets its 200. *)
RemoveDeletedUser(j) ==
  /\ At(j, "remove_user")
  /\ Go(j, "idle")
  /\ \/ RemoveUser(job[j].old.key) /\ NoFault
     \/ UNCHANGED minio /\ Fault("remove")
  /\ UNCHANGED <<db, drawn>>

----------------------------------------------------------------------------
(* UpdateIAMCredentials. *)

UpdateIAMCredentials(j, i, c) ==
  /\ HasRow(i) /\ i \in policyRow
  /\ c.key # row[i].key => ~KeyTaken(c.key)
  /\ Begin(j, "remove_old", i, row[i], c)
  /\ UNCHANGED <<db, minio, drawn, faults>>

RemoveOldUser(j) ==
  /\ At(j, "remove_old")
  /\ LET k == job[j].old.key IN
       IF user[k] # None
       THEN Call(j, RemoveUser(k), "update", "create_new", "idle")
       ELSE RemoveMissing(j, "user", "create_new", "idle")
  /\ UNCHANGED <<db, drawn>>

CreateNewUser(j) ==
  /\ At(j, "create_new")
  /\ Call(j, AddUser(job[j].new), "update", "save", "restore_old")
  /\ UNCHANGED <<db, drawn>>

RestoreOldUser(j) ==
  /\ At(j, "restore_old")
  /\ Undo(j, AddUser(job[j].old), "idle")
  /\ UNCHANGED <<db, drawn>>

(* Update is GORM's Save: a row that is not there any more is inserted.    *)
SaveUser(j) ==
  LET i == job[j].id
      taken == KeyTakenByOther(i, job[j].new.key)
  IN  /\ At(j, "save")
      /\ \/ /\ ~taken
            /\ row' = [row EXCEPT ![i] = job[j].new]
            /\ \/ Go(j, "publish") /\ NoFault
               \/ Go(j, "undo_new") /\ Fault("reply")
         \/ /\ UNCHANGED row /\ Go(j, "undo_new")
            /\ (taken /\ NoFault) \/ Fault("save")
      /\ UNCHANGED <<policyRow, minio, drawn>>

UndoNewUser(j) ==
  /\ At(j, "undo_new")
  /\ Undo(j, RemoveUser(job[j].new.key), "undo_old")
  /\ UNCHANGED <<db, drawn>>

(* By now iamUser holds the new credentials: they are what is recreated. *)
UndoOldUser(j) ==
  /\ At(j, "undo_old")
  /\ Undo(j, AddUser(job[j].new), "idle")
  /\ UNCHANGED <<db, drawn>>

(* The message carries the id and both policy names; a publication that    *)
(* fails is only logged.                                                   *)
PublishUpdatePolicy(j) ==
  /\ At(j, "publish")
  /\ (Go(j, "queued") /\ NoFault) \/ (Go(j, "idle") /\ Fault("publish"))
  /\ UNCHANGED <<db, minio, drawn>>

----------------------------------------------------------------------------
(* handleUpdatePolicy, in the order of executeUpdatePolicy.  An attempt    *)
(* that failed is repeated, from the queue after the third: attempts       *)
(* differ only in the pause before them.                                   *)

DeliverUpdatePolicy(j) ==
  /\ At(j, "queued") /\ Go(j, "delete_policy")
  /\ UNCHANGED <<db, minio, drawn, faults>>

DeleteOldPolicy(j) ==
  /\ At(j, "delete_policy")
  /\ LET k == job[j].old.key IN
       IF policy[k] # None
       THEN Call(j, RemoveCannedPolicy(k), "consumer", "add_policy", "queued")
       ELSE RemoveMissing(j, "policy", "add_policy", "queued")
  /\ UNCHANGED <<db, drawn>>

CreateNewPolicy(j) ==
  /\ At(j, "add_policy")
  /\ Call(j, AddCannedPolicy(job[j].new.key, job[j].id), "consumer",
          "find_user", "undo_add")
  /\ UNCHANGED <<db, drawn>>

(* The user may have other credentials by now, or be deleted. *)
FindUser(j) ==
  /\ At(j, "find_user")
  /\ \/ /\ HasRow(job[j].id)
        /\ job' = [job EXCEPT ![j].place = "attach_new",
                              ![j].target = row[job[j].id].key]
        /\ NoFault
     \/ /\ Go(j, "undo_delete")
        /\ (~HasRow(job[j].id) /\ NoFault) \/ Fault("consumer")
  /\ UNCHANGED <<db, minio, drawn>>

AttachNewPolicy(j) ==
  LET k == job[j].target
      p == job[j].new.key
  IN  /\ At(j, "attach_new")
      /\ \/ Call(j, SetPolicy(k, p), "consumer", "ack", "undo_delete")
         \/ /\ user[k] = None \/ policy[p] = None
            /\ UNCHANGED minio /\ Go(j, "undo_delete") /\ NoFault
      /\ UNCHANGED <<db, drawn>>

UndoDeletePolicy(j) ==
  /\ At(j, "undo_delete")
  /\ Undo(j, RemoveCannedPolicy(job[j].new.key), "undo_add")
  /\ UNCHANGED <<db, drawn>>

UndoAddPolicy(j) ==
  /\ At(j, "undo_add")
  /\ Undo(j, AddCannedPolicy(job[j].old.key, job[j].id),
          IF job[j].target = None THEN "queued" ELSE "undo_attach")
  /\ UNCHANGED <<db, drawn>>

UndoAttach(j) ==
  LET k == job[j].target
      p == job[j].old.key
  IN  /\ At(j, "undo_attach")
      /\ job' = [job EXCEPT ![j].place = "queued", ![j].target = None]
      /\ \/ SetPolicy(k, p) /\ NoFault
         \/ /\ UNCHANGED minio
            /\ ((user[k] = None \/ policy[p] = None) /\ NoFault) \/ Fault("undo")
      /\ UNCHANGED <<db, drawn>>

AckUpdatePolicy(j) ==
  /\ At(j, "ack") /\ Go(j, "idle")
  /\ UNCHANGED <<db, minio, drawn, faults>>

----------------------------------------------------------------------------
(* The environment. *)

(* A replica of the HTTP server is stopped during a request. *)
HttpCrash(j) ==
  /\ job[j].place \in HttpPlace
  /\ Go(j, "idle") /\ Fault("crash")
  /\ UNCHANGED <<db, minio, drawn>>

(* A consumer stops before its Ack: the broker delivers again. *)
ConsumerCrash(j) ==
  /\ job[j].place \in ConsumerPlace
  /\ job' = [job EXCEPT ![j].place = "queued", ![j].target = None]
  /\ Fault("redelivery")
  /\ UNCHANGED <<db, minio, drawn>>

Request(j) ==
  \E i \in Ids :
    \/ DeleteIAMByID(j, i)
    \/ \E c \in Credentials : CreateIAM(j, i, c) \/ UpdateIAMCredentials(j, i, c)

HttpStep(j) ==
  \/ CreatePolicy(j) \/ CreateUser(j) \/ AttachPolicy(j) \/ InsertUser(j)
  \/ InsertPolicy(j) \/ UndoRow(j) \/ UndoUser(j) \/ UndoPolicy(j)
  \/ DeleteUserRow(j) \/ RemoveDeletedUser(j)
  \/ RemoveOldUser(j) \/ CreateNewUser(j) \/ RestoreOldUser(j) \/ SaveUser(j)
  \/ UndoNewUser(j) \/ UndoOldUser(j) \/ PublishUpdatePolicy(j)

ConsumerStep(j) ==
  \/ DeliverUpdatePolicy(j) \/ DeleteOldPolicy(j) \/ CreateNewPolicy(j)
  \/ FindUser(j) \/ AttachNewPolicy(j) \/ UndoDeletePolicy(j)
  \/ UndoAddPolicy(j) \/ UndoAttach(j) \/ AckUpdatePolicy(j)

Next ==
  \E j \in Jobs :
    Request(j) \/ HttpStep(j) \/ ConsumerStep(j) \/ HttpCrash(j) \/ ConsumerCrash(j)

Spec == Init /\ [][Next]_vars

(* A job that is under way goes on: goroutines are scheduled, and queued   *)
(* messages are delivered.  No request has to come.                        *)
Fairness == \A j \in Jobs : WF_vars(HttpStep(j)) /\ WF_vars(ConsumerStep(j))

FairSpec == Spec /\ Fairness

----------------------------------------------------------------------------
(* Properties. *)

TypeOK ==
  /\ row \in [Ids -> Credentials \cup {NoCredentials}]
  /\ policyRow \subseteq Ids
  /\ user \in [Keys -> Secrets \cup {None}]
  /\ policy \in [Keys -> Ids \cup {None}]
  /\ attached \in [Keys -> Keys \cup {None}]
  /\ job \in [Jobs -> [place : Place, id : Ids \cup {None},
                       old : Credentials \cup {NoCredentials},
                       new : Credentials \cup {NoCredentials},
                       target : Keys \cup {None}]]
  /\ drawn \subseteq Ids
  /\ faults \subseteq FaultKind

(* No request or message is at work on the id. *)
Settled(i) == \A j \in Jobs : At(j, "idle") \/ job[j].id # i

(* The credentials in the row log in; the user may use what its policy     *)
(* grants, and the policy is the id's own.                                 *)
LogsIn(i) == user[row[i].key] = row[i].secret
Granted(i) ==
  LET k == row[i].key IN attached[k] # None /\ policy[attached[k]] = i

Without(kinds) == ~MayOverlap /\ faults \cap kinds = {}

(* Credentials that the server handed out work, also after a creation, a   *)
(* change or a renaming that failed on the way and was undone.             *)
CredentialsWork ==
  Without({"save", "undo", "reply", "crash"}) =>
    \A i \in Ids : (HasRow(i) /\ Settled(i)) => LogsIn(i)

(* "Rollback: Delete new user and recreate old user": nor does a statement *)
(* that fails in UpdateIAMCredentials cost the user the old credentials.   *)
UpdateRollsBack ==
  Without({"undo", "reply", "crash"}) =>
    \A i \in Ids : (HasRow(i) /\ Settled(i)) => LogsIn(i)

(* Nobody logs in whom no row knows: failed creations and changes leave no *)
(* user behind, deletions neither unless the call to MinIO failed.         *)
NoStrayUser ==
  Without({"save", "remove", "undo", "reply", "crash"}) =>
    \A k \in Keys :
      user[k] # None =>
        KeyTaken(k) \/ \E j \in Jobs : ~At(j, "idle") /\ k \in KeysOf(j)

(* A user that can log in has its policy.                                  *)
PolicyGranted ==
  Without({"save", "undo", "reply", "crash", "update", "publish"}) =>
    \A i \in Ids : (HasRow(i) /\ Settled(i)) => Granted(i)

(* A user never has the policy of another id: where no user is left behind *)
(* in MinIO, a key that is used again comes without an attachment.         *)
PolicyIsOwn ==
  Without({"remove", "undo", "reply", "crash"}) =>
    \A i \in Ids :
      LET p == attached[row[i].key] IN
        (HasRow(i) /\ p # None) => policy[p] \in {i, None}

(* What is done to one id changes nothing for another, whatever fails. *)
OthersUntouched ==
  [][\A i \in Ids :
       (~MayOverlap /\ HasRow(i) /\ Settled(i) /\ Settled(i)') =>
         LET k == row[i].key IN
           row'[i] = row[i] /\ user'[k] = user[k] /\ attached'[k] = attached[k]]_vars

(* The renaming of a policy comes to its end, through failures of MinIO    *)
(* and of the consumer, if MinIO takes the policy to be removed when it is *)
(* missing: a message that is delivered again finds it so.                 *)
RenameEnds ==
  \A j \in Jobs :
    (~MayOverlap /\ "policy" \notin MissingFails /\ At(j, "queued")) ~> At(j, "ack")

----------------------------------------------------------------------------
(* The inductive invariant behind the theorems.                            *)

(* A job under way has drawn or found its id, and both credentials.        *)
JobInv(j) ==
  ~At(j, "idle") =>
    /\ job[j].id \in drawn
    /\ job[j].old \in Credentials /\ job[j].new \in Credentials

(* Jobs that begin apart stay apart: a key belongs to one row and one job  *)
(* at a time, and a job touches no key but those it began with.            *)
OwnKeys(j) ==
  LET i == job[j].id IN
    /\ job[j].target \in KeysOf(j) \cup {None}
    /\ HasRow(i) => row[i].key \in KeysOf(j)
    /\ \A h \in Ids \ {i} : HasRow(h) => row[h].key \notin KeysOf(j)
ApartInv ==
  /\ \A i \in Ids, h \in Ids :
       (i # h /\ HasRow(i) /\ HasRow(h)) => row[i].key # row[h].key
  /\ \A j \in Jobs : ~At(j, "idle") => OwnKeys(j) /\ Apart(j, job[j].id, KeysOf(j))

IndInv ==
  /\ TypeOK
  /\ \A i \in Ids : HasRow(i) => i \in drawn
  /\ \A j \in Jobs : JobInv(j)
  /\ ~MayOverlap => ApartInv

(* Under these, the invariants of the four properties of the stores, by    *)
(* the place of each job; all are for jobs that do not overlap.            *)

(* Whatever fails: the row of a job's id, and what its handler holds.      *)
RowPlaced(j) ==
  LET p == job[j].place
      r == row[job[j].id]
  IN  /\ p \in CreatePlace \cup DeletePlace => job[j].old = job[j].new
      /\ p \in {"create_policy", "create_user", "attach", "insert_user",
                "remove_user"} => r = NoCredentials
      /\ p \in {"delete_row", "remove_old", "create_new", "restore_old", "save"} =>
           r = job[j].old
      /\ p \in {"insert_policy", "undo_row", "publish", "queued"} \cup ConsumerPlace =>
           r = job[j].new
      /\ job[j].target \in {None, job[j].new.key}
      /\ p \in {"attach_new", "undo_attach"} => job[j].target = job[j].new.key
PlacedInv == ~MayOverlap => \A j \in Jobs : ~At(j, "idle") => RowPlaced(j)

(* The credentials of a job: no undo is needed for want of a row.          *)
UserPlaced(j) ==
  LET p == job[j].place
      n == job[j].new
  IN  /\ p \notin {"undo_new", "undo_old"}
      /\ p \in {"undo_user", "undo_policy"} => ~HasRow(job[j].id)
      /\ p \in {"attach", "insert_user", "save"} => user[n.key] = n.secret
      /\ p \in {"insert_policy", "delete_row", "remove_old", "publish", "queued"}
              \cup ConsumerPlace => LogsIn(job[j].id)
WorkInv ==
  Without({"save", "undo", "reply", "crash"}) =>
    /\ \A j \in Jobs : ~At(j, "idle") => UserPlaced(j)
    /\ \A i \in Ids : (HasRow(i) /\ Settled(i)) => LogsIn(i)

(* A user at a job's key is the one in the row, or about to be its own.    *)
Busy(k) == \E j \in Jobs : ~At(j, "idle") /\ k \in KeysOf(j)
StrayPlaced(j) ==
  LET p == job[j].place IN
    \A k \in KeysOf(j) :
      user[k] # None =>
        \/ p \in {"attach", "insert_user", "undo_user", "remove_user"}
        \/ p = "save" /\ k = job[j].new.key
        \/ p \notin {"create_new", "save"} /\ row[job[j].id].key = k
StrayInv ==
  Without({"save", "remove", "undo", "reply", "crash"}) =>
    /\ \A j \in Jobs : ~At(j, "idle") => StrayPlaced(j)
    /\ \A k \in Keys : user[k] # None => KeyTaken(k) \/ Busy(k)

(* What a job attaches is its own id's policy or gone; a key without a job *)
(* has only its own policy attached, and that is of the row with the key.  *)
AttachedToUser == \A k \in Keys : attached[k] # None => user[k] # None
OwnPlaced(j) ==
  LET p == job[j].place
      i == job[j].id
      o == job[j].old.key
      n == job[j].new.key
  IN  /\ \A k \in KeysOf(j) :
           attached[k] # None =>
             /\ attached[k] \in KeysOf(j) /\ policy[attached[k]] \in {i, None}
             /\ \/ p \in {"insert_user", "insert_policy", "undo_row", "undo_user",
                         "delete_row", "remove_user"}
                \/ p = "remove_old" /\ k = o /\ attached[k] = o
                \/ p \in {"queued"} \cup ConsumerPlace /\ k = n
      /\ p \in {"create_user", "attach", "find_user", "attach_new"} => policy[n] = i
      /\ p = "undo_attach" => policy[o] = i
      /\ p = "ack" => attached[n] = n
OwnedAt(k) ==
  /\ attached[k] = k
  /\ \E i \in Ids : row[i].key = k /\ policy[k] \in {i, None}
OwnInv ==
  /\ AttachedToUser
  /\ Without({"remove", "undo", "reply", "crash"}) =>
       /\ \A j \in Jobs : ~At(j, "idle") => OwnPlaced(j)
       /\ \A k \in Keys : attached[k] # None => OwnedAt(k) \/ Busy(k)

(* No change of credentials ends before the policy is renamed.             *)
HasOwn(i, k) == attached[k] = k /\ policy[k] = i
GrantPlaced(j) ==
  LET p == job[j].place
      n == job[j].new.key
  IN  /\ p # "restore_old"
      /\ p \in {"create_user", "attach", "find_user", "attach_new"} =>
           policy[n] = job[j].id
      /\ p \in {"insert_user", "insert_policy", "delete_row", "ack"} =>
           HasOwn(job[j].id, n)
GrantInv ==
  Without({"save", "undo", "reply", "crash", "update", "publish"}) =>
    /\ \A j \in Jobs : ~At(j, "idle") => GrantPlaced(j)
    /\ \A i \in Ids : (HasRow(i) /\ Settled(i)) => HasOwn(i, row[i].key)

=============================================================================
