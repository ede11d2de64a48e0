----------------------- MODULE IAMCredentials_proofs -----------------------
(***************************************************************************)
(* Theorems about IAMCredentials, for every set of ids, keys, secrets and  *)
(* jobs and any number of failures.                                        *)
(***************************************************************************)
EXTENDS IAMCredentials, TLAPS

JobRecord == [place : Place, id : Ids \cup {None},
              old : Credentials \cup {NoCredentials},
              new : Credentials \cup {NoCredentials},
              target : Keys \cup {None}]

----------------------------------------------------------------------------
(* What a step of a job does, whichever step it is. *)

(* The job ends, or goes on with the same id and credentials; it may note  *)
(* the key of its row as its target.                                       *)
JobGoesOn(j) ==
  /\ job' \in [Jobs -> JobRecord]
  /\ \A h \in Jobs \ {j} : job'[h] = job[h]
  /\ \/ job'[j].place = "idle"
     \/ /\ job'[j].id = job[j].id
        /\ job'[j].old = job[j].old /\ job'[j].new = job[j].new
        /\ \/ job'[j].target \in {None, job[j].target}
           \/ HasRow(job[j].id) /\ job'[j].target = row[job[j].id].key

(* Its row is deleted, or gets its new credentials. *)
RowGoesOn(j) ==
  /\ policyRow' \subseteq Ids
  /\ row' = row \/ \E c \in {NoCredentials, job[j].new} :
                     row' = [row EXCEPT ![job[j].id] = c]

(* Users, policies and attachments change at the job's keys only. *)
MinioGoesOn(j) ==
  /\ user' \in [Keys -> Secrets \cup {None}]
  /\ policy' \in [Keys -> Ids \cup {None}]
  /\ attached' \in [Keys -> Keys \cup {None}]
  /\ \A k \in Keys \ (KeysOf(j) \cup {job[j].target}) :
       user'[k] = user[k] /\ attached'[k] = attached[k]
  /\ \A k \in Keys \ KeysOf(j) : policy'[k] = policy[k]

Effect(j) ==
  /\ ~At(j, "idle")
  /\ JobGoesOn(j) /\ RowGoesOn(j) /\ MinioGoesOn(j)
  /\ faults' \subseteq FaultKind
  /\ drawn' = drawn

JobStep(j) == HttpStep(j) \/ ConsumerStep(j) \/ HttpCrash(j) \/ ConsumerCrash(j)

(* The places by name, so that the provers need not expand the sets. *)
LEMMA PlaceMembers ==
  /\ {"idle", "queued"} \subseteq Place
  /\ {"create_policy", "create_user", "attach", "insert_user",
      "insert_policy", "undo_row", "undo_user", "undo_policy"} \subseteq Place
  /\ {"delete_row", "remove_user"} \subseteq Place
  /\ {"remove_old", "create_new", "restore_old", "save",
      "undo_new", "undo_old", "publish"} \subseteq Place
  /\ {"delete_policy", "add_policy", "find_user", "attach_new",
      "undo_delete", "undo_add", "undo_attach", "ack"} \subseteq Place
BY DEF Place, HttpPlace, CreatePlace, DeletePlace, UpdatePlace, ConsumerPlace

LEMMA GoGoesOn ==
  ASSUME TypeOK, NEW j \in Jobs, NEW p \in Place, Go(j, p)
  PROVE  JobGoesOn(j)
<1>1. job \in [Jobs -> JobRecord]
  BY DEF TypeOK, JobRecord
<1>2. NoJob \in JobRecord /\ NoJob.place = "idle"
  BY PlaceMembers DEF NoJob, JobRecord
<1>3. [job[j] EXCEPT !.place = p] \in JobRecord
  BY <1>1 DEF JobRecord
<1>4. CASE p = "idle"
  BY <1>1, <1>2, <1>4 DEF Go, JobGoesOn
<1>5. CASE p # "idle"
  <2>1. job' = [job EXCEPT ![j] = [job[j] EXCEPT !.place = p]]
    BY <1>5 DEF Go
  <2>2. job' \in [Jobs -> JobRecord] /\ job'[j] = [job[j] EXCEPT !.place = p]
        /\ \A h \in Jobs \ {j} : job'[h] = job[h]
    BY <1>1, <1>3, <2>1
  <2>3. job[j] \in JobRecord
    BY <1>1
  <2>4. /\ job'[j].id = job[j].id /\ job'[j].old = job[j].old
        /\ job'[j].new = job[j].new /\ job'[j].target = job[j].target
    BY <2>2, <2>3 DEF JobRecord
  <2>5. QED
    BY <2>2, <2>4 DEF JobGoesOn
<1>6. QED
  BY <1>4, <1>5

(* A job that notes a target, and goes to a place. *)
LEMMA TargetGoesOn ==
  ASSUME TypeOK, NEW j \in Jobs, NEW p \in Place, NEW k \in Keys \cup {None},
         job' = [job EXCEPT ![j].place = p, ![j].target = k],
         k = None \/ (HasRow(job[j].id) /\ k = row[job[j].id].key)
  PROVE  JobGoesOn(j)
<1>1. job \in [Jobs -> JobRecord]
  BY DEF TypeOK, JobRecord
<1>2. DEFINE r == [job[j] EXCEPT !.place = p, !.target = k]
<1>3. job' = [job EXCEPT ![j] = r]
  BY <1>1
<1>4. job[j] \in JobRecord
  BY <1>1
<1>5. /\ r \in JobRecord
      /\ r.id = job[j].id /\ r.old = job[j].old /\ r.new = job[j].new /\ r.target = k
  BY <1>4 DEF JobRecord
<1> HIDE DEF r
<1>6. job' \in [Jobs -> JobRecord] /\ job'[j] = r
      /\ \A h \in Jobs \ {j} : job'[h] = job[h]
  BY <1>1, <1>3, <1>5
<1>7. QED
  BY <1>5, <1>6 DEF JobGoesOn

(* The calls to MinIO, each at a key of the job. *)
LEMMA CallsGoOn ==
  ASSUME TypeOK, NEW j \in Jobs
  PROVE  /\ UNCHANGED minio => MinioGoesOn(j)
         /\ \A c \in Credentials :
              (c.key \in KeysOf(j) /\ AddUser(c)) => MinioGoesOn(j)
         /\ \A k \in KeysOf(j) : RemoveUser(k) => MinioGoesOn(j)
         /\ \A k \in KeysOf(j), i \in Ids : AddCannedPolicy(k, i) => MinioGoesOn(j)
         /\ \A k \in KeysOf(j) : RemoveCannedPolicy(k) => MinioGoesOn(j)
         /\ \A p \in Keys : \A k \in KeysOf(j) \cup {job[j].target} :
              SetPolicy(k, p) => MinioGoesOn(j)
<1> USE DEF TypeOK, MinioGoesOn
<1>1. UNCHANGED minio => MinioGoesOn(j)
  BY DEF minio
<1>2. ASSUME NEW c \in Credentials, c.key \in KeysOf(j), AddUser(c)
      PROVE  MinioGoesOn(j)
  <2>1. c.secret \in Secrets
    BY DEF Credentials
  <2>2. QED
    BY <1>2, <2>1 DEF AddUser
<1>3. ASSUME NEW k \in KeysOf(j), RemoveUser(k)
      PROVE  MinioGoesOn(j)
  BY <1>3 DEF RemoveUser
<1>4. ASSUME NEW k \in KeysOf(j), NEW i \in Ids, AddCannedPolicy(k, i)
      PROVE  MinioGoesOn(j)
  BY <1>4 DEF AddCannedPolicy
<1>5. ASSUME NEW k \in KeysOf(j), RemoveCannedPolicy(k)
      PROVE  MinioGoesOn(j)
  BY <1>5 DEF RemoveCannedPolicy
<1>6. ASSUME NEW p \in Keys, NEW k \in KeysOf(j) \cup {job[j].target}, SetPolicy(k, p)
      PROVE  MinioGoesOn(j)
  BY <1>6 DEF SetPolicy
<1>7. QED
  BY <1>1, <1>2, <1>3, <1>4, <1>5, <1>6

LEMMA CredentialKeys == \A c \in Credentials : c.key \in Keys
BY DEF Credentials

(* What a job under way has in hand. *)
LEMMA InHand ==
  ASSUME TypeOK, NEW j \in Jobs, JobInv(j), ~At(j, "idle")
  PROVE  /\ job[j].id \in Ids
         /\ job[j].old \in Credentials /\ job[j].new \in Credentials
         /\ job[j].old.key \in Keys /\ job[j].new.key \in Keys
         /\ job[j].old.key \in KeysOf(j) /\ job[j].new.key \in KeysOf(j)
BY DEF TypeOK, JobInv, KeysOf, Credentials

LEMMA FaultsGoOn ==
  ASSUME TypeOK
  PROVE  /\ NoFault => faults' \subseteq FaultKind
         /\ \A k \in FaultKind : Fault(k) => faults' \subseteq FaultKind
BY DEF TypeOK, NoFault, Fault

LEMMA FaultKinds ==
  {"create", "insert", "remove", "update", "save", "publish",
   "undo", "reply", "crash", "consumer", "redelivery"} \subseteq FaultKind
BY DEF FaultKind

(* A call to MinIO, whichever way it goes, and an undo. *)
LEMMA CallGoesOn ==
  ASSUME TypeOK, NEW j \in Jobs, NEW kind \in FaultKind,
         NEW next \in Place, NEW failed \in Place,
         NEW ACTION effect, effect => MinioGoesOn(j),
         \/ effect /\ Go(j, next) /\ NoFault
         \/ effect /\ Go(j, failed) /\ Fault("reply")
         \/ UNCHANGED minio /\ Go(j, failed) /\ Fault(kind)
         \/ UNCHANGED minio /\ NoFault /\ Go(j, failed)
         \/ UNCHANGED minio /\ NoFault /\ Go(j, next)
  PROVE  JobGoesOn(j) /\ MinioGoesOn(j) /\ faults' \subseteq FaultKind
BY GoGoesOn, CallsGoOn, FaultsGoOn, FaultKinds

LEMMA UndoGoesOn ==
  ASSUME TypeOK, NEW j \in Jobs, NEW next \in Place,
         NEW ACTION effect, effect => MinioGoesOn(j), Undo(j, effect, next)
  PROVE  JobGoesOn(j) /\ MinioGoesOn(j) /\ faults' \subseteq FaultKind
BY GoGoesOn, CallsGoOn, FaultsGoOn, FaultKinds DEF Undo

----------------------------------------------------------------------------
(* The steps of the handlers and of the consumer, one by one. *)

LEMMA CreateEffect ==
  ASSUME TypeOK, NEW j \in Jobs, JobInv(j),
         \/ CreatePolicy(j) \/ CreateUser(j) \/ AttachPolicy(j)
         \/ UndoUser(j) \/ UndoPolicy(j)
  PROVE  Effect(j)
<1> USE PlaceMembers, FaultKinds, InHand, CallsGoOn DEF At
<1>1. CASE CreatePolicy(j)
  <2>1. ~At(j, "idle") /\ UNCHANGED <<db, drawn>>
    BY <1>1 DEF CreatePolicy
  <2>2. JobGoesOn(j) /\ MinioGoesOn(j) /\ faults' \subseteq FaultKind
    <3>1. AddCannedPolicy(job[j].new.key, job[j].id) => MinioGoesOn(j)
      BY <2>1
    <3>2. QED
      BY <1>1, <3>1, CallGoesOn DEF CreatePolicy, Call
  <2>3. QED
    BY <2>1, <2>2 DEF Effect, RowGoesOn, TypeOK, db
<1>2. CASE CreateUser(j)
  <2>1. ~At(j, "idle") /\ UNCHANGED <<db, drawn>>
    BY <1>2 DEF CreateUser
  <2>2. JobGoesOn(j) /\ MinioGoesOn(j) /\ faults' \subseteq FaultKind
    <3>1. AddUser(job[j].new) => MinioGoesOn(j)
      BY <2>1
    <3>2. QED
      BY <1>2, <3>1, CallGoesOn DEF CreateUser, Call
  <2>3. QED
    BY <2>1, <2>2 DEF Effect, RowGoesOn, TypeOK, db
<1>3. CASE AttachPolicy(j)
  <2>1. ~At(j, "idle") /\ UNCHANGED <<db, drawn>>
    BY <1>3 DEF AttachPolicy
  <2>2. JobGoesOn(j) /\ MinioGoesOn(j) /\ faults' \subseteq FaultKind
    <3>1. SetPolicy(job[j].new.key, job[j].new.key) => MinioGoesOn(j)
      BY <2>1
    <3>2. QED
      BY <1>3, <3>1, CallGoesOn DEF AttachPolicy, Call
  <2>3. QED
    BY <2>1, <2>2 DEF Effect, RowGoesOn, TypeOK, db
<1>4. CASE UndoUser(j)
  <2>1. ~At(j, "idle") /\ UNCHANGED <<db, drawn>>
    BY <1>4 DEF UndoUser
  <2>2. JobGoesOn(j) /\ MinioGoesOn(j) /\ faults' \subseteq FaultKind
    <3>1. RemoveUser(job[j].new.key) => MinioGoesOn(j)
      BY <2>1
    <3>2. QED
      BY <1>4, <3>1, UndoGoesOn DEF UndoUser, Undo
  <2>3. QED
    BY <2>1, <2>2 DEF Effect, RowGoesOn, TypeOK, db
<1>5. CASE UndoPolicy(j)
  <2>1. ~At(j, "idle") /\ UNCHANGED <<db, drawn>>
    BY <1>5 DEF UndoPolicy
  <2>2. JobGoesOn(j) /\ MinioGoesOn(j) /\ faults' \subseteq FaultKind
    <3>1. RemoveCannedPolicy(job[j].new.key) => MinioGoesOn(j)
      BY <2>1
    <3>2. QED
      BY <1>5, <3>1, UndoGoesOn DEF UndoPolicy, Undo
  <2>3. QED
    BY <2>1, <2>2 DEF Effect, RowGoesOn, TypeOK, db
<1>6. QED
  BY <1>1, <1>2, <1>3, <1>4, <1>5

LEMMA RowEffect ==
  ASSUME TypeOK, NEW j \in Jobs, JobInv(j),
         \/ InsertUser(j) \/ InsertPolicy(j) \/ UndoRow(j)
         \/ DeleteUserRow(j) \/ SaveUser(j)
  PROVE  Effect(j)
<1> USE PlaceMembers, FaultKinds, InHand, CallsGoOn DEF At
<1>1. ~At(j, "idle") /\ UNCHANGED drawn /\ MinioGoesOn(j)
  BY DEF InsertUser, InsertPolicy, UndoRow, DeleteUserRow, SaveUser
<1>2. JobGoesOn(j)
  BY GoGoesOn DEF InsertUser, InsertPolicy, UndoRow, DeleteUserRow, SaveUser
<1>3. faults' \subseteq FaultKind
  BY FaultsGoOn DEF InsertUser, InsertPolicy, UndoRow, DeleteUserRow, SaveUser
<1>4. policyRow' \subseteq Ids
  BY <1>1 DEF InsertUser, InsertPolicy, UndoRow, DeleteUserRow, SaveUser, DeleteRow,
              db, TypeOK
<1>5. row' = row \/ \E c \in {NoCredentials, job[j].new} :
                      row' = [row EXCEPT ![job[j].id] = c]
  BY DEF InsertUser, InsertPolicy, UndoRow, DeleteUserRow, SaveUser, DeleteRow, db
<1>6. QED
  BY <1>1, <1>2, <1>3, <1>4, <1>5 DEF Effect, RowGoesOn

LEMMA UpdateEffect ==
  ASSUME TypeOK, NEW j \in Jobs, JobInv(j),
         \/ RemoveDeletedUser(j) \/ RemoveOldUser(j) \/ CreateNewUser(j)
         \/ RestoreOldUser(j) \/ UndoNewUser(j) \/ UndoOldUser(j)
         \/ PublishUpdatePolicy(j)
  PROVE  Effect(j)
<1> USE PlaceMembers, FaultKinds, InHand, CallsGoOn DEF At
<1>1. CASE RemoveOldUser(j)
  <2>1. ~At(j, "idle") /\ UNCHANGED <<db, drawn>>
    BY <1>1 DEF RemoveOldUser
  <2>2. JobGoesOn(j) /\ MinioGoesOn(j) /\ faults' \subseteq FaultKind
    <3>1. RemoveUser(job[j].old.key) => MinioGoesOn(j)
      BY <2>1
    <3>2. QED
      BY <1>1, <3>1, CallGoesOn DEF RemoveOldUser, Call, RemoveMissing
  <2>3. QED
    BY <2>1, <2>2 DEF Effect, RowGoesOn, TypeOK, db
<1>2. CASE CreateNewUser(j)
  <2>1. ~At(j, "idle") /\ UNCHANGED <<db, drawn>>
    BY <1>2 DEF CreateNewUser
  <2>2. JobGoesOn(j) /\ MinioGoesOn(j) /\ faults' \subseteq FaultKind
    <3>1. AddUser(job[j].new) => MinioGoesOn(j)
      BY <2>1
    <3>2. QED
      BY <1>2, <3>1, CallGoesOn DEF CreateNewUser, Call
  <2>3. QED
    BY <2>1, <2>2 DEF Effect, RowGoesOn, TypeOK, db
<1>3. CASE RestoreOldUser(j)
  <2>1. ~At(j, "idle") /\ UNCHANGED <<db, drawn>>
    BY <1>3 DEF RestoreOldUser
  <2>2. JobGoesOn(j) /\ MinioGoesOn(j) /\ faults' \subseteq FaultKind
    <3>1. AddUser(job[j].old) => MinioGoesOn(j)
      BY <2>1
    <3>2. QED
      BY <1>3, <3>1, UndoGoesOn DEF RestoreOldUser, Undo
  <2>3. QED
    BY <2>1, <2>2 DEF Effect, RowGoesOn, TypeOK, db
<1>4. CASE UndoNewUser(j)
  <2>1. ~At(j, "idle") /\ UNCHANGED <<db, drawn>>
    BY <1>4 DEF UndoNewUser
  <2>2. JobGoesOn(j) /\ MinioGoesOn(j) /\ faults' \subseteq FaultKind
    <3>1. RemoveUser(job[j].new.key) => MinioGoesOn(j)
      BY <2>1
    <3>2. QED
      BY <1>4, <3>1, UndoGoesOn DEF UndoNewUser, Undo
  <2>3. QED
    BY <2>1, <2>2 DEF Effect, RowGoesOn, TypeOK, db
<1>5. CASE UndoOldUser(j)
  <2>1. ~At(j, "idle") /\ UNCHANGED <<db, drawn>>
    BY <1>5 DEF UndoOldUser
  <2>2. JobGoesOn(j) /\ MinioGoesOn(j) /\ faults' \subseteq FaultKind
    <3>1. AddUser(job[j].new) => MinioGoesOn(j)
      BY <2>1
    <3>2. QED
      BY <1>5, <3>1, UndoGoesOn DEF UndoOldUser, Undo
  <2>3. QED
    BY <2>1, <2>2 DEF Effect, RowGoesOn, TypeOK, db
<1>6. CASE RemoveDeletedUser(j) \/ PublishUpdatePolicy(j)
  <2>1. ~At(j, "idle") /\ UNCHANGED <<db, drawn>>
    BY <1>6 DEF RemoveDeletedUser, PublishUpdatePolicy
  <2>2. JobGoesOn(j)
    BY <1>6, GoGoesOn DEF RemoveDeletedUser, PublishUpdatePolicy
  <2>3. faults' \subseteq FaultKind
    BY <1>6, FaultsGoOn DEF RemoveDeletedUser, PublishUpdatePolicy
  <2>4. MinioGoesOn(j)
    BY <1>6, <2>1 DEF RemoveDeletedUser, PublishUpdatePolicy
  <2>5. QED
    BY <2>1, <2>2, <2>3, <2>4 DEF Effect, RowGoesOn, TypeOK, db
<1>7. QED
  BY <1>1, <1>2, <1>3, <1>4, <1>5, <1>6

LEMMA ConsumerEffect ==
  ASSUME TypeOK, NEW j \in Jobs, JobInv(j), ConsumerStep(j)
  PROVE  Effect(j)
<1> USE PlaceMembers, FaultKinds, InHand, CallsGoOn DEF At
<1>1. CASE DeleteOldPolicy(j)
  <2>1. ~At(j, "idle") /\ UNCHANGED <<db, drawn>>
    BY <1>1 DEF DeleteOldPolicy
  <2>2. JobGoesOn(j) /\ MinioGoesOn(j) /\ faults' \subseteq FaultKind
    <3>1. RemoveCannedPolicy(job[j].old.key) => MinioGoesOn(j)
      BY <2>1
    <3>2. QED
      BY <1>1, <3>1, CallGoesOn DEF DeleteOldPolicy, Call, RemoveMissing
  <2>3. QED
    BY <2>1, <2>2 DEF Effect, RowGoesOn, TypeOK, db
<1>2. CASE CreateNewPolicy(j)
  <2>1. ~At(j, "idle") /\ UNCHANGED <<db, drawn>>
    BY <1>2 DEF CreateNewPolicy
  <2>2. JobGoesOn(j) /\ MinioGoesOn(j) /\ faults' \subseteq FaultKind
    <3>1. AddCannedPolicy(job[j].new.key, job[j].id) => MinioGoesOn(j)
      BY <2>1
    <3>2. QED
      BY <1>2, <3>1, CallGoesOn DEF CreateNewPolicy, Call
  <2>3. QED
    BY <2>1, <2>2 DEF Effect, RowGoesOn, TypeOK, db
<1>3. CASE AttachNewPolicy(j)
  <2>1. ~At(j, "idle") /\ UNCHANGED <<db, drawn>>
    BY <1>3 DEF AttachNewPolicy
  <2>2. JobGoesOn(j) /\ MinioGoesOn(j) /\ faults' \subseteq FaultKind
    <3>1. SetPolicy(job[j].target, job[j].new.key) => MinioGoesOn(j)
      BY <2>1
    <3>2. QED
      BY <1>3, <3>1, CallGoesOn DEF AttachNewPolicy, Call
  <2>3. QED
    BY <2>1, <2>2 DEF Effect, RowGoesOn, TypeOK, db
<1>4. CASE UndoDeletePolicy(j)
  <2>1. ~At(j, "idle") /\ UNCHANGED <<db, drawn>>
    BY <1>4 DEF UndoDeletePolicy
  <2>2. JobGoesOn(j) /\ MinioGoesOn(j) /\ faults' \subseteq FaultKind
    <3>1. RemoveCannedPolicy(job[j].new.key) => MinioGoesOn(j)
      BY <2>1
    <3>2. QED
      BY <1>4, <3>1, UndoGoesOn DEF UndoDeletePolicy, Undo
  <2>3. QED
    BY <2>1, <2>2 DEF Effect, RowGoesOn, TypeOK, db
<1>5. CASE UndoAddPolicy(j)
  <2>1. ~At(j, "idle") /\ UNCHANGED <<db, drawn>>
    BY <1>5 DEF UndoAddPolicy
  <2>2. JobGoesOn(j) /\ MinioGoesOn(j) /\ faults' \subseteq FaultKind
    <3>1. AddCannedPolicy(job[j].old.key, job[j].id) => MinioGoesOn(j)
      BY <2>1
    <3>2. QED
      BY <1>5, <3>1, UndoGoesOn DEF UndoAddPolicy, Undo
  <2>3. QED
    BY <2>1, <2>2 DEF Effect, RowGoesOn, TypeOK, db
<1>6. CASE DeliverUpdatePolicy(j) \/ AckUpdatePolicy(j)
  <2>1. /\ ~At(j, "idle") /\ UNCHANGED <<db, minio, drawn, faults>>
        /\ JobGoesOn(j)
    BY <1>6, GoGoesOn DEF DeliverUpdatePolicy, AckUpdatePolicy
  <2>2. QED
    BY <2>1 DEF Effect, RowGoesOn, TypeOK, db
<1>7. CASE FindUser(j)
  <2>1. ~At(j, "idle") /\ UNCHANGED <<db, minio, drawn>>
    BY <1>7 DEF FindUser
  <2>2. faults' \subseteq FaultKind
    BY <1>7, FaultsGoOn DEF FindUser
  <2>3. ASSUME HasRow(job[j].id),
               job' = [job EXCEPT ![j].place = "attach_new",
                                  ![j].target = row[job[j].id].key]
        PROVE  JobGoesOn(j)
    <3>1. row[job[j].id] \in Credentials
      <4>1. job[j].id \in Ids
        BY <2>1
      <4>2. QED
        BY <2>3, <4>1 DEF TypeOK, HasRow
    <3> DEFINE k == row[job[j].id].key
    <3>2. k \in Keys
      BY <3>1, CredentialKeys
    <3>3. HasRow(job[j].id) /\ k = row[job[j].id].key
      BY <2>3
    <3>4. job' = [job EXCEPT ![j].place = "attach_new", ![j].target = k]
      BY <2>3
    <3> HIDE DEF k
    <3>5. QED
      BY <3>2, <3>3, <3>4, TargetGoesOn
  <2>4. JobGoesOn(j)
    BY <1>7, <2>3, GoGoesOn DEF FindUser
  <2>5. QED
    BY <2>1, <2>2, <2>4 DEF Effect, RowGoesOn, TypeOK, db
<1>8. CASE UndoAttach(j)
  <2>1. ~At(j, "idle") /\ UNCHANGED <<db, drawn>>
    BY <1>8 DEF UndoAttach
  <2>2. JobGoesOn(j)
    BY <1>8, TargetGoesOn DEF UndoAttach
  <2>3. faults' \subseteq FaultKind
    BY <1>8, FaultsGoOn DEF UndoAttach
  <2>4. MinioGoesOn(j)
    BY <1>8, <2>1 DEF UndoAttach
  <2>5. QED
    BY <2>1, <2>2, <2>3, <2>4 DEF Effect, RowGoesOn, TypeOK, db
<1>9. QED
  BY <1>1, <1>2, <1>3, <1>4, <1>5, <1>6, <1>7, <1>8 DEF ConsumerStep

LEMMA CrashEffect ==
  ASSUME TypeOK, NEW j \in Jobs, HttpCrash(j) \/ ConsumerCrash(j)
  PROVE  Effect(j)
<1> USE PlaceMembers, FaultKinds, CallsGoOn
<1>1. ~At(j, "idle")
  BY DEF HttpCrash, ConsumerCrash, At, HttpPlace, CreatePlace, DeletePlace,
     UpdatePlace, ConsumerPlace
<1>2. UNCHANGED <<db, minio, drawn>> /\ faults' \subseteq FaultKind
  BY FaultsGoOn DEF HttpCrash, ConsumerCrash
<1>3. JobGoesOn(j)
  BY GoGoesOn, TargetGoesOn DEF HttpCrash, ConsumerCrash
<1>4. QED
  BY <1>1, <1>2, <1>3 DEF Effect, RowGoesOn, TypeOK, db

LEMMA StepEffect ==
  ASSUME TypeOK, NEW j \in Jobs, JobInv(j), JobStep(j)
  PROVE  Effect(j)
BY CreateEffect, RowEffect, UpdateEffect, ConsumerEffect, CrashEffect
DEF JobStep, HttpStep

----------------------------------------------------------------------------
(* The invariant through a step of a job. *)

LEMMA EffectTypeOK ==
  ASSUME TypeOK, NEW j \in Jobs, JobInv(j), Effect(j)
  PROVE  TypeOK'
<1>1. row' \in [Ids -> Credentials \cup {NoCredentials}]
  <2>1. job[j].new \in Credentials
    BY InHand DEF Effect
  <2>2. QED
    BY <2>1 DEF Effect, RowGoesOn, TypeOK
<1>2. job' \in [Jobs -> JobRecord] /\ drawn' \subseteq Ids
  BY DEF Effect, JobGoesOn, TypeOK
<1>3. QED
  BY <1>1, <1>2 DEF Effect, RowGoesOn, MinioGoesOn, TypeOK, JobRecord

(* The rows after the step: the job's may change, to a key of the job's.   *)
LEMMA RowsAfter ==
  ASSUME TypeOK, NEW j \in Jobs, JobInv(j), Effect(j)
  PROVE  /\ \A i \in Ids : i # job[j].id => row'[i] = row[i]
         /\ (row'[job[j].id] # NoCredentials /\ row'[job[j].id] # row[job[j].id])
              => row'[job[j].id].key \in KeysOf(j)
<1>1. job[j].id \in Ids /\ job[j].new.key \in KeysOf(j)
  BY InHand DEF Effect
<1>2. QED
  BY <1>1 DEF Effect, RowGoesOn, TypeOK

(* The jobs after the step: those under way were so before, with the same  *)
(* id and keys.                                                            *)
LEMMA JobsAfter ==
  ASSUME TypeOK, NEW j \in Jobs, Effect(j),
         NEW g \in Jobs, job'[g].place # "idle"
  PROVE  /\ ~At(g, "idle")
         /\ job'[g].id = job[g].id /\ KeysOf(g)' = KeysOf(g)
         /\ job'[g].old = job[g].old /\ job'[g].new = job[g].new
         /\ \/ job'[g].target \in {None, job[g].target}
            \/ g = j /\ HasRow(job[g].id) /\ job'[g].target = row[job[g].id].key
<1>1. CASE g = j
  BY <1>1 DEF Effect, JobGoesOn, KeysOf
<1>2. CASE g # j
  BY <1>2 DEF Effect, JobGoesOn, KeysOf, At
<1>3. QED
  BY <1>1, <1>2

LEMMA EffectApart ==
  ASSUME IndInv, ~MayOverlap, NEW j \in Jobs, Effect(j)
  PROVE  ApartInv'
<1>0. PICK d : d = job[j].id
  OBVIOUS
<1>1. TypeOK /\ JobInv(j) /\ ~At(j, "idle") /\ ApartInv
  BY DEF IndInv, Effect
<1>2. d \in Ids /\ OwnKeys(j) /\ Apart(j, d, KeysOf(j))
  BY <1>0, <1>1, InHand DEF ApartInv
<1>3. \A i \in Ids : i # d => row'[i] = row[i]
  BY <1>0, <1>1, RowsAfter
<1>4. HasRow(d)' => row'[d].key \in KeysOf(j)
  BY <1>0, <1>1, <1>2, RowsAfter DEF OwnKeys, HasRow
<1>5. \A i \in Ids \ {d} : HasRow(i)' => row'[i].key \notin KeysOf(j)
  BY <1>0, <1>2, <1>3 DEF OwnKeys, HasRow
<1>6. \A i \in Ids, h \in Ids :
        (i # h /\ HasRow(i)' /\ HasRow(h)') => row'[i].key # row'[h].key
  BY <1>1, <1>3, <1>4, <1>5 DEF ApartInv, HasRow
<1>7. ASSUME NEW g \in Jobs, job'[g].place # "idle"
      PROVE  OwnKeys(g)' /\ Apart(g, job[g].id, KeysOf(g))'
  <2>0. PICK e : e = job[g].id
    OBVIOUS
  <2>1. /\ ~At(g, "idle") /\ job'[g].id = e /\ KeysOf(g)' = KeysOf(g)
        /\ \/ job'[g].target \in {None, job[g].target}
           \/ g = j /\ HasRow(e) /\ job'[g].target = row[e].key
    BY <2>0, <1>1, <1>7, JobsAfter
  <2>2. OwnKeys(g) /\ Apart(g, e, KeysOf(g)) /\ e \in Ids
    BY <2>0, <1>1, <2>1, InHand DEF ApartInv, IndInv
  <2>3. g # j => e # d /\ KeysOf(g) \cap KeysOf(j) = {}
    BY <1>0, <1>1, <2>2 DEF Apart
  <2>4. job'[g].target \in KeysOf(g) \cup {None}
    BY <2>0, <2>1, <2>2 DEF OwnKeys
  <2>5. HasRow(e)' => row'[e].key \in KeysOf(g)
    BY <1>0, <2>0, <1>3, <1>4, <2>2, <2>3 DEF OwnKeys, HasRow
  <2>6. ASSUME NEW h \in Ids \ {e}, HasRow(h)'
        PROVE  row'[h].key \notin KeysOf(g)
    BY <1>0, <2>0, <1>2, <1>3, <1>4, <1>5, <2>2, <2>3, <2>6 DEF OwnKeys, HasRow
  <2>7. OwnKeys(g)'
    BY <2>1, <2>4, <2>5, <2>6 DEF OwnKeys
  <2>8. ASSUME NEW h \in Jobs \ {g}, job'[h].place # "idle"
        PROVE  job'[h].id # e /\ KeysOf(h)' \cap KeysOf(g) = {}
    <3>1. ~At(h, "idle") /\ job'[h].id = job[h].id /\ KeysOf(h)' = KeysOf(h)
      BY <1>1, <2>8, JobsAfter
    <3>2. QED
      BY <2>2, <3>1 DEF Apart
  <2>9. QED
    BY <2>0, <2>1, <2>7, <2>8 DEF Apart, At
<1>8. QED
  BY <1>1, <1>6, <1>7, JobsAfter DEF ApartInv, At

LEMMA EffectInv ==
  ASSUME IndInv, NEW j \in Jobs, Effect(j)
  PROVE  IndInv'
<1>1. TypeOK /\ JobInv(j) /\ ~At(j, "idle") /\ drawn' = drawn
  BY DEF IndInv, Effect
<1>2. TypeOK'
  BY <1>1, EffectTypeOK
<1>3. \A i \in Ids : HasRow(i)' => i \in drawn'
  <2>1. job[j].id \in drawn
    BY <1>1 DEF JobInv
  <2>2. QED
    BY <1>1, <2>1, RowsAfter DEF IndInv, HasRow
<1>4. ASSUME NEW g \in Jobs, job'[g].place # "idle"
      PROVE  job'[g].id \in drawn' /\ job'[g].old \in Credentials
               /\ job'[g].new \in Credentials
  BY <1>1, <1>4, JobsAfter DEF IndInv, JobInv
<1>5. ~MayOverlap => ApartInv'
  BY EffectApart
<1>6. QED
  BY <1>2, <1>3, <1>4, <1>5 DEF IndInv, JobInv, At

----------------------------------------------------------------------------
(* The invariant through a request. *)

LEMMA BeginJobs ==
  ASSUME TypeOK, NEW j \in Jobs, NEW p \in Place, p # "idle", NEW i \in Ids,
         NEW old \in Credentials, NEW new \in Credentials,
         Begin(j, p, i, old, new)
  PROVE  /\ job' \in [Jobs -> JobRecord]
         /\ \A h \in Jobs \ {j} : job'[h] = job[h]
         /\ job'[j] = [place |-> p, id |-> i, old |-> old, new |-> new,
                       target |-> None]
BY DEF Begin, TypeOK, JobRecord

LEMMA BeginApart ==
  ASSUME IndInv, ~MayOverlap, NEW j \in Jobs, NEW p \in Place, p # "idle",
         NEW i \in Ids, NEW old \in Credentials, NEW new \in Credentials,
         Begin(j, p, i, old, new), UNCHANGED row,
         HasRow(i) => row[i].key \in {old.key, new.key},
         \A h \in Ids \ {i} : HasRow(h) => row[h].key \notin {old.key, new.key}
  PROVE  ApartInv'
<1>1. TypeOK /\ ApartInv
  BY DEF IndInv
<1>2. /\ \A h \in Jobs \ {j} : job'[h] = job[h]
      /\ job'[j] = [place |-> p, id |-> i, old |-> old, new |-> new, target |-> None]
  BY <1>1, BeginJobs
<1>3. /\ job'[j].id = i /\ job'[j].target = None
      /\ KeysOf(j)' = {old.key, new.key}
  BY <1>2 DEF KeysOf
<1>4. \A h \in Jobs \ {j} : KeysOf(h)' = KeysOf(h)
  BY <1>2 DEF KeysOf
<1>5. \A h \in Jobs \ {j} :
        ~At(h, "idle") => job[h].id # i /\ KeysOf(h) \cap {old.key, new.key} = {}
  BY DEF Begin, Apart
<1>6. OwnKeys(j)' /\ Apart(j, job[j].id, KeysOf(j))'
  <2>1. OwnKeys(j)'
    BY <1>3 DEF OwnKeys, HasRow
  <2>2. QED
    BY <1>2, <1>3, <1>4, <1>5, <2>1 DEF Apart, At
<1>7. ASSUME NEW g \in Jobs \ {j}, ~At(g, "idle")
      PROVE  OwnKeys(g)' /\ Apart(g, job[g].id, KeysOf(g))'
  <2>1. OwnKeys(g) /\ Apart(g, job[g].id, KeysOf(g))
    BY <1>1, <1>7 DEF ApartInv
  <2>2. OwnKeys(g)'
    BY <1>2, <1>4, <2>1 DEF OwnKeys, HasRow
  <2>3. ASSUME NEW h \in Jobs \ {g}, job'[h].place # "idle"
        PROVE  job'[h].id # job[g].id /\ KeysOf(h)' \cap KeysOf(g) = {}
    <3>1. CASE h = j
      BY <1>3, <1>5, <1>7, <3>1
    <3>2. CASE h # j
      BY <1>2, <1>4, <2>1, <2>3, <3>2 DEF Apart, At
    <3>3. QED
      BY <3>1, <3>2
  <2>4. QED
    BY <1>2, <1>4, <2>2, <2>3 DEF Apart, At
<1>8. \A g \in Jobs \ {j} : At(g, "idle")' <=> At(g, "idle")
  BY <1>2 DEF At
<1>9. QED
  BY <1>1, <1>6, <1>7, <1>8 DEF ApartInv, HasRow

LEMMA RequestInv ==
  ASSUME IndInv, NEW j \in Jobs, Request(j)
  PROVE  /\ IndInv'
         /\ UNCHANGED <<row, user, attached>>
<1> USE PlaceMembers
<1>1. ASSUME NEW p \in Place, p # "idle", NEW i \in Ids,
             NEW old \in Credentials, NEW new \in Credentials,
             Begin(j, p, i, old, new), UNCHANGED <<db, minio, faults>>,
             drawn' \subseteq Ids, drawn \subseteq drawn', i \in drawn',
             ~MayOverlap =>
               /\ HasRow(i) => row[i].key \in {old.key, new.key}
               /\ \A h \in Ids \ {i} :
                    HasRow(h) => row[h].key \notin {old.key, new.key}
      PROVE  IndInv' /\ UNCHANGED <<row, user, attached>>
  <2>1. TypeOK
    BY DEF IndInv
  <2>2. /\ job' \in [Jobs -> JobRecord]
        /\ \A h \in Jobs \ {j} : job'[h] = job[h]
        /\ job'[j] = [place |-> p, id |-> i, old |-> old, new |-> new, target |-> None]
    BY <1>1, <2>1, BeginJobs
  <2>3. UNCHANGED <<row, policyRow, user, policy, attached>>
    BY <1>1 DEF db, minio
  <2>4. TypeOK'
    BY <1>1, <2>1, <2>2, <2>3 DEF TypeOK, JobRecord
  <2>5. \A h \in Ids : HasRow(h)' => h \in drawn'
    BY <1>1, <2>3 DEF IndInv, HasRow
  <2>6. \A h \in Jobs : JobInv(h)'
    BY <1>1, <2>2 DEF IndInv, JobInv, At
  <2>7. ~MayOverlap => ApartInv'
    BY <1>1, <2>3, BeginApart
  <2>8. QED
    BY <2>3, <2>4, <2>5, <2>6, <2>7 DEF IndInv
<1>2. \A h \in Ids : HasRow(h) => row[h] \in Credentials /\ h \in drawn
  BY DEF IndInv, TypeOK, HasRow
<1>3. drawn \subseteq Ids
  BY DEF IndInv, TypeOK
<1>4. ASSUME NEW i \in Ids, NEW c \in Credentials, CreateIAM(j, i, c)
      PROVE  IndInv' /\ UNCHANGED <<row, user, attached>>
  <2>1. \A h \in Ids : HasRow(h) => row[h].key # c.key
    BY <1>4 DEF CreateIAM, KeyTaken
  <2>2. ~HasRow(i)
    BY <1>2, <1>4 DEF CreateIAM
  <2>3. Begin(j, "create_policy", i, c, c) /\ UNCHANGED <<db, minio, faults>>
        /\ drawn' = drawn \cup {i}
    BY <1>4 DEF CreateIAM
  <2>4. QED
    BY <1>1, <1>3, <2>1, <2>2, <2>3
<1>5. ASSUME NEW i \in Ids, HasRow(i), ~MayOverlap
      PROVE  \A h \in Ids \ {i} : HasRow(h) => row[h].key # row[i].key
  BY <1>5 DEF IndInv, ApartInv
<1>6. ASSUME NEW i \in Ids, DeleteIAMByID(j, i)
      PROVE  IndInv' /\ UNCHANGED <<row, user, attached>>
  <2>1. /\ HasRow(i) /\ Begin(j, "delete_row", i, row[i], row[i])
        /\ UNCHANGED <<db, minio, drawn, faults>>
    BY <1>6 DEF DeleteIAMByID
  <2>2. row[i] \in Credentials /\ i \in drawn
    BY <1>2, <2>1
  <2>3. QED
    BY <1>1, <1>3, <1>5, <2>1, <2>2
<1>7. ASSUME NEW i \in Ids, NEW c \in Credentials, UpdateIAMCredentials(j, i, c)
      PROVE  IndInv' /\ UNCHANGED <<row, user, attached>>
  <2>1. /\ HasRow(i) /\ Begin(j, "remove_old", i, row[i], c)
        /\ UNCHANGED <<db, minio, drawn, faults>>
        /\ c.key # row[i].key => ~KeyTaken(c.key)
    BY <1>7 DEF UpdateIAMCredentials
  <2>2. row[i] \in Credentials /\ i \in drawn
    BY <1>2, <2>1
  <2>3. ~MayOverlap => \A h \in Ids \ {i} : HasRow(h) => row[h].key \notin {row[i].key, c.key}
    BY <1>5, <2>1 DEF KeyTaken
  <2>4. QED
    BY <1>1, <1>3, <2>1, <2>2, <2>3
<1>8. QED
  BY <1>4, <1>6, <1>7 DEF Request

----------------------------------------------------------------------------
(* Types, and what is done to other ids. *)

LEMMA InitInd == Init => IndInv
<1> SUFFICES ASSUME Init
             PROVE  IndInv
  OBVIOUS
<1>1. NoJob \in JobRecord /\ NoJob.place = "idle"
  BY PlaceMembers DEF NoJob, JobRecord
<1>2. TypeOK
  BY <1>1 DEF Init, TypeOK, JobRecord
<1>3. \A j \in Jobs : At(j, "idle")
  BY <1>1 DEF Init, At
<1>4. \A i \in Ids : ~HasRow(i)
  BY DEF Init, HasRow
<1>5. QED
  BY <1>2, <1>3, <1>4 DEF IndInv, JobInv, ApartInv

LEMMA IndStep == IndInv /\ [Next]_vars => IndInv'
<1> SUFFICES ASSUME IndInv, [Next]_vars
             PROVE  IndInv'
  OBVIOUS
<1>1. CASE UNCHANGED vars
  BY <1>1 DEF vars, IndInv, TypeOK, JobInv, ApartInv, OwnKeys, Apart, At, HasRow, KeysOf
<1>2. ASSUME NEW j \in Jobs, Request(j)
      PROVE  IndInv'
  BY <1>2, RequestInv
<1>3. ASSUME NEW j \in Jobs, JobStep(j)
      PROVE  IndInv'
  BY <1>3, StepEffect, EffectInv DEF IndInv
<1>4. QED
  BY <1>1, <1>2, <1>3 DEF Next, JobStep

(* The inductive invariant holds in every reachable state: jobs know their *)
(* ids and credentials, and, when no two may begin on one id or key, each  *)
(* keeps to the keys it began with.                                        *)
THEOREM IndInvariant == Spec => []IndInv
BY InitInd, IndStep, PTL DEF Spec

(* Type correctness of the rows, of MinIO's users, policies and            *)
(* attachments, and of the jobs of iam.go and policy.go.                   *)
THEOREM TypeCorrect == Spec => []TypeOK
<1>1. IndInv => TypeOK
  BY DEF IndInv
<1>2. QED
  BY <1>1, IndInvariant, PTL

(* Whatever fails on the way, a creation, deletion, change or renaming for *)
(* one id leaves the row, the user and the attachment of another alone.    *)
THEOREM OthersAreUntouched == Spec => OthersUntouched
<1>1. IndInv /\ [Next]_vars =>
        [\A i \in Ids :
           (~MayOverlap /\ HasRow(i) /\ Settled(i) /\ Settled(i)') =>
             LET k == row[i].key IN
               row'[i] = row[i] /\ user'[k] = user[k] /\ attached'[k] = attached[k]]_vars
  <2> SUFFICES ASSUME IndInv, Next, NEW i \in Ids,
                      ~MayOverlap, HasRow(i), Settled(i)
               PROVE  LET k == row[i].key IN
                        row'[i] = row[i] /\ user'[k] = user[k] /\ attached'[k] = attached[k]
    OBVIOUS
  <2> DEFINE k == row[i].key
  <2>1. CASE \E j \in Jobs : Request(j)
    BY <2>1, RequestInv
  <2>2. ASSUME NEW j \in Jobs, JobStep(j)
        PROVE  row'[i] = row[i] /\ user'[k] = user[k] /\ attached'[k] = attached[k]
    <3>1. TypeOK /\ JobInv(j) /\ Effect(j) /\ ~At(j, "idle")
      BY <2>2, StepEffect DEF IndInv, Effect
    <3>2. i # job[j].id
      BY <3>1 DEF Settled
    <3>3. row'[i] = row[i]
      BY <3>1, <3>2, RowsAfter
    <3>4. row[i] \in Credentials
      BY <3>1 DEF TypeOK, HasRow
    <3>5. k \in Keys
      BY <3>4, CredentialKeys
    <3>6. k \notin KeysOf(j) \cup {job[j].target}
      <4>1. OwnKeys(j)
        BY <3>1 DEF IndInv, ApartInv
      <4>2. k \notin KeysOf(j)
        BY <3>2, <4>1 DEF OwnKeys
      <4>3. QED
        BY <3>5, <4>1, <4>2, NoneAssumption DEF OwnKeys
    <3>7. QED
      BY <3>1, <3>3, <3>5, <3>6 DEF Effect, MinioGoesOn
  <2>3. QED
    BY <2>1, <2>2 DEF Next, JobStep
<1>2. QED
  BY <1>1, IndInvariant, PTL DEF Spec, OthersUntouched

----------------------------------------------------------------------------
(* Below: what holds by the place of a job.  First, how a job moves, and   *)
(* what its step leaves alone.                                             *)

Moves(j, p) ==
  /\ job'[j].place = p
  /\ p # "idle" =>
       /\ job'[j].id = job[j].id /\ job'[j].target = job[j].target
       /\ job'[j].old = job[j].old /\ job'[j].new = job[j].new

LEMMA GoMoves ==
  ASSUME TypeOK, NEW j \in Jobs, NEW p, Go(j, p)
  PROVE  Moves(j, p)
<1>1. job \in [Jobs -> JobRecord] /\ NoJob.place = "idle"
  BY DEF TypeOK, JobRecord, NoJob
<1>2. DEFINE r == [job[j] EXCEPT !.place = p]
<1>3. job[j] \in JobRecord
  BY <1>1
<1>4. r.place = p /\ r.id = job[j].id /\ r.old = job[j].old /\ r.new = job[j].new
      /\ r.target = job[j].target
  BY <1>3 DEF JobRecord
<1>5. job'[j] = IF p = "idle" THEN NoJob ELSE r
  BY <1>1 DEF Go
<1> HIDE DEF r
<1>6. QED
  BY <1>1, <1>4, <1>5 DEF Moves

(* A job that notes its target, or drops it. *)
LEMMA TargetMoves ==
  ASSUME TypeOK, NEW j \in Jobs, NEW p, NEW k,
         job' = [job EXCEPT ![j].place = p, ![j].target = k]
  PROVE  /\ job'[j].place = p /\ job'[j].target = k
         /\ job'[j].id = job[j].id
         /\ job'[j].old = job[j].old /\ job'[j].new = job[j].new
<1>1. job \in [Jobs -> JobRecord]
  BY DEF TypeOK, JobRecord
<1>2. DEFINE r == [job[j] EXCEPT !.place = p, !.target = k]
<1>3. job[j] \in JobRecord
  BY <1>1
<1>4. r.place = p /\ r.id = job[j].id /\ r.old = job[j].old /\ r.new = job[j].new
      /\ r.target = k
  BY <1>3 DEF JobRecord
<1>5. job'[j] = r
  BY <1>1
<1> HIDE DEF r
<1>6. QED
  BY <1>4, <1>5

LEMMA FindMoves ==
  ASSUME TypeOK, NEW j \in Jobs, FindUser(j)
  PROVE  /\ job'[j].place \in {"attach_new", "undo_delete"}
         /\ job'[j].id = job[j].id
         /\ job'[j].old = job[j].old /\ job'[j].new = job[j].new
<1>1. CASE Go(j, "undo_delete")
  BY <1>1, GoMoves DEF Moves
<1>2. CASE job' = [job EXCEPT ![j].place = "attach_new",
                              ![j].target = row[job[j].id].key]
  <2>1. DEFINE k == row[job[j].id].key
  <2>2. job \in [Jobs -> JobRecord]
    BY DEF TypeOK, JobRecord
  <2>3. DEFINE r == [job[j] EXCEPT !.place = "attach_new", !.target = k]
  <2>4. job[j] \in JobRecord
    BY <2>2
  <2>5. r.place = "attach_new" /\ r.id = job[j].id /\ r.old = job[j].old
        /\ r.new = job[j].new
    BY <2>4 DEF JobRecord
  <2>6. job'[j] = r
    BY <1>2, <2>2
  <2> HIDE DEF r
  <2>7. QED
    BY <2>5, <2>6
<1>3. QED
  BY <1>1, <1>2 DEF FindUser

LEMMA DropMoves ==
  ASSUME TypeOK, NEW j \in Jobs,
         job' = [job EXCEPT ![j].place = "queued", ![j].target = None]
  PROVE  /\ job'[j].place = "queued" /\ job'[j].target = None
         /\ job'[j].id = job[j].id
         /\ job'[j].old = job[j].old /\ job'[j].new = job[j].new
<1>1. job \in [Jobs -> JobRecord]
  BY DEF TypeOK, JobRecord
<1>2. DEFINE r == [job[j] EXCEPT !.place = "queued", !.target = None]
<1>3. job[j] \in JobRecord
  BY <1>1
<1>4. r.place = "queued" /\ r.id = job[j].id /\ r.old = job[j].old
      /\ r.new = job[j].new /\ r.target = None
  BY <1>3 DEF JobRecord
<1>5. job'[j] = r
  BY <1>1
<1> HIDE DEF r
<1>6. QED
  BY <1>4, <1>5

(* The step of one job, seen by another that is apart from it. *)
LEMMA OtherJob ==
  ASSUME IndInv, ~MayOverlap, NEW j \in Jobs, Effect(j),
         NEW h \in Jobs \ {j}, ~At(h, "idle")
  PROVE  /\ job'[h] = job[h] /\ job[h].id \in Ids /\ KeysOf(h) \subseteq Keys
         /\ job[h].id # job[j].id
         /\ row'[job[h].id] = row[job[h].id]
         /\ \A k \in KeysOf(h) :
              user'[k] = user[k] /\ attached'[k] = attached[k] /\ policy'[k] = policy[k]
<1>1. TypeOK /\ JobInv(j) /\ JobInv(h) /\ ~At(j, "idle") /\ ApartInv
  BY DEF IndInv, Effect
<1>2. job[h].id \in Ids /\ KeysOf(h) \subseteq Keys
  BY <1>1, InHand DEF KeysOf
<1>3. job[h].id # job[j].id /\ KeysOf(h) \cap KeysOf(j) = {}
  BY <1>1 DEF ApartInv, Apart
<1>4. job[j].target \in KeysOf(j) \cup {None}
  BY <1>1 DEF ApartInv, OwnKeys
<1>5. \A k \in KeysOf(h) : k \in Keys \ (KeysOf(j) \cup {job[j].target})
  BY <1>2, <1>3, <1>4, NoneAssumption
<1>6. QED
  BY <1>1, <1>2, <1>3, <1>5, RowsAfter DEF Effect, JobGoesOn, MinioGoesOn

(* The step of a job, seen from the row of another id. *)
LEMMA OtherRow ==
  ASSUME IndInv, ~MayOverlap, NEW j \in Jobs, Effect(j),
         NEW i \in Ids, i # job[j].id
  PROVE  /\ row'[i] = row[i]
         /\ Settled(i)' => Settled(i)
         /\ HasRow(i) =>
              LET k == row[i].key IN
                /\ k \in Keys \ KeysOf(j)
                /\ user'[k] = user[k] /\ attached'[k] = attached[k]
                /\ policy'[k] = policy[k]
<1>1. TypeOK /\ JobInv(j) /\ ~At(j, "idle") /\ ApartInv
  BY DEF IndInv, Effect
<1>2. row'[i] = row[i]
  BY <1>1, RowsAfter
<1>3. Settled(i)' => Settled(i)
  BY DEF Settled, At, Effect, JobGoesOn
<1>4. HasRow(i) => row[i].key \in Keys
  BY <1>1 DEF TypeOK, HasRow, Credentials
<1>5. HasRow(i) => row[i].key \notin KeysOf(j) \cup {job[j].target}
  BY <1>1, <1>4, NoneAssumption DEF ApartInv, OwnKeys
<1>6. QED
  BY <1>2, <1>3, <1>4, <1>5 DEF Effect, MinioGoesOn

(* The step of a job, seen from a key that is not its own. *)
LEMMA OtherKey ==
  ASSUME IndInv, ~MayOverlap, NEW j \in Jobs, Effect(j), NEW k \in Keys \ KeysOf(j)
  PROVE  /\ user'[k] = user[k] /\ attached'[k] = attached[k] /\ policy'[k] = policy[k]
         /\ Busy(k) => Busy(k)'
         /\ \A i \in Ids : row[i].key = k => row'[i].key = k
<1>1. TypeOK /\ JobInv(j) /\ ~At(j, "idle") /\ ApartInv
  BY DEF IndInv, Effect
<1>2. k # job[j].target
  BY <1>1, NoneAssumption DEF ApartInv, OwnKeys
<1>3. Busy(k) => Busy(k)'
  BY DEF Busy, At, KeysOf, Effect, JobGoesOn
<1>4. ASSUME NEW i \in Ids, row[i].key = k
      PROVE  row'[i].key = k
  <2>1. HasRow(i)
    BY <1>4, NoneAssumption DEF HasRow, NoCredentials
  <2>2. i # job[j].id
    BY <1>1, <1>4, <2>1 DEF ApartInv, OwnKeys
  <2>3. QED
    BY <1>1, <1>4, <2>2, RowsAfter
<1>5. QED
  BY <1>2, <1>3, <1>4 DEF Effect, MinioGoesOn

----------------------------------------------------------------------------
(* The row of a job's id, and what its handler holds. *)

LEMMA PlacedOther ==
  ASSUME IndInv, ~MayOverlap, NEW j \in Jobs, Effect(j),
         NEW h \in Jobs \ {j}, ~At(h, "idle"), RowPlaced(h)
  PROVE  RowPlaced(h)'
BY OtherJob DEF RowPlaced

LEMMA PlacedCreate ==
  ASSUME IndInv, ~MayOverlap, NEW j \in Jobs, RowPlaced(j),
         \/ CreatePolicy(j) \/ CreateUser(j) \/ AttachPolicy(j) \/ InsertUser(j)
         \/ InsertPolicy(j) \/ UndoRow(j) \/ UndoUser(j) \/ UndoPolicy(j),
         job'[j].place # "idle"
  PROVE  RowPlaced(j)'
<1> USE GoMoves DEF Moves, RowPlaced, CreatePlace, DeletePlace, ConsumerPlace, At
<1>1. TypeOK /\ JobInv(j)
  BY DEF IndInv
<1>2. CASE CreatePolicy(j)
  BY <1>1, <1>2 DEF CreatePolicy, Call, db
<1>3. CASE CreateUser(j)
  BY <1>1, <1>3 DEF CreateUser, Call, db
<1>4. CASE AttachPolicy(j)
  BY <1>1, <1>4 DEF AttachPolicy, Call, db
<1>5. CASE InsertUser(j)
  BY <1>1, <1>5, InHand DEF InsertUser, TypeOK
<1>6. CASE InsertPolicy(j)
  BY <1>1, <1>6 DEF InsertPolicy
<1>7. CASE UndoRow(j) \/ UndoUser(j) \/ UndoPolicy(j)
  BY <1>1, <1>7 DEF UndoRow, UndoUser, UndoPolicy, Undo
<1>8. QED
  BY <1>2, <1>3, <1>4, <1>5, <1>6, <1>7

LEMMA PlacedUpdate ==
  ASSUME IndInv, ~MayOverlap, NEW j \in Jobs, RowPlaced(j),
         \/ DeleteUserRow(j) \/ RemoveDeletedUser(j) \/ RemoveOldUser(j)
         \/ CreateNewUser(j) \/ RestoreOldUser(j) \/ SaveUser(j) \/ UndoNewUser(j)
         \/ UndoOldUser(j) \/ PublishUpdatePolicy(j),
         job'[j].place # "idle"
  PROVE  RowPlaced(j)'
<1> USE GoMoves DEF Moves, RowPlaced, CreatePlace, DeletePlace, ConsumerPlace, At
<1>1. TypeOK /\ JobInv(j)
  BY DEF IndInv
<1>2. CASE DeleteUserRow(j)
  BY <1>1, <1>2, InHand DEF DeleteUserRow, DeleteRow, TypeOK
<1>3. CASE RemoveOldUser(j)
  BY <1>1, <1>3 DEF RemoveOldUser, Call, RemoveMissing, db
<1>4. CASE CreateNewUser(j)
  BY <1>1, <1>4 DEF CreateNewUser, Call, db
<1>5. CASE SaveUser(j)
  BY <1>1, <1>5, InHand DEF SaveUser, TypeOK
<1>6. CASE PublishUpdatePolicy(j)
  BY <1>1, <1>6 DEF PublishUpdatePolicy, db
<1>7. CASE RemoveDeletedUser(j) \/ RestoreOldUser(j) \/ UndoNewUser(j) \/ UndoOldUser(j)
  BY <1>1, <1>7 DEF RemoveDeletedUser, RestoreOldUser, UndoNewUser, UndoOldUser, Undo
<1>8. QED
  BY <1>2, <1>3, <1>4, <1>5, <1>6, <1>7

LEMMA PlacedConsumer ==
  ASSUME IndInv, ~MayOverlap, NEW j \in Jobs, RowPlaced(j),
         ConsumerStep(j) \/ HttpCrash(j) \/ ConsumerCrash(j),
         job'[j].place # "idle"
  PROVE  RowPlaced(j)'
<1> USE GoMoves, TargetMoves
    DEF Moves, RowPlaced, CreatePlace, DeletePlace, ConsumerPlace, At
<1>1. TypeOK /\ JobInv(j)
  BY DEF IndInv
<1>2. CASE DeliverUpdatePolicy(j)
  BY <1>1, <1>2 DEF DeliverUpdatePolicy, db
<1>3. CASE DeleteOldPolicy(j)
  BY <1>1, <1>3 DEF DeleteOldPolicy, Call, RemoveMissing, db
<1>4. CASE CreateNewPolicy(j)
  BY <1>1, <1>4 DEF CreateNewPolicy, Call, db
<1>5. CASE FindUser(j)
  BY <1>1, <1>5 DEF FindUser, db
<1>6. CASE AttachNewPolicy(j)
  BY <1>1, <1>6 DEF AttachNewPolicy, Call, db
<1>7. CASE UndoDeletePolicy(j)
  BY <1>1, <1>7 DEF UndoDeletePolicy, Undo, db
<1>8. CASE UndoAddPolicy(j)
  BY <1>1, <1>8 DEF UndoAddPolicy, Undo, db
<1>9. CASE UndoAttach(j)
  <2>1. job'[j].place = "queued" /\ job'[j].id = job[j].id /\ job'[j].target = None
        /\ job'[j].old = job[j].old /\ job'[j].new = job[j].new
    BY <1>1, <1>9, DropMoves DEF UndoAttach
  <2>2. At(j, "undo_attach") /\ UNCHANGED row
    BY <1>9 DEF UndoAttach, db
  <2>3. QED
    BY <2>1, <2>2
<1>10. CASE AckUpdatePolicy(j) \/ HttpCrash(j)
  BY <1>1, <1>10 DEF AckUpdatePolicy, HttpCrash
<1>11. CASE ConsumerCrash(j)
  <2>1. job'[j].place = "queued" /\ job'[j].id = job[j].id /\ job'[j].target = None
        /\ job'[j].old = job[j].old /\ job'[j].new = job[j].new
    BY <1>1, <1>11, DropMoves DEF ConsumerCrash
  <2>2. job[j].place \in ConsumerPlace /\ UNCHANGED row
    BY <1>11 DEF ConsumerCrash, db
  <2>3. QED
    BY <2>1, <2>2
<1>12. QED
  BY <1>2, <1>3, <1>4, <1>5, <1>6, <1>7, <1>8, <1>9, <1>10, <1>11 DEF ConsumerStep

(* How a request leaves its job, and the other jobs and the stores alone.  *)
Begun(j, p, i, old, new) ==
  /\ i \in Ids /\ old \in Credentials /\ new \in Credentials
  /\ ~MayOverlap => Settled(i) /\ ~Busy(old.key) /\ ~Busy(new.key)
  /\ At(j, "idle")
  /\ job'[j].place = p /\ job'[j].id = i /\ job'[j].target = None
  /\ job'[j].old = old /\ job'[j].new = new
  /\ \A h \in Jobs \ {j} : job'[h] = job[h]
  /\ UNCHANGED <<row, policyRow, user, policy, attached, faults>>

(* What the handlers have found when they begin. *)
Checked(p, i, old, new) ==
  \/ p = "create_policy" /\ ~HasRow(i) /\ ~KeyTaken(new.key) /\ old = new
  \/ p = "delete_row" /\ HasRow(i) /\ old = row[i] /\ new = row[i]
  \/ /\ p = "remove_old" /\ HasRow(i) /\ old = row[i]
     /\ new.key # old.key => ~KeyTaken(new.key)

LEMMA Beginning ==
  ASSUME IndInv, NEW j \in Jobs, Request(j)
  PROVE  \E p \in Place, i \in Ids, old \in Credentials, new \in Credentials :
           Begun(j, p, i, old, new) /\ Checked(p, i, old, new)
<1> USE PlaceMembers
<1>1. ASSUME NEW p \in Place, p # "idle", NEW i \in Ids,
             NEW old \in Credentials, NEW new \in Credentials,
             Begin(j, p, i, old, new), UNCHANGED <<db, minio, faults>>
      PROVE  Begun(j, p, i, old, new)
  <2>1. /\ \A h \in Jobs \ {j} : job'[h] = job[h]
        /\ job'[j] = [place |-> p, id |-> i, old |-> old, new |-> new, target |-> None]
    BY <1>1, BeginJobs DEF IndInv
  <2>2. At(j, "idle") /\ (~MayOverlap => Apart(j, i, {old.key, new.key}))
    BY <1>1 DEF Begin
  <2>3. ~MayOverlap => Settled(i) /\ ~Busy(old.key) /\ ~Busy(new.key)
    BY <2>2 DEF Apart, Settled, Busy
  <2>4. QED
    BY <1>1, <2>1, <2>2, <2>3 DEF Begun, db, minio
<1>2. \A h \in Ids : HasRow(h) => row[h] \in Credentials /\ h \in drawn
  BY DEF IndInv, TypeOK, HasRow
<1>3. ASSUME NEW i \in Ids, DeleteIAMByID(j, i)
      PROVE  row[i] \in Credentials /\ Begun(j, "delete_row", i, row[i], row[i])
             /\ Checked("delete_row", i, row[i], row[i])
  BY <1>1, <1>2, <1>3 DEF DeleteIAMByID, Checked
<1>4. ASSUME NEW i \in Ids, NEW c \in Credentials, CreateIAM(j, i, c)
      PROVE  Begun(j, "create_policy", i, c, c) /\ Checked("create_policy", i, c, c)
  BY <1>1, <1>2, <1>4 DEF CreateIAM, Checked
<1>5. ASSUME NEW i \in Ids, NEW c \in Credentials, UpdateIAMCredentials(j, i, c)
      PROVE  row[i] \in Credentials /\ Begun(j, "remove_old", i, row[i], c)
             /\ Checked("remove_old", i, row[i], c)
  BY <1>1, <1>2, <1>5 DEF UpdateIAMCredentials, Checked
<1>6. PICK i \in Ids : \/ DeleteIAMByID(j, i)
                       \/ \E c \in Credentials :
                            CreateIAM(j, i, c) \/ UpdateIAMCredentials(j, i, c)
  BY DEF Request
<1>7. CASE DeleteIAMByID(j, i)
  BY <1>3, <1>7
<1>8. CASE \E c \in Credentials : CreateIAM(j, i, c)
  BY <1>4, <1>8
<1>9. CASE \E c \in Credentials : UpdateIAMCredentials(j, i, c)
  BY <1>5, <1>9
<1>10. QED
  BY <1>6, <1>7, <1>8, <1>9

(* The invariant is kept, by the jobs that do not move and the one that does. *)
LEMMA PlacedKept == IndInv /\ PlacedInv /\ [Next]_vars => PlacedInv'
<1> SUFFICES ASSUME IndInv, PlacedInv, [Next]_vars, ~MayOverlap,
                    NEW h \in Jobs, job'[h].place # "idle"
             PROVE  RowPlaced(h)'
  BY DEF PlacedInv, At
<1>1. CASE UNCHANGED vars
  BY <1>1 DEF vars, PlacedInv, RowPlaced, At
<1>2. ASSUME NEW j \in Jobs, Request(j)
      PROVE  RowPlaced(h)'
  <2>1. CASE h = j
    BY <1>2, <2>1, Beginning
    DEF Begun, Checked, RowPlaced, HasRow, CreatePlace, DeletePlace, ConsumerPlace
  <2>2. CASE h # j
    BY <1>2, <2>2, Beginning DEF Begun, PlacedInv, RowPlaced, At
  <2>3. QED
    BY <2>1, <2>2
<1>3. ASSUME NEW j \in Jobs, JobStep(j)
      PROVE  RowPlaced(h)'
  <2>1. Effect(j) /\ ~At(j, "idle")
    BY <1>3, StepEffect DEF IndInv, Effect
  <2>2. RowPlaced(j)
    BY <2>1 DEF PlacedInv
  <2>3. CASE h = j
    BY <1>3, <2>2, <2>3, PlacedCreate, PlacedUpdate, PlacedConsumer DEF JobStep, HttpStep
  <2>4. CASE h # j
    <3>1. ~At(h, "idle")
      BY <2>1, <2>4 DEF Effect, JobGoesOn, At
    <3>2. QED
      BY <2>1, <2>4, <3>1, PlacedOther DEF PlacedInv
  <2>5. QED
    BY <2>3, <2>4
<1>4. QED
  BY <1>1, <1>2, <1>3 DEF Next, JobStep

LEMMA PlacedInvariant == Spec => []PlacedInv
<1>1. Init => PlacedInv
  BY DEF Init, PlacedInv, At, NoJob
<1>2. QED
  BY <1>1, PlacedKept, IndInvariant, PTL DEF Spec

----------------------------------------------------------------------------
(* The credentials of the rows log in. *)

(* The job has gone on as its place asks, or ended with credentials that log in. *)
WorkedOut(j, i) ==
  IF job'[j].place = "idle" THEN (HasRow(i) => LogsIn(i))' ELSE UserPlaced(j)'

LEMMA WorkCreate ==
  ASSUME IndInv, ~MayOverlap, NEW j \in Jobs, NEW i \in Ids, i = job[j].id,
         RowPlaced(j), UserPlaced(j), ~Fault("reply"), ~Fault("undo"),
         \/ CreatePolicy(j) \/ CreateUser(j) \/ AttachPolicy(j) \/ InsertUser(j)
         \/ InsertPolicy(j) \/ UndoRow(j) \/ UndoUser(j) \/ UndoPolicy(j)
  PROVE  WorkedOut(j, i)
<1> USE GoMoves
    DEF Moves, RowPlaced, UserPlaced, WorkedOut, LogsIn, HasRow, CreatePlace,
        DeletePlace, ConsumerPlace, At
<1>1. TypeOK /\ job[j].new \in Credentials
  BY InHand DEF IndInv, CreatePolicy, CreateUser, AttachPolicy, InsertUser,
                InsertPolicy, UndoRow, UndoUser, UndoPolicy
<1>2. CASE CreatePolicy(j)
  BY <1>1, <1>2 DEF CreatePolicy, Call, db
<1>3. CASE CreateUser(j)
  BY <1>1, <1>3, CredentialKeys DEF CreateUser, Call, db, AddUser, TypeOK
<1>4. CASE AttachPolicy(j)
  BY <1>1, <1>4 DEF AttachPolicy, Call, db, SetPolicy
<1>5. CASE InsertUser(j)
  BY <1>1, <1>5 DEF InsertUser, TypeOK, minio
<1>6. CASE InsertPolicy(j)
  BY <1>1, <1>6 DEF InsertPolicy, minio
<1>7. CASE UndoRow(j)
  BY <1>1, <1>7 DEF UndoRow, DeleteRow, TypeOK
<1>8. CASE UndoUser(j) \/ UndoPolicy(j)
  BY <1>1, <1>8 DEF UndoUser, UndoPolicy, Undo, db
<1>9. QED
  BY <1>2, <1>3, <1>4, <1>5, <1>6, <1>7, <1>8

LEMMA WorkUpdate ==
  ASSUME IndInv, ~MayOverlap, NEW j \in Jobs, NEW i \in Ids, i = job[j].id,
         RowPlaced(j), UserPlaced(j), ~Fault("save"), ~Fault("reply"), ~Fault("undo"),
         \/ DeleteUserRow(j) \/ RemoveDeletedUser(j) \/ RemoveOldUser(j)
         \/ CreateNewUser(j) \/ RestoreOldUser(j) \/ SaveUser(j) \/ UndoNewUser(j)
         \/ UndoOldUser(j) \/ PublishUpdatePolicy(j)
  PROVE  WorkedOut(j, i)
<1> USE GoMoves
    DEF Moves, RowPlaced, UserPlaced, WorkedOut, LogsIn, HasRow, CreatePlace,
        DeletePlace, ConsumerPlace, At
<1>1. TypeOK /\ job[j].old \in Credentials /\ job[j].new \in Credentials
  BY InHand DEF IndInv, DeleteUserRow, RemoveDeletedUser, RemoveOldUser, CreateNewUser,
                RestoreOldUser, SaveUser, UndoNewUser, UndoOldUser, PublishUpdatePolicy
<1>2. CASE DeleteUserRow(j)
  BY <1>1, <1>2 DEF DeleteUserRow, DeleteRow, TypeOK, minio, db
<1>3. CASE RemoveOldUser(j)
  <2>1. user[job[j].old.key] # None
    BY <1>1, <1>3, NoneAssumption DEF RemoveOldUser, Credentials
  <2>2. QED
    BY <1>1, <1>3, <2>1 DEF RemoveOldUser, Call, db, minio
<1>4. CASE CreateNewUser(j)
  BY <1>1, <1>4, CredentialKeys DEF CreateNewUser, Call, db, AddUser, TypeOK
<1>5. CASE RestoreOldUser(j)
  BY <1>1, <1>5, CredentialKeys DEF RestoreOldUser, Undo, db, AddUser, TypeOK
<1>6. CASE SaveUser(j)
  <2>1. ~KeyTakenByOther(i, job[j].new.key)
    <3>1. OwnKeys(j)
      BY <1>6 DEF IndInv, ApartInv, SaveUser
    <3>2. \A h \in Ids \ {i} : row[h].key # job[j].new.key
      BY <1>1, <3>1, CredentialKeys, NoneAssumption DEF OwnKeys, KeysOf, NoCredentials
    <3>3. QED
      BY <3>2 DEF KeyTakenByOther
  <2>2. row' = [row EXCEPT ![i] = job[j].new] /\ Go(j, "publish") /\ UNCHANGED minio
    BY <1>6, <2>1 DEF SaveUser
  <2>3. QED
    BY <1>1, <1>6, <2>2 DEF SaveUser, TypeOK, minio
<1>7. CASE PublishUpdatePolicy(j)
  BY <1>1, <1>7 DEF PublishUpdatePolicy, db, minio
<1>8. CASE RemoveDeletedUser(j) \/ UndoNewUser(j) \/ UndoOldUser(j)
  BY <1>1, <1>8 DEF RemoveDeletedUser, UndoNewUser, UndoOldUser, db
<1>9. QED
  BY <1>2, <1>3, <1>4, <1>5, <1>6, <1>7, <1>8

(* The consumer changes neither row nor user. *)
LEMMA ConsumerKeepsUsers ==
  ASSUME TypeOK, NEW j \in Jobs, ConsumerStep(j) \/ ConsumerCrash(j)
  PROVE  /\ UNCHANGED <<db, user>>
         /\ job[j].place \in {"queued"} \cup ConsumerPlace
         /\ job'[j].place \in {"idle", "queued"} \cup ConsumerPlace
         /\ job'[j].place = "idle" => job[j].place = "ack"
         /\ job'[j].place # "idle" =>
              job'[j].id = job[j].id /\ job'[j].old = job[j].old /\ job'[j].new = job[j].new
<1> USE GoMoves DEF Moves, ConsumerPlace, At, minio
<1>1. CASE DeliverUpdatePolicy(j)
  BY <1>1 DEF DeliverUpdatePolicy
<1>2. CASE DeleteOldPolicy(j)
  BY <1>2 DEF DeleteOldPolicy, Call, RemoveMissing, RemoveCannedPolicy
<1>3. CASE CreateNewPolicy(j)
  BY <1>3 DEF CreateNewPolicy, Call, AddCannedPolicy
<1>4. CASE FindUser(j)
  BY <1>4, FindMoves DEF FindUser
<1>5. CASE AttachNewPolicy(j)
  BY <1>5 DEF AttachNewPolicy, Call, SetPolicy
<1>6. CASE UndoDeletePolicy(j)
  BY <1>6 DEF UndoDeletePolicy, Undo, RemoveCannedPolicy
<1>7. CASE UndoAddPolicy(j)
  BY <1>7 DEF UndoAddPolicy, Undo, AddCannedPolicy
<1>8. CASE UndoAttach(j)
  BY <1>8, DropMoves DEF UndoAttach, SetPolicy
<1>9. CASE AckUpdatePolicy(j)
  BY <1>9 DEF AckUpdatePolicy
<1>10. CASE ConsumerCrash(j)
  BY <1>10, DropMoves DEF ConsumerCrash
<1>11. QED
  BY <1>1, <1>2, <1>3, <1>4, <1>5, <1>6, <1>7, <1>8, <1>9, <1>10 DEF ConsumerStep

LEMMA WorkConsumer ==
  ASSUME IndInv, NEW j \in Jobs, NEW i \in Ids, i = job[j].id, UserPlaced(j),
         ConsumerStep(j) \/ ConsumerCrash(j)
  PROVE  WorkedOut(j, i)
<1>1. /\ UNCHANGED <<db, user>>
      /\ job[j].place \in {"queued"} \cup ConsumerPlace
      /\ job'[j].place \in {"idle", "queued"} \cup ConsumerPlace
      /\ job'[j].place # "idle" => job'[j].id = i
  BY ConsumerKeepsUsers DEF IndInv
<1>2. LogsIn(i) /\ LogsIn(i)'
  BY <1>1 DEF UserPlaced, LogsIn, db
<1>3. job'[j].place # "idle" => UserPlaced(j)'
  BY <1>1, <1>2 DEF UserPlaced, LogsIn, ConsumerPlace
<1>4. QED
  BY <1>2, <1>3 DEF WorkedOut

LEMMA WorkOther ==
  ASSUME IndInv, ~MayOverlap, NEW j \in Jobs, Effect(j),
         NEW h \in Jobs \ {j}, ~At(h, "idle"), RowPlaced(h), UserPlaced(h)
  PROVE  UserPlaced(h)'
<1>1. job[h].old.key \in KeysOf(h) /\ job[h].new.key \in KeysOf(h)
  BY DEF KeysOf
<1>2. QED
  BY <1>1, OtherJob DEF RowPlaced, UserPlaced, LogsIn, HasRow

(* Faults are never taken back. *)
LEMMA HistoryGrows ==
  ASSUME IndInv, [Next]_vars
  PROVE  faults \subseteq faults'
<1> USE DEF NoFault, Fault
<1>1. CASE UNCHANGED vars
  BY <1>1 DEF vars
<1>2. ASSUME NEW j \in Jobs, Request(j)
      PROVE  faults \subseteq faults'
  BY <1>2, Beginning DEF Begun
<1>3. ASSUME NEW j \in Jobs, HttpStep(j)
      PROVE  faults \subseteq faults'
  BY <1>3 DEF HttpStep, CreatePolicy, CreateUser, AttachPolicy, InsertUser, InsertPolicy,
     UndoRow, UndoUser, UndoPolicy, DeleteUserRow, RemoveDeletedUser, RemoveOldUser,
     CreateNewUser, RestoreOldUser, SaveUser, UndoNewUser, UndoOldUser,
     PublishUpdatePolicy, Call, RemoveMissing, Undo
<1>4. ASSUME NEW j \in Jobs, ConsumerStep(j) \/ HttpCrash(j) \/ ConsumerCrash(j)
      PROVE  faults \subseteq faults'
  BY <1>4 DEF ConsumerStep, DeliverUpdatePolicy, DeleteOldPolicy, CreateNewPolicy,
     FindUser, AttachNewPolicy, UndoDeletePolicy, UndoAddPolicy, UndoAttach,
     AckUpdatePolicy, HttpCrash, ConsumerCrash, Call, RemoveMissing, Undo
<1>5. QED
  BY <1>1, <1>2, <1>3, <1>4 DEF Next

(* What did not happen until after a step, did not happen in it or before. *)
LEMMA NothingMissed ==
  ASSUME IndInv, [Next]_vars, NEW kinds, Without(kinds)'
  PROVE  Without(kinds) /\ \A k \in kinds : ~Fault(k)
BY HistoryGrows DEF Without, Fault

LEMMA WorkKept == IndInv /\ PlacedInv /\ WorkInv /\ [Next]_vars => WorkInv'
<1> DEFINE kinds == {"save", "undo", "reply", "crash"}
<1> SUFFICES ASSUME IndInv, PlacedInv, WorkInv, [Next]_vars, Without(kinds)'
             PROVE  /\ \A h \in Jobs : ~At(h, "idle")' => UserPlaced(h)'
                    /\ \A i \in Ids : (HasRow(i)' /\ Settled(i)') => LogsIn(i)'
  BY DEF WorkInv
<1>1. /\ ~MayOverlap /\ Without(kinds)
      /\ ~Fault("save") /\ ~Fault("undo") /\ ~Fault("reply") /\ ~Fault("crash")
  BY NothingMissed DEF Without
<1>2. /\ \A h \in Jobs : ~At(h, "idle") => RowPlaced(h) /\ UserPlaced(h)
      /\ \A i \in Ids : (HasRow(i) /\ Settled(i)) => LogsIn(i)
  BY <1>1 DEF PlacedInv, WorkInv
<1> HIDE DEF kinds
<1>3. CASE UNCHANGED vars
  BY <1>2, <1>3 DEF vars, UserPlaced, LogsIn, HasRow, Settled, At
<1>4. ASSUME NEW j \in Jobs, Request(j)
      PROVE  /\ \A h \in Jobs : ~At(h, "idle")' => UserPlaced(h)'
             /\ \A i \in Ids : (HasRow(i)' /\ Settled(i)') => LogsIn(i)'
  <2>1. PICK p \in Place, i \in Ids, old \in Credentials, new \in Credentials :
          Begun(j, p, i, old, new) /\ Checked(p, i, old, new)
    BY <1>4, Beginning
  <2>2. UserPlaced(j)'
    BY <1>1, <1>2, <2>1 DEF Begun, Checked, UserPlaced, LogsIn, HasRow, ConsumerPlace
  <2>3. ASSUME NEW h \in Jobs \ {j}, ~At(h, "idle")
        PROVE  UserPlaced(h)'
    BY <1>2, <2>1, <2>3 DEF Begun, UserPlaced, LogsIn, HasRow
  <2>4. ASSUME NEW g \in Ids, HasRow(g)', Settled(g)'
        PROVE  LogsIn(g)'
    BY <1>2, <2>1, <2>4 DEF Begun, LogsIn, HasRow, Settled, At
  <2>5. QED
    BY <2>1, <2>2, <2>3, <2>4 DEF Begun, At
<1>5. ASSUME NEW j \in Jobs, JobStep(j)
      PROVE  /\ \A h \in Jobs : ~At(h, "idle")' => UserPlaced(h)'
             /\ \A i \in Ids : (HasRow(i)' /\ Settled(i)') => LogsIn(i)'
  <2>1. Effect(j) /\ ~At(j, "idle") /\ JobInv(j) /\ TypeOK
    BY <1>5, StepEffect DEF IndInv, Effect
  <2>2. PICK d \in Ids : d = job[j].id
    BY <2>1, InHand
  <2>3. WorkedOut(j, d)
    BY <1>1, <1>2, <1>5, <2>1, <2>2, WorkCreate, WorkUpdate, WorkConsumer
    DEF JobStep, HttpStep, HttpCrash
  <2>4. ASSUME NEW h \in Jobs \ {j}, ~At(h, "idle")'
        PROVE  UserPlaced(h)'
    BY <1>1, <1>2, <2>1, <2>4, WorkOther DEF Effect, JobGoesOn, At
  <2>5. ASSUME NEW i \in Ids \ {d}, HasRow(i)', Settled(i)'
        PROVE  LogsIn(i)'
    BY <1>1, <1>2, <2>1, <2>2, <2>5, OtherRow DEF HasRow, LogsIn
  <2>6. ASSUME HasRow(d)', Settled(d)'
        PROVE  LogsIn(d)'
    <3>1. job'[j].place = "idle"
      BY <2>1, <2>2, <2>6 DEF Settled, At, Effect, JobGoesOn
    <3>2. QED
      BY <2>3, <2>6, <3>1 DEF WorkedOut
  <2>7. QED
    BY <2>3, <2>4, <2>5, <2>6 DEF WorkedOut, At
<1>6. QED
  BY <1>3, <1>4, <1>5 DEF Next, JobStep

LEMMA WorkInvariant == Spec => []WorkInv
<1>1. Init => WorkInv
  BY DEF Init, WorkInv, At, NoJob, HasRow
<1>2. QED
  BY <1>1, WorkKept, IndInvariant, PlacedInvariant, PTL DEF Spec

(* Credentials that iam.go handed out log in once nothing is at work on    *)
(* the id, also after a creation, a change or a renaming that failed on    *)
(* the way and was undone.                                                 *)
THEOREM CredentialsDoWork == Spec => []CredentialsWork
<1>1. WorkInv => CredentialsWork
  BY DEF WorkInv, CredentialsWork
<1>2. QED
  BY <1>1, WorkInvariant, PTL

----------------------------------------------------------------------------
(* Nobody is left behind in MinIO. *)

(* The job has gone on as its place asks, or ended with no stray user. *)
StrayOut(j, o, n) ==
  IF job'[j].place = "idle"
  THEN \A k \in {o, n} : (user[k] # None => KeyTaken(k))'
  ELSE StrayPlaced(j)'

(* What the leaves below need: the keys and the row of the job. *)
LEMMA JobKeys ==
  ASSUME IndInv, ~MayOverlap, NEW j \in Jobs, ~At(j, "idle")
  PROVE  /\ TypeOK /\ job[j].id \in Ids
         /\ job[j].old \in Credentials /\ job[j].new \in Credentials
         /\ job[j].old.key \in Keys /\ job[j].new.key \in Keys
         /\ KeysOf(j) = {job[j].old.key, job[j].new.key}
         /\ NoCredentials.key = None /\ None \notin Keys
         /\ \A k \in Keys : row[job[j].id].key = k => KeyTaken(k)
         /\ \A k \in Keys : row'[job[j].id].key = k => KeyTaken(k)'
         /\ ~KeyTakenByOther(job[j].id, job[j].new.key)
<1>1. TypeOK /\ JobInv(j) /\ OwnKeys(j)
  BY DEF IndInv, ApartInv
<1>2. ~KeyTakenByOther(job[j].id, job[j].new.key)
  BY <1>1, InHand, NoneAssumption DEF KeyTakenByOther, OwnKeys, HasRow, NoCredentials
<1>3. QED
  BY <1>1, <1>2, InHand, NoneAssumption DEF KeysOf, KeyTaken, NoCredentials

LEMMA StrayCreate ==
  ASSUME IndInv, ~MayOverlap, NEW j \in Jobs,
         NEW o, NEW n, o = job[j].old.key, n = job[j].new.key,
         RowPlaced(j), UserPlaced(j), StrayPlaced(j), ~Fault("reply"), ~Fault("undo"),
         \/ CreatePolicy(j) \/ CreateUser(j) \/ AttachPolicy(j) \/ InsertUser(j)
         \/ InsertPolicy(j) \/ UndoRow(j) \/ UndoUser(j) \/ UndoPolicy(j)
  PROVE  StrayOut(j, o, n)
<1>1. ~At(j, "idle")
  BY DEF At, CreatePolicy, CreateUser, AttachPolicy, InsertUser, InsertPolicy, UndoRow,
         UndoUser, UndoPolicy
<1> USE GoMoves, JobKeys, <1>1
    DEF Moves, RowPlaced, UserPlaced, StrayPlaced, StrayOut, HasRow, CreatePlace,
        DeletePlace, ConsumerPlace, At, KeysOf
<1>2. CASE CreatePolicy(j)
  BY <1>2 DEF CreatePolicy, Call, db, AddCannedPolicy, minio
<1>3. CASE CreateUser(j)
  BY <1>3 DEF CreateUser, Call, db, minio
<1>4. CASE AttachPolicy(j)
  BY <1>4 DEF AttachPolicy, Call
<1>5. CASE InsertUser(j)
  BY <1>5 DEF InsertUser, TypeOK
<1>6. CASE InsertPolicy(j)
  BY <1>6 DEF InsertPolicy, minio
<1>7. CASE UndoRow(j)
  BY <1>7 DEF UndoRow
<1>8. CASE UndoUser(j)
  BY <1>8 DEF UndoUser, Undo, RemoveUser, TypeOK
<1>9. CASE UndoPolicy(j)
  BY <1>9 DEF UndoPolicy, Undo, RemoveCannedPolicy, minio
<1>10. QED
  BY <1>2, <1>3, <1>4, <1>5, <1>6, <1>7, <1>8, <1>9

LEMMA StrayUpdate ==
  ASSUME IndInv, ~MayOverlap, NEW j \in Jobs,
         NEW o, NEW n, o = job[j].old.key, n = job[j].new.key,
         RowPlaced(j), UserPlaced(j), StrayPlaced(j),
         ~Fault("save"), ~Fault("remove"), ~Fault("reply"), ~Fault("undo"),
         \/ DeleteUserRow(j) \/ RemoveDeletedUser(j) \/ RemoveOldUser(j)
         \/ CreateNewUser(j) \/ RestoreOldUser(j) \/ SaveUser(j) \/ UndoNewUser(j)
         \/ UndoOldUser(j) \/ PublishUpdatePolicy(j)
  PROVE  StrayOut(j, o, n)
<1>1. ~At(j, "idle")
  BY DEF At, DeleteUserRow, RemoveDeletedUser, RemoveOldUser, CreateNewUser,
         RestoreOldUser, SaveUser, UndoNewUser, UndoOldUser, PublishUpdatePolicy
<1> USE GoMoves, JobKeys, <1>1
    DEF Moves, RowPlaced, UserPlaced, StrayPlaced, StrayOut, CreatePlace,
        DeletePlace, ConsumerPlace, At, KeysOf
<1>2. CASE DeleteUserRow(j)
  BY <1>2 DEF DeleteUserRow, db, minio
<1>3. CASE RemoveDeletedUser(j)
  BY <1>3 DEF RemoveDeletedUser, RemoveUser, TypeOK
<1>4. CASE RemoveOldUser(j)
  <2>1. user[o] # None
    BY <1>4, NoneAssumption DEF RemoveOldUser, Credentials, LogsIn
  <2>2. QED
    BY <1>4, <2>1 DEF RemoveOldUser, Call, db, minio, RemoveUser, TypeOK
<1>5. CASE CreateNewUser(j)
  BY <1>5 DEF CreateNewUser, Call, db, minio, AddUser, TypeOK
<1>6. CASE RestoreOldUser(j)
  BY <1>6 DEF RestoreOldUser, Undo, db, AddUser, TypeOK
<1>7. CASE SaveUser(j)
  BY <1>7 DEF SaveUser, minio, TypeOK
<1>8. CASE PublishUpdatePolicy(j)
  BY <1>8 DEF PublishUpdatePolicy, db, minio
<1>9. CASE UndoNewUser(j) \/ UndoOldUser(j)
  BY <1>9 DEF UndoNewUser, UndoOldUser
<1>10. QED
  BY <1>2, <1>3, <1>4, <1>5, <1>6, <1>7, <1>8, <1>9

LEMMA StrayConsumer ==
  ASSUME IndInv, ~MayOverlap, NEW j \in Jobs,
         NEW o, NEW n, o = job[j].old.key, n = job[j].new.key,
         StrayPlaced(j), ConsumerStep(j) \/ ConsumerCrash(j)
  PROVE  StrayOut(j, o, n)
<1>1. /\ UNCHANGED <<row, user>>
      /\ job[j].place \in {"queued"} \cup ConsumerPlace
      /\ job'[j].place \in {"idle", "queued"} \cup ConsumerPlace
      /\ job'[j].place # "idle" =>
           job'[j].id = job[j].id /\ job'[j].old = job[j].old /\ job'[j].new = job[j].new
  BY ConsumerKeepsUsers DEF IndInv, db
<1>2. ~At(j, "idle")
  BY <1>1 DEF At, ConsumerPlace
<1>3. \A k \in {o, n} : user[k] # None => row[job[j].id].key = k
  BY <1>1, <1>2, JobKeys DEF StrayPlaced, ConsumerPlace
<1>4. QED
  BY <1>1, <1>2, <1>3, JobKeys DEF StrayOut, StrayPlaced, ConsumerPlace, KeysOf

LEMMA StrayOther ==
  ASSUME IndInv, ~MayOverlap, NEW j \in Jobs, Effect(j),
         NEW h \in Jobs \ {j}, ~At(h, "idle"), StrayPlaced(h)
  PROVE  StrayPlaced(h)'
<1>1. KeysOf(h)' = KeysOf(h)
  BY OtherJob DEF KeysOf
<1>2. QED
  BY <1>1, OtherJob DEF StrayPlaced

LEMMA StrayKept == IndInv /\ PlacedInv /\ WorkInv /\ StrayInv /\ [Next]_vars => StrayInv'
<1> DEFINE kinds == {"save", "remove", "undo", "reply", "crash"}
<1> SUFFICES ASSUME IndInv, PlacedInv, WorkInv, StrayInv, [Next]_vars, Without(kinds)'
             PROVE  /\ \A h \in Jobs : ~At(h, "idle")' => StrayPlaced(h)'
                    /\ \A k \in Keys : user'[k] # None => KeyTaken(k)' \/ Busy(k)'
  BY DEF StrayInv
<1>1. /\ ~MayOverlap /\ Without(kinds)
      /\ ~Fault("save") /\ ~Fault("remove") /\ ~Fault("undo") /\ ~Fault("reply")
      /\ ~Fault("crash")
  BY NothingMissed DEF Without
<1>2. /\ \A h \in Jobs : ~At(h, "idle") => RowPlaced(h) /\ UserPlaced(h) /\ StrayPlaced(h)
      /\ \A k \in Keys : user[k] # None => KeyTaken(k) \/ Busy(k)
  BY <1>1 DEF PlacedInv, WorkInv, StrayInv, Without
<1> HIDE DEF kinds
<1>3. CASE UNCHANGED vars
  BY <1>2, <1>3 DEF vars, StrayPlaced, KeysOf, KeyTaken, Busy, At
<1>4. ASSUME NEW j \in Jobs, Request(j)
      PROVE  /\ \A h \in Jobs : ~At(h, "idle")' => StrayPlaced(h)'
             /\ \A k \in Keys : user'[k] # None => KeyTaken(k)' \/ Busy(k)'
  <2>1. PICK p \in Place, i \in Ids, old \in Credentials, new \in Credentials :
          Begun(j, p, i, old, new) /\ Checked(p, i, old, new)
    BY <1>4, Beginning
  <2>2. KeysOf(j)' = {old.key, new.key}
    BY <2>1 DEF Begun, KeysOf
  <2>3. StrayPlaced(j)'
    <3>1. old.key \in Keys /\ new.key \in Keys
      BY CredentialKeys
    <3>2. \A k \in {old.key, new.key} : user[k] # None => KeyTaken(k)
      BY <1>1, <1>2, <2>1, <3>1 DEF Begun
    <3>3. \A k \in {old.key, new.key} : KeyTaken(k) => row[i].key = k
      BY <2>1 DEF Checked
    <3>4. QED
      BY <2>1, <2>2, <3>2, <3>3 DEF Begun, Checked, StrayPlaced
  <2>4. ASSUME NEW h \in Jobs \ {j}, ~At(h, "idle")
        PROVE  StrayPlaced(h)'
    BY <1>2, <2>1, <2>4 DEF Begun, StrayPlaced, KeysOf
  <2>5. \A k \in Keys : user'[k] # None => KeyTaken(k)' \/ Busy(k)'
    BY <1>2, <2>1 DEF Begun, KeyTaken, Busy, KeysOf, At
  <2>6. QED
    BY <2>1, <2>3, <2>4, <2>5 DEF Begun, At
<1>5. ASSUME NEW j \in Jobs, JobStep(j)
      PROVE  /\ \A h \in Jobs : ~At(h, "idle")' => StrayPlaced(h)'
             /\ \A k \in Keys : user'[k] # None => KeyTaken(k)' \/ Busy(k)'
  <2>1. Effect(j) /\ ~At(j, "idle")
    BY <1>5, StepEffect DEF IndInv, Effect
  <2>2. PICK o, n : o = job[j].old.key /\ n = job[j].new.key
    OBVIOUS
  <2>3. StrayOut(j, o, n)
    BY <1>1, <1>2, <1>5, <2>1, <2>2, StrayCreate, StrayUpdate, StrayConsumer
    DEF JobStep, HttpStep, HttpCrash
  <2>4. ASSUME NEW h \in Jobs \ {j}, ~At(h, "idle")'
        PROVE  StrayPlaced(h)'
    BY <1>1, <1>2, <2>1, <2>4, StrayOther DEF Effect, JobGoesOn, At
  <2>5. ASSUME NEW k \in Keys \ KeysOf(j), user'[k] # None
        PROVE  KeyTaken(k)' \/ Busy(k)'
    BY <1>1, <1>2, <2>1, <2>5, OtherKey DEF KeyTaken
  <2>6. ASSUME NEW k \in KeysOf(j), user'[k] # None
        PROVE  KeyTaken(k)' \/ Busy(k)'
    <3>1. CASE job'[j].place = "idle"
      BY <2>2, <2>3, <2>6, <3>1 DEF StrayOut, KeysOf
    <3>2. CASE job'[j].place # "idle"
      BY <2>1, <2>6, <3>2 DEF Effect, JobGoesOn, Busy, KeysOf, At
    <3>3. QED
      BY <3>1, <3>2
  <2>7. QED
    BY <2>3, <2>4, <2>5, <2>6 DEF StrayOut, At
<1>6. QED
  BY <1>3, <1>4, <1>5 DEF Next, JobStep

(* No creation, change or deletion of iam.go leaves a user in MinIO that   *)
(* no row knows, where the undos and the calls they need are answered.     *)
THEOREM NoUserIsStray == Spec => []NoStrayUser
<1>1. Init => StrayInv
  BY DEF Init, StrayInv, At, NoJob
<1>2. StrayInv => NoStrayUser
  BY DEF StrayInv, NoStrayUser, Busy
<1>3. QED
  BY <1>1, <1>2, StrayKept, IndInvariant, PlacedInvariant, WorkInvariant, PTL DEF Spec

----------------------------------------------------------------------------
(* A user never has the policy of another id. *)

(* MinIO attaches to users only, and a user's attachment goes with it. *)
LEMMA AttachedKept ==
  ASSUME IndInv, AttachedToUser, [Next]_vars
  PROVE  AttachedToUser'
<1>1. TypeOK
  BY DEF IndInv
<1>2. UNCHANGED minio => AttachedToUser'
  BY DEF minio, AttachedToUser
<1>3. \A c \in Credentials : AddUser(c) => AttachedToUser'
  BY <1>1, NoneAssumption DEF AddUser, AttachedToUser, TypeOK, Credentials
<1>4. \A k : RemoveUser(k) => AttachedToUser'
  BY <1>1 DEF RemoveUser, AttachedToUser, TypeOK
<1>5. \A k, i : AddCannedPolicy(k, i) => AttachedToUser'
  BY DEF AddCannedPolicy, AttachedToUser
<1>6. \A k : RemoveCannedPolicy(k) => AttachedToUser'
  BY DEF RemoveCannedPolicy, AttachedToUser
<1>7. \A k, p : SetPolicy(k, p) => AttachedToUser'
  BY <1>1 DEF SetPolicy, AttachedToUser, TypeOK
<1>8. CASE UNCHANGED vars
  BY <1>8 DEF vars, AttachedToUser
<1>9. ASSUME NEW j \in Jobs, Request(j)
      PROVE  AttachedToUser'
  BY <1>9, Beginning DEF Begun, AttachedToUser
<1>10. ASSUME NEW j \in Jobs, JobStep(j)
       PROVE  AttachedToUser'
  <2>1. job[j].old \in Credentials /\ job[j].new \in Credentials
    BY <1>1, <1>10, StepEffect, InHand DEF IndInv, Effect
  <2>2. CASE \/ CreatePolicy(j) \/ CreateUser(j) \/ AttachPolicy(j) \/ InsertUser(j)
             \/ InsertPolicy(j) \/ UndoRow(j) \/ UndoUser(j) \/ UndoPolicy(j)
    BY <1>2, <1>3, <1>4, <1>5, <1>6, <1>7, <2>1, <2>2
    DEF CreatePolicy, CreateUser, AttachPolicy, InsertUser, InsertPolicy, UndoRow,
        UndoUser, UndoPolicy, Call, Undo
  <2>3. CASE \/ DeleteUserRow(j) \/ RemoveDeletedUser(j) \/ RemoveOldUser(j)
             \/ CreateNewUser(j) \/ RestoreOldUser(j) \/ SaveUser(j) \/ UndoNewUser(j)
             \/ UndoOldUser(j) \/ PublishUpdatePolicy(j)
    BY <1>2, <1>3, <1>4, <1>5, <1>6, <1>7, <2>1, <2>3
    DEF DeleteUserRow, RemoveDeletedUser, RemoveOldUser, CreateNewUser, RestoreOldUser,
        SaveUser, UndoNewUser, UndoOldUser, PublishUpdatePolicy, Call, RemoveMissing, Undo
  <2>4. CASE ConsumerStep(j) \/ HttpCrash(j) \/ ConsumerCrash(j)
    BY <1>2, <1>5, <1>6, <1>7, <2>4
    DEF ConsumerStep, DeliverUpdatePolicy, DeleteOldPolicy, CreateNewPolicy, FindUser,
        AttachNewPolicy, UndoDeletePolicy, UndoAddPolicy, UndoAttach, AckUpdatePolicy,
        HttpCrash, ConsumerCrash, Call, RemoveMissing, Undo
  <2>5. QED
    BY <1>10, <2>2, <2>3, <2>4 DEF JobStep, HttpStep
<1>11. QED
  BY <1>8, <1>9, <1>10 DEF Next, JobStep

(* The job has gone on as its place asks, or ended with the row's own policy. *)
OwnOut(j, o, n) ==
  IF job'[j].place = "idle"
  THEN \A k \in {o, n} : (attached[k] # None => OwnedAt(k))'
  ELSE OwnPlaced(j)'

LEMMA OwnCreate ==
  ASSUME IndInv, ~MayOverlap, NEW j \in Jobs,
         NEW o, NEW n, o = job[j].old.key, n = job[j].new.key,
         RowPlaced(j), OwnPlaced(j), ~Fault("reply"), ~Fault("undo"),
         \/ CreatePolicy(j) \/ CreateUser(j) \/ AttachPolicy(j) \/ InsertUser(j)
         \/ InsertPolicy(j) \/ UndoRow(j) \/ UndoUser(j) \/ UndoPolicy(j)
  PROVE  OwnOut(j, o, n)
<1>1. ~At(j, "idle")
  BY DEF At, CreatePolicy, CreateUser, AttachPolicy, InsertUser, InsertPolicy, UndoRow,
         UndoUser, UndoPolicy
<1> USE GoMoves, JobKeys, <1>1
    DEF Moves, RowPlaced, OwnPlaced, OwnOut, OwnedAt, CreatePlace, DeletePlace,
        ConsumerPlace, At, KeysOf
<1>2. CASE CreatePolicy(j)
  BY <1>2 DEF CreatePolicy, Call, AddCannedPolicy, minio, TypeOK
<1>3. CASE CreateUser(j)
  BY <1>3 DEF CreateUser, Call, AddUser, minio
<1>4. CASE AttachPolicy(j)
  <2>1. CASE SetPolicy(n, n) /\ Go(j, "insert_user")
    <3>1. attached'[n] = n /\ policy'[n] = policy[n] /\ KeysOf(j) = {n}
      BY <1>4, <2>1 DEF AttachPolicy, SetPolicy, TypeOK
    <3>2. policy[n] = job[j].id /\ Moves(j, "insert_user")
      BY <1>4, <2>1 DEF AttachPolicy
    <3>3. KeysOf(j)' = {n}
      BY <3>1, <3>2
    <3>4. OwnPlaced(j)'
      BY <3>1, <3>2, <3>3
    <3>5. QED
      BY <3>2, <3>4
  <2>2. CASE UNCHANGED minio /\ Go(j, "undo_user")
    BY <1>4, <2>2 DEF AttachPolicy, minio
  <2>3. QED
    BY <1>4, <2>1, <2>2 DEF AttachPolicy, Call
<1>5. CASE InsertUser(j)
  BY <1>5 DEF InsertUser, minio
<1>6. CASE InsertPolicy(j)
  BY <1>6 DEF InsertPolicy, minio
<1>7. CASE UndoRow(j)
  BY <1>7 DEF UndoRow, minio
<1>8. CASE UndoUser(j)
  BY <1>8 DEF UndoUser, Undo, RemoveUser, TypeOK
<1>9. CASE UndoPolicy(j)
  BY <1>9 DEF UndoPolicy, Undo, RemoveCannedPolicy
<1>10. QED
  BY <1>2, <1>3, <1>4, <1>5, <1>6, <1>7, <1>8, <1>9

LEMMA OwnUpdate ==
  ASSUME IndInv, ~MayOverlap, NEW j \in Jobs,
         NEW o, NEW n, o = job[j].old.key, n = job[j].new.key,
         RowPlaced(j), OwnPlaced(j), AttachedToUser,
         ~Fault("remove"), ~Fault("reply"), ~Fault("undo"),
         \/ DeleteUserRow(j) \/ RemoveDeletedUser(j) \/ RemoveOldUser(j)
         \/ CreateNewUser(j) \/ RestoreOldUser(j) \/ SaveUser(j) \/ UndoNewUser(j)
         \/ UndoOldUser(j) \/ PublishUpdatePolicy(j)
  PROVE  OwnOut(j, o, n)
<1>1. ~At(j, "idle")
  BY DEF At, DeleteUserRow, RemoveDeletedUser, RemoveOldUser, CreateNewUser,
         RestoreOldUser, SaveUser, UndoNewUser, UndoOldUser, PublishUpdatePolicy
<1> USE GoMoves, JobKeys, <1>1
    DEF Moves, RowPlaced, OwnPlaced, OwnOut, OwnedAt, CreatePlace, DeletePlace,
        ConsumerPlace, At, KeysOf
<1>2. CASE DeleteUserRow(j)
  BY <1>2 DEF DeleteUserRow, db, minio
<1>3. CASE RemoveDeletedUser(j)
  BY <1>3 DEF RemoveDeletedUser, RemoveUser, TypeOK
<1>4. CASE RemoveOldUser(j)
  <2>1. CASE user[o] # None
    <3>1. CASE RemoveUser(o) /\ Go(j, "create_new")
      BY <1>4, <3>1 DEF RemoveOldUser, RemoveUser, TypeOK
    <3>2. CASE UNCHANGED minio /\ Go(j, "idle")
      BY <1>4, <3>2 DEF RemoveOldUser, db, minio
    <3>3. QED
      BY <1>4, <2>1, <3>1, <3>2 DEF RemoveOldUser, Call
  <2>2. CASE user[o] = None
    BY <1>4, <2>2 DEF RemoveOldUser, RemoveMissing, db, minio, AttachedToUser
  <2>3. QED
    BY <2>1, <2>2
<1>5. CASE CreateNewUser(j)
  BY <1>5 DEF CreateNewUser, Call, minio, AddUser
<1>6. CASE RestoreOldUser(j)
  BY <1>6 DEF RestoreOldUser, Undo, AddUser
<1>7. CASE SaveUser(j)
  BY <1>7 DEF SaveUser, minio
<1>8. CASE PublishUpdatePolicy(j)
  BY <1>8 DEF PublishUpdatePolicy, minio
<1>9. CASE UndoNewUser(j) \/ UndoOldUser(j)
  BY <1>9 DEF UndoNewUser, UndoOldUser, Undo, RemoveUser, AddUser, TypeOK
<1>10. QED
  BY <1>2, <1>3, <1>4, <1>5, <1>6, <1>7, <1>8, <1>9

LEMMA OwnConsumer ==
  ASSUME IndInv, ~MayOverlap, NEW j \in Jobs,
         NEW o, NEW n, o = job[j].old.key, n = job[j].new.key,
         RowPlaced(j), OwnPlaced(j), ~Fault("reply"), ~Fault("undo"),
         ConsumerStep(j) \/ ConsumerCrash(j)
  PROVE  OwnOut(j, o, n)
<1>1. ~At(j, "idle") /\ row' = row
  BY ConsumerKeepsUsers DEF IndInv, db, At, ConsumerPlace
<1> USE GoMoves, JobKeys, <1>1
    DEF Moves, RowPlaced, OwnPlaced, OwnOut, OwnedAt, ConsumerPlace, At, KeysOf
<1>2. CASE DeliverUpdatePolicy(j)
  BY <1>2 DEF DeliverUpdatePolicy, minio
<1>3. CASE DeleteOldPolicy(j)
  BY <1>3 DEF DeleteOldPolicy, Call, RemoveMissing, RemoveCannedPolicy, minio, TypeOK
<1>4. CASE CreateNewPolicy(j)
  BY <1>4 DEF CreateNewPolicy, Call, AddCannedPolicy, minio, TypeOK
<1>5. CASE FindUser(j)
  <2>1. job'[j].place \in {"attach_new", "undo_delete"} /\ job'[j].id = job[j].id
        /\ job'[j].old = job[j].old /\ job'[j].new = job[j].new
    BY <1>5, FindMoves
  <2>2. QED
    BY <1>5, <2>1 DEF FindUser, minio
<1>6. CASE AttachNewPolicy(j)
  BY <1>6 DEF AttachNewPolicy, Call, SetPolicy, minio, TypeOK
<1>7. CASE UndoDeletePolicy(j)
  BY <1>7 DEF UndoDeletePolicy, Undo, RemoveCannedPolicy, TypeOK
<1>8. CASE UndoAddPolicy(j)
  BY <1>8 DEF UndoAddPolicy, Undo, AddCannedPolicy, TypeOK
<1>9. CASE UndoAttach(j)
  <2>1. job'[j].place = "queued" /\ job'[j].id = job[j].id
        /\ job'[j].old = job[j].old /\ job'[j].new = job[j].new
    BY <1>9, DropMoves DEF UndoAttach
  <2>2. CASE SetPolicy(n, o)
    <3>1. attached' = [attached EXCEPT ![n] = o] /\ policy' = policy
      BY <2>2 DEF SetPolicy
    <3>2. \A k \in {o, n} : attached'[k] # None => k = n /\ attached'[k] = o
      BY <1>9, <3>1 DEF UndoAttach, TypeOK
    <3>3. policy[o] = job[j].id /\ KeysOf(j)' = {o, n}
      BY <1>9, <2>1 DEF UndoAttach
    <3>4. QED
      BY <2>1, <3>1, <3>2, <3>3
  <2>3. CASE UNCHANGED minio
    BY <1>9, <2>1, <2>3 DEF UndoAttach, minio
  <2>4. QED
    BY <1>9, <2>2, <2>3 DEF UndoAttach
<1>10. CASE AckUpdatePolicy(j)
  BY <1>10 DEF AckUpdatePolicy, minio
<1>11. CASE ConsumerCrash(j)
  <2>1. job'[j].place = "queued" /\ job'[j].id = job[j].id
        /\ job'[j].old = job[j].old /\ job'[j].new = job[j].new
    BY <1>11, DropMoves DEF ConsumerCrash
  <2>2. QED
    BY <1>11, <2>1 DEF ConsumerCrash, minio
<1>12. QED
  BY <1>2, <1>3, <1>4, <1>5, <1>6, <1>7, <1>8, <1>9, <1>10, <1>11 DEF ConsumerStep

LEMMA OwnOther ==
  ASSUME IndInv, ~MayOverlap, NEW j \in Jobs, Effect(j),
         NEW h \in Jobs \ {j}, ~At(h, "idle"), OwnPlaced(h)
  PROVE  OwnPlaced(h)'
<1>1. KeysOf(h)' = KeysOf(h) /\ KeysOf(h) = {job[h].old.key, job[h].new.key}
  BY OtherJob DEF KeysOf
<1>2. \A k \in KeysOf(h) :
        attached[k] # None =>
          attached'[k] = attached[k] /\ policy'[attached[k]] = policy[attached[k]]
  BY OtherJob DEF OwnPlaced
<1>3. QED
  BY <1>1, <1>2, OtherJob DEF OwnPlaced

LEMMA OwnKept == IndInv /\ PlacedInv /\ OwnInv /\ [Next]_vars => OwnInv'
<1> DEFINE kinds == {"remove", "undo", "reply", "crash"}
<1> SUFFICES ASSUME IndInv, PlacedInv, OwnInv, [Next]_vars, Without(kinds)'
             PROVE  /\ \A h \in Jobs : ~At(h, "idle")' => OwnPlaced(h)'
                    /\ \A k \in Keys : attached'[k] # None => OwnedAt(k)' \/ Busy(k)'
  BY AttachedKept DEF OwnInv
<1>1. /\ ~MayOverlap /\ Without(kinds)
      /\ ~Fault("remove") /\ ~Fault("undo") /\ ~Fault("reply") /\ ~Fault("crash")
  BY NothingMissed DEF Without
<1>2. /\ \A h \in Jobs : ~At(h, "idle") => RowPlaced(h) /\ OwnPlaced(h)
      /\ \A k \in Keys : attached[k] # None => OwnedAt(k) \/ Busy(k)
      /\ AttachedToUser
  BY <1>1 DEF PlacedInv, OwnInv
<1> HIDE DEF kinds
<1>3. CASE UNCHANGED vars
  BY <1>2, <1>3 DEF vars, OwnPlaced, KeysOf, OwnedAt, Busy, At
<1>4. ASSUME NEW j \in Jobs, Request(j)
      PROVE  /\ \A h \in Jobs : ~At(h, "idle")' => OwnPlaced(h)'
             /\ \A k \in Keys : attached'[k] # None => OwnedAt(k)' \/ Busy(k)'
  <2>1. PICK p \in Place, i \in Ids, old \in Credentials, new \in Credentials :
          Begun(j, p, i, old, new) /\ Checked(p, i, old, new)
    BY <1>4, Beginning
  <2>2. KeysOf(j)' = {old.key, new.key}
    BY <2>1 DEF Begun, KeysOf
  <2>3. OwnPlaced(j)'
    <3>1. old.key \in Keys /\ new.key \in Keys
      BY CredentialKeys
    <3>2. ASSUME NEW k \in {old.key, new.key}, attached[k] # None
          PROVE  /\ HasRow(i) /\ old = row[i] /\ k = old.key
                 /\ attached[k] = k /\ policy[k] \in {i, None}
      <4>1. OwnedAt(k) /\ k \in Keys
        BY <1>1, <1>2, <2>1, <3>1, <3>2 DEF Begun
      <4>2. PICK h \in Ids : row[h].key = k /\ policy[k] \in {h, None}
        BY <4>1 DEF OwnedAt
      <4>3. HasRow(h) /\ KeyTaken(k)
        BY <4>1, <4>2, NoneAssumption DEF HasRow, NoCredentials, KeyTaken
      <4>4. HasRow(i) /\ old = row[i] /\ k = old.key
        BY <2>1, <4>3 DEF Checked
      <4>5. h = i
        BY <1>1, <4>2, <4>3, <4>4 DEF IndInv, ApartInv
      <4>6. QED
        BY <4>1, <4>2, <4>4, <4>5 DEF OwnedAt
    <3>3. QED
      BY <2>1, <2>2, <3>2 DEF Begun, Checked, OwnPlaced, HasRow, ConsumerPlace
  <2>4. ASSUME NEW h \in Jobs \ {j}, ~At(h, "idle")
        PROVE  OwnPlaced(h)'
    BY <1>2, <2>1, <2>4 DEF Begun, OwnPlaced, KeysOf
  <2>5. \A k \in Keys : attached'[k] # None => OwnedAt(k)' \/ Busy(k)'
    BY <1>2, <2>1 DEF Begun, OwnedAt, Busy, KeysOf, At
  <2>6. QED
    BY <2>1, <2>3, <2>4, <2>5 DEF Begun, At
<1>5. ASSUME NEW j \in Jobs, JobStep(j)
      PROVE  /\ \A h \in Jobs : ~At(h, "idle")' => OwnPlaced(h)'
             /\ \A k \in Keys : attached'[k] # None => OwnedAt(k)' \/ Busy(k)'
  <2>1. Effect(j) /\ ~At(j, "idle")
    BY <1>5, StepEffect DEF IndInv, Effect
  <2>2. PICK o, n : o = job[j].old.key /\ n = job[j].new.key
    OBVIOUS
  <2>3. OwnOut(j, o, n)
    BY <1>1, <1>2, <1>5, <2>1, <2>2, OwnCreate, OwnUpdate, OwnConsumer
    DEF JobStep, HttpStep, HttpCrash
  <2>4. ASSUME NEW h \in Jobs \ {j}, ~At(h, "idle")'
        PROVE  OwnPlaced(h)'
    BY <1>1, <1>2, <2>1, <2>4, OwnOther DEF Effect, JobGoesOn, At
  <2>5. ASSUME NEW k \in Keys \ KeysOf(j), attached'[k] # None
        PROVE  OwnedAt(k)' \/ Busy(k)'
    BY <1>1, <1>2, <2>1, <2>5, OtherKey DEF OwnedAt
  <2>6. ASSUME NEW k \in KeysOf(j), attached'[k] # None
        PROVE  OwnedAt(k)' \/ Busy(k)'
    <3>1. CASE job'[j].place = "idle"
      BY <2>2, <2>3, <2>6, <3>1 DEF OwnOut, KeysOf
    <3>2. CASE job'[j].place # "idle"
      BY <2>1, <2>6, <3>2 DEF Effect, JobGoesOn, Busy, KeysOf, At
    <3>3. QED
      BY <3>1, <3>2
  <2>7. QED
    BY <2>3, <2>4, <2>5, <2>6 DEF OwnOut, At
<1>6. QED
  BY <1>3, <1>4, <1>5 DEF Next, JobStep

(* The policy that a row's user has attached is the id's own, or gone,     *)
(* also while a handler of iam.go or the renaming of policy.go is at work. *)
THEOREM PolicyIsItsOwn == Spec => []PolicyIsOwn
<1>1. Init => OwnInv
  BY DEF Init, OwnInv, AttachedToUser, At, NoJob
<1>2. IndInv /\ OwnInv => PolicyIsOwn
  <2> SUFFICES ASSUME IndInv, OwnInv, Without({"remove", "undo", "reply", "crash"}),
                      NEW i \in Ids, HasRow(i), attached[row[i].key] # None
               PROVE  policy[attached[row[i].key]] \in {i, None}
    BY DEF PolicyIsOwn
  <2> DEFINE k == row[i].key
  <2>1. ~MayOverlap /\ ApartInv /\ k \in Keys
    BY DEF Without, IndInv, TypeOK, HasRow, Credentials
  <2>2. CASE Busy(k)
    <3>1. PICK j \in Jobs : ~At(j, "idle") /\ k \in KeysOf(j)
      BY <2>2 DEF Busy
    <3>2. job[j].id = i
      BY <2>1, <3>1 DEF ApartInv, OwnKeys
    <3>3. QED
      BY <3>1, <3>2 DEF OwnInv, OwnPlaced
  <2>3. CASE ~Busy(k)
    <3>1. OwnedAt(k)
      BY <2>1, <2>3 DEF OwnInv
    <3>2. PICK h \in Ids : row[h].key = k /\ policy[k] \in {h, None}
      BY <3>1 DEF OwnedAt
    <3>3. HasRow(h)
      BY <2>1, <3>2, NoneAssumption DEF HasRow, NoCredentials
    <3>4. h = i
      BY <2>1, <3>2, <3>3 DEF ApartInv
    <3>5. QED
      BY <3>1, <3>2, <3>4 DEF OwnedAt
  <2>4. QED
    BY <2>2, <2>3
<1>3. QED
  BY <1>1, <1>2, OwnKept, IndInvariant, PlacedInvariant, PTL DEF Spec

----------------------------------------------------------------------------
(* A user that can log in has its policy. *)

(* The job has gone on as its place asks, or ended with a row that has its policy. *)
GrantOut(j, i) ==
  IF job'[j].place = "idle"
  THEN (HasRow(i) => HasOwn(i, row[i].key))'
  ELSE GrantPlaced(j)'

LEMMA GrantCreate ==
  ASSUME IndInv, ~MayOverlap, NEW j \in Jobs, NEW i \in Ids, i = job[j].id,
         RowPlaced(j), UserPlaced(j), GrantPlaced(j), ~Fault("reply"), ~Fault("undo"),
         \/ CreatePolicy(j) \/ CreateUser(j) \/ AttachPolicy(j) \/ InsertUser(j)
         \/ InsertPolicy(j) \/ UndoRow(j) \/ UndoUser(j) \/ UndoPolicy(j)
  PROVE  GrantOut(j, i)
<1>1. ~At(j, "idle")
  BY DEF At, CreatePolicy, CreateUser, AttachPolicy, InsertUser, InsertPolicy, UndoRow,
         UndoUser, UndoPolicy
<1> USE GoMoves, JobKeys, <1>1
    DEF Moves, RowPlaced, UserPlaced, GrantPlaced, GrantOut, HasOwn, HasRow,
        CreatePlace, DeletePlace, ConsumerPlace, At
<1>2. CASE CreatePolicy(j)
  BY <1>2 DEF CreatePolicy, Call, AddCannedPolicy, db, TypeOK
<1>3. CASE CreateUser(j)
  BY <1>3 DEF CreateUser, Call, AddUser
<1>4. CASE AttachPolicy(j)
  <2>1. CASE SetPolicy(job[j].new.key, job[j].new.key) /\ Go(j, "insert_user")
    <3>1. attached' = [attached EXCEPT ![job[j].new.key] = job[j].new.key]
          /\ policy' = policy
      BY <2>1 DEF SetPolicy
    <3>2. policy[job[j].new.key] = i /\ Moves(j, "insert_user")
      BY <1>4, <2>1 DEF AttachPolicy
    <3>3. attached'[job[j].new.key] = job[j].new.key
      BY <3>1 DEF TypeOK
    <3>4. QED
      BY <3>1, <3>2, <3>3
  <2>2. CASE Go(j, "undo_user")
    BY <1>4, <2>2
  <2>3. QED
    BY <1>4, <2>1, <2>2 DEF AttachPolicy, Call
<1>5. CASE InsertUser(j)
  BY <1>5 DEF InsertUser, minio
<1>6. CASE InsertPolicy(j)
  BY <1>6 DEF InsertPolicy, minio
<1>7. CASE UndoRow(j)
  BY <1>7 DEF UndoRow
<1>8. CASE UndoUser(j) \/ UndoPolicy(j)
  BY <1>8 DEF UndoUser, UndoPolicy, Undo, db
<1>9. QED
  BY <1>2, <1>3, <1>4, <1>5, <1>6, <1>7, <1>8

LEMMA GrantUpdate ==
  ASSUME IndInv, ~MayOverlap, NEW j \in Jobs, NEW i \in Ids, i = job[j].id,
         RowPlaced(j), UserPlaced(j), GrantPlaced(j),
         ~Fault("reply"), ~Fault("undo"), ~Fault("update"), ~Fault("publish"),
         \/ DeleteUserRow(j) \/ RemoveDeletedUser(j) \/ RemoveOldUser(j)
         \/ CreateNewUser(j) \/ RestoreOldUser(j) \/ SaveUser(j) \/ UndoNewUser(j)
         \/ UndoOldUser(j) \/ PublishUpdatePolicy(j)
  PROVE  GrantOut(j, i)
<1>1. ~At(j, "idle")
  BY DEF At, DeleteUserRow, RemoveDeletedUser, RemoveOldUser, CreateNewUser,
         RestoreOldUser, SaveUser, UndoNewUser, UndoOldUser, PublishUpdatePolicy
<1> USE GoMoves, JobKeys, <1>1
    DEF Moves, RowPlaced, UserPlaced, GrantPlaced, GrantOut, HasOwn, HasRow,
        CreatePlace, DeletePlace, ConsumerPlace, At
<1>2. CASE DeleteUserRow(j)
  BY <1>2 DEF DeleteUserRow, db, minio
<1>3. CASE RemoveDeletedUser(j)
  BY <1>3 DEF RemoveDeletedUser, db
<1>4. CASE RemoveOldUser(j)
  <2>1. user[job[j].old.key] # None
    BY <1>4, NoneAssumption DEF RemoveOldUser, Credentials, LogsIn
  <2>2. QED
    BY <1>4, <2>1 DEF RemoveOldUser, Call
<1>5. CASE CreateNewUser(j)
  BY <1>5 DEF CreateNewUser, Call
<1>6. CASE SaveUser(j)
  BY <1>6 DEF SaveUser
<1>7. CASE PublishUpdatePolicy(j)
  BY <1>7 DEF PublishUpdatePolicy
<1>8. CASE RestoreOldUser(j) \/ UndoNewUser(j) \/ UndoOldUser(j)
  BY <1>8 DEF RestoreOldUser, UndoNewUser, UndoOldUser
<1>9. QED
  BY <1>2, <1>3, <1>4, <1>5, <1>6, <1>7, <1>8

LEMMA GrantConsumer ==
  ASSUME IndInv, ~MayOverlap, NEW j \in Jobs, NEW i \in Ids, i = job[j].id,
         RowPlaced(j), GrantPlaced(j), ~Fault("reply"), ~Fault("undo"),
         ConsumerStep(j) \/ ConsumerCrash(j)
  PROVE  GrantOut(j, i)
<1>1. ~At(j, "idle") /\ row' = row
  BY ConsumerKeepsUsers DEF IndInv, db, At, ConsumerPlace
<1> USE GoMoves, JobKeys, <1>1
    DEF Moves, RowPlaced, GrantPlaced, GrantOut, HasOwn, ConsumerPlace, At
<1>2. CASE DeliverUpdatePolicy(j)
  BY <1>2 DEF DeliverUpdatePolicy
<1>3. CASE DeleteOldPolicy(j)
  BY <1>3 DEF DeleteOldPolicy, Call, RemoveMissing
<1>4. CASE CreateNewPolicy(j)
  BY <1>4 DEF CreateNewPolicy, Call, AddCannedPolicy, TypeOK
<1>5. CASE FindUser(j)
  <2>1. job'[j].place \in {"attach_new", "undo_delete"} /\ job'[j].id = job[j].id
        /\ job'[j].old = job[j].old /\ job'[j].new = job[j].new
    BY <1>5, FindMoves
  <2>2. QED
    BY <1>5, <2>1 DEF FindUser, minio
<1>6. CASE AttachNewPolicy(j)
  <2>1. CASE SetPolicy(job[j].new.key, job[j].new.key) /\ Go(j, "ack")
    <3>1. attached' = [attached EXCEPT ![job[j].new.key] = job[j].new.key]
          /\ policy' = policy
      BY <2>1 DEF SetPolicy
    <3>2. policy[job[j].new.key] = i /\ Moves(j, "ack")
      BY <1>6, <2>1 DEF AttachNewPolicy
    <3>3. attached'[job[j].new.key] = job[j].new.key
      BY <3>1 DEF TypeOK
    <3>4. QED
      BY <3>1, <3>2, <3>3
  <2>2. CASE Go(j, "undo_delete")
    BY <1>6, <2>2
  <2>3. QED
    BY <1>6, <2>1, <2>2 DEF AttachNewPolicy, Call
<1>7. CASE UndoDeletePolicy(j) \/ UndoAddPolicy(j)
  BY <1>7 DEF UndoDeletePolicy, UndoAddPolicy, Undo
<1>8. CASE UndoAttach(j)
  BY <1>8, DropMoves DEF UndoAttach
<1>9. CASE AckUpdatePolicy(j)
  BY <1>9 DEF AckUpdatePolicy, minio
<1>10. CASE ConsumerCrash(j)
  BY <1>10, DropMoves DEF ConsumerCrash
<1>11. QED
  BY <1>2, <1>3, <1>4, <1>5, <1>6, <1>7, <1>8, <1>9, <1>10 DEF ConsumerStep

LEMMA GrantOther ==
  ASSUME IndInv, ~MayOverlap, NEW j \in Jobs, Effect(j),
         NEW h \in Jobs \ {j}, ~At(h, "idle"), GrantPlaced(h)
  PROVE  GrantPlaced(h)'
<1>1. job[h].new.key \in KeysOf(h)
  BY DEF KeysOf
<1>2. QED
  BY <1>1, OtherJob DEF GrantPlaced, HasOwn

LEMMA GrantKept == IndInv /\ PlacedInv /\ WorkInv /\ GrantInv /\ [Next]_vars => GrantInv'
<1> DEFINE kinds == {"save", "undo", "reply", "crash", "update", "publish"}
<1> SUFFICES ASSUME IndInv, PlacedInv, WorkInv, GrantInv, [Next]_vars, Without(kinds)'
             PROVE  /\ \A h \in Jobs : ~At(h, "idle")' => GrantPlaced(h)'
                    /\ \A i \in Ids :
                         (HasRow(i)' /\ Settled(i)') => HasOwn(i, row[i].key)'
  BY DEF GrantInv
<1>1. /\ ~MayOverlap /\ Without(kinds)
      /\ ~Fault("undo") /\ ~Fault("reply") /\ ~Fault("crash")
      /\ ~Fault("update") /\ ~Fault("publish")
  BY NothingMissed DEF Without
<1>2. /\ \A h \in Jobs : ~At(h, "idle") => RowPlaced(h) /\ UserPlaced(h) /\ GrantPlaced(h)
      /\ \A i \in Ids : (HasRow(i) /\ Settled(i)) => HasOwn(i, row[i].key)
  BY <1>1 DEF PlacedInv, WorkInv, GrantInv, Without
<1> HIDE DEF kinds
<1>3. CASE UNCHANGED vars
  BY <1>2, <1>3 DEF vars, GrantPlaced, HasOwn, HasRow, Settled, At
<1>4. ASSUME NEW j \in Jobs, Request(j)
      PROVE  /\ \A h \in Jobs : ~At(h, "idle")' => GrantPlaced(h)'
             /\ \A i \in Ids : (HasRow(i)' /\ Settled(i)') => HasOwn(i, row[i].key)'
  <2>1. PICK p \in Place, i \in Ids, old \in Credentials, new \in Credentials :
          Begun(j, p, i, old, new) /\ Checked(p, i, old, new)
    BY <1>4, Beginning
  <2>2. GrantPlaced(j)'
    BY <1>1, <1>2, <2>1 DEF Begun, Checked, GrantPlaced, HasOwn
  <2>3. ASSUME NEW h \in Jobs \ {j}, ~At(h, "idle")
        PROVE  GrantPlaced(h)'
    BY <1>2, <2>1, <2>3 DEF Begun, GrantPlaced, HasOwn
  <2>4. ASSUME NEW g \in Ids, HasRow(g)', Settled(g)'
        PROVE  HasOwn(g, row[g].key)'
    BY <1>2, <2>1, <2>4 DEF Begun, HasOwn, HasRow, Settled, At
  <2>5. QED
    BY <2>1, <2>2, <2>3, <2>4 DEF Begun, At
<1>5. ASSUME NEW j \in Jobs, JobStep(j)
      PROVE  /\ \A h \in Jobs : ~At(h, "idle")' => GrantPlaced(h)'
             /\ \A i \in Ids : (HasRow(i)' /\ Settled(i)') => HasOwn(i, row[i].key)'
  <2>1. Effect(j) /\ ~At(j, "idle") /\ JobInv(j) /\ TypeOK
    BY <1>5, StepEffect DEF IndInv, Effect
  <2>2. PICK d \in Ids : d = job[j].id
    BY <2>1, InHand
  <2>3. GrantOut(j, d)
    BY <1>1, <1>2, <1>5, <2>1, <2>2, GrantCreate, GrantUpdate, GrantConsumer
    DEF JobStep, HttpStep, HttpCrash
  <2>4. ASSUME NEW h \in Jobs \ {j}, ~At(h, "idle")'
        PROVE  GrantPlaced(h)'
    BY <1>1, <1>2, <2>1, <2>4, GrantOther DEF Effect, JobGoesOn, At
  <2>5. ASSUME NEW i \in Ids \ {d}, HasRow(i)', Settled(i)'
        PROVE  HasOwn(i, row[i].key)'
    BY <1>1, <1>2, <2>1, <2>2, <2>5, OtherRow DEF HasRow, HasOwn
  <2>6. ASSUME HasRow(d)', Settled(d)'
        PROVE  HasOwn(d, row[d].key)'
    <3>1. job'[j].place = "idle"
      BY <2>1, <2>2, <2>6 DEF Settled, At, Effect, JobGoesOn
    <3>2. QED
      BY <2>3, <2>6, <3>1 DEF GrantOut
  <2>7. QED
    BY <2>3, <2>4, <2>5, <2>6 DEF GrantOut, At
<1>6. QED
  BY <1>3, <1>4, <1>5 DEF Next, JobStep

(* Where no change of credentials stops half way (a failed call to MinIO   *)
(* that restores the old user, or a lost publication), the user of a row   *)
(* has a policy, its own, once nothing is at work on the id.               *)
THEOREM PolicyIsGranted == Spec => []PolicyGranted
<1>1. Init => GrantInv
  BY DEF Init, GrantInv, At, NoJob, HasRow
<1>2. IndInv /\ GrantInv => PolicyGranted
  <2> SUFFICES ASSUME IndInv, GrantInv, NEW i \in Ids, HasRow(i), HasOwn(i, row[i].key)
               PROVE  Granted(i)
    BY DEF GrantInv, PolicyGranted
  <2>1. row[i].key \in Keys
    BY DEF IndInv, TypeOK, HasRow, Credentials
  <2>2. QED
    BY <2>1, NoneAssumption DEF HasOwn, Granted
<1>3. QED
  BY <1>1, <1>2, GrantKept, IndInvariant, PlacedInvariant, WorkInvariant, PTL DEF Spec

=============================================================================
