------------------------ MODULE BucketGrants_proofs ------------------------
(***************************************************************************)
(* Theorems about BucketGrants, for every set of users, IAM users, keys,   *)
(* buckets and messages and any number of requests and failures.           *)
(***************************************************************************)
EXTENDS BucketGrants, TLAPS

----------------------------------------------------------------------------
(* Updates of a message, field by field. *)

OneJob(j, r) ==
  /\ job' \in [Jobs -> JobRecord]
  /\ job'[j] = r
  /\ \A h \in Jobs \ {j} : job'[h] = job[h]

LEMMA PlaceMembers ==
  /\ {"idle", "queued", "list", "each", "add", "attach", "save"} \subseteq Place
  /\ {"grant", "revoke", "rename"} \subseteq MessageKind
BY DEF Place, WorkPlace, MessageKind

LEMMA NoListType == NoList \in [Ids -> Keys \cup {None}] /\ \A i \in Ids : NoList[i] = None
BY DEF NoList

LEMMA NoJobType ==
  /\ NoJob \in JobRecord
  /\ NoJob.place = "idle" /\ NoJob.kind = "grant" /\ NoJob.user = None /\ NoJob.doc = {}
  /\ NoJob.list = NoList /\ NoJob.id = None /\ NoJob.key = None /\ NoJob.bucket = None
BY PlaceMembers, NoListType DEF NoJob, JobRecord

LEMMA Replaced ==
  ASSUME TypeOK, NEW j \in Jobs, NEW r \in JobRecord, job' = [job EXCEPT ![j] = r]
  PROVE  OneJob(j, r)
BY DEF TypeOK, OneJob

LEMMA Stopped ==
  ASSUME TypeOK, NEW j \in Jobs, Go(j, "idle")
  PROVE  OneJob(j, NoJob)
BY NoJobType, Replaced DEF Go

LEMMA Moved ==
  ASSUME TypeOK, NEW j \in Jobs, NEW p \in Place \ {"idle"}, Go(j, p)
  PROVE  OneJob(j, [kind |-> job[j].kind, place |-> p, user |-> job[j].user,
                    bucket |-> job[j].bucket, list |-> job[j].list, id |-> job[j].id,
                    key |-> job[j].key, doc |-> job[j].doc])
<1> DEFINE r == [kind |-> job[j].kind, place |-> p, user |-> job[j].user,
                 bucket |-> job[j].bucket, list |-> job[j].list, id |-> job[j].id,
                 key |-> job[j].key, doc |-> job[j].doc]
<1>1. job[j] \in JobRecord
  BY DEF TypeOK
<1>2. r \in JobRecord /\ r = [job[j] EXCEPT !.place = p]
  BY <1>1 DEF JobRecord
<1>3. job' = [job EXCEPT ![j] = r]
  BY <1>2 DEF Go
<1> HIDE DEF r
<1>4. OneJob(j, r)
  BY <1>2, <1>3, Replaced
<1>5. QED
  BY <1>4 DEF r

(* The place, the list, the IAM user in hand and the policy change. *)
LEMMA Worked ==
  ASSUME TypeOK, NEW j \in Jobs, NEW p \in Place, NEW l \in [Ids -> Keys \cup {None}],
         NEW i \in Ids \cup {None}, NEW d \in SUBSET Buckets, Work(j, p, l, i, d)
  PROVE  OneJob(j, [kind |-> job[j].kind, place |-> p, user |-> job[j].user,
                    bucket |-> job[j].bucket, list |-> l, id |-> i,
                    key |-> job[j].key, doc |-> d])
<1> DEFINE r == [kind |-> job[j].kind, place |-> p, user |-> job[j].user,
                 bucket |-> job[j].bucket, list |-> l, id |-> i,
                 key |-> job[j].key, doc |-> d]
<1>1. job[j] \in JobRecord
  BY DEF TypeOK
<1>2. /\ job[j].kind \in MessageKind /\ job[j].user \in Users \cup {None}
      /\ job[j].bucket \in Buckets \cup {None} /\ job[j].key \in Keys \cup {None}
  BY <1>1 DEF JobRecord
<1>3. r \in JobRecord
  BY <1>2 DEF JobRecord
<1>4. job' = [job EXCEPT ![j] = r]
  BY DEF Work
<1> HIDE DEF r
<1>5. OneJob(j, r)
  BY <1>3, <1>4, Replaced
<1>6. QED
  BY <1>5 DEF r

----------------------------------------------------------------------------
(* What a step of the consumer does, whichever step it is. *)

Bounded(doc, i) == doc \subseteq ever[UserOf[i]]

(* Lists stay within what the users had. *)
ListsStay ==
  /\ row' \in [Ids -> SUBSET Buckets]
  /\ policy' \in [Ids -> [Keys -> (SUBSET Buckets) \cup {None}]]
  /\ \A i \in Ids : Bounded(row'[i], i)
  /\ \A i \in Ids, k \in Keys : policy'[i][k] # None => Bounded(policy'[i][k], i)

Effect(j) ==
  /\ job' \in [Jobs -> JobRecord]
  /\ \A h \in Jobs \ {j} : job'[h] = job[h]
  /\ JobInv(j)'
  /\ UNCHANGED <<owner, ever, due, key, requests>>
  /\ minio' \subseteq Buckets /\ attached' \subseteq Ids
  /\ crossed' \subseteq CrossKind /\ faults' \subseteq FaultKind
  /\ ListsStay

LEMMA ListsUnchanged ==
  ASSUME GrantInv, UNCHANGED <<row, policy>>
  PROVE  ListsStay
BY DEF GrantInv, TypeOK, ListsStay, Bounded

LEMMA RowChanges ==
  ASSUME GrantInv, NEW i \in Ids, NEW d \in SUBSET Buckets, Bounded(d, i),
         row' = [row EXCEPT ![i] = d], UNCHANGED policy
  PROVE  ListsStay
BY DEF GrantInv, TypeOK, ListsStay, Bounded

LEMMA PolicyChanges ==
  ASSUME GrantInv, NEW i \in Ids, NEW k \in Keys,
         NEW d, d = None \/ (d \in SUBSET Buckets /\ Bounded(d, i)),
         policy' = [policy EXCEPT ![i][k] = d], UNCHANGED row
  PROVE  ListsStay
<1>1. policy \in [Ids -> [Keys -> (SUBSET Buckets) \cup {None}]]
  BY DEF GrantInv, TypeOK
<1>2. /\ \A h \in Ids : h # i => policy'[h] = policy[h]
      /\ policy'[i] = [policy[i] EXCEPT ![k] = d]
      /\ policy' \in [Ids -> [Keys -> (SUBSET Buckets) \cup {None}]]
  <2> DEFINE f == [policy[i] EXCEPT ![k] = d]
  <2>1. policy[i] \in [Keys -> (SUBSET Buckets) \cup {None}]
    BY <1>1
  <2>2. f \in [Keys -> (SUBSET Buckets) \cup {None}]
    BY <2>1
  <2>3. policy' = [policy EXCEPT ![i] = f]
    OBVIOUS
  <2> HIDE DEF f
  <2>4. /\ \A h \in Ids : h # i => policy'[h] = policy[h]
        /\ policy'[i] = f
        /\ policy' \in [Ids -> [Keys -> (SUBSET Buckets) \cup {None}]]
    BY <1>1, <2>2, <2>3
  <2>5. QED
    BY <2>4 DEF f
<1>3. \A h \in Ids, l \in Keys : policy'[h][l] # None => Bounded(policy'[h][l], h)
  BY <1>1, <1>2 DEF GrantInv, Bounded
<1>4. QED
  BY <1>2, <1>3 DEF GrantInv, TypeOK, ListsStay, Bounded

LEMMA FaultsStay ==
  ASSUME TypeOK
  PROVE  /\ NoFault => faults' \subseteq FaultKind
         /\ UNCHANGED faults => faults' \subseteq FaultKind
         /\ \A k \in {"publish", "list", "step", "reply", "crash"} :
              Fault(k) => faults' \subseteq FaultKind
BY DEF TypeOK, NoFault, Fault, FaultKind

LEMMA CrossStays ==
  ASSUME TypeOK
  PROVE  /\ UNCHANGED crossed => crossed' \subseteq CrossKind
         /\ \A a, b : Cross(a, b) => crossed' \subseteq CrossKind
BY DEF TypeOK, Cross

(* A message at work knows its user, its bucket and the IAM user in hand.  *)
LEMMA InHand ==
  ASSUME GrantInv, NEW j \in Jobs, ~At(j, "idle")
  PROVE  /\ job[j].user \in Users
         /\ job[j].list \in [Ids -> Keys \cup {None}] /\ job[j].doc \in SUBSET Buckets
         /\ job[j].doc \subseteq ever[job[j].user]
         /\ ~Is(j, "rename") => job[j].bucket \in ever[job[j].user]
         /\ (Is(j, "rename") \/ Writing(j)) =>
              /\ job[j].id \in Ids /\ UserOf[job[j].id] = job[j].user
              /\ KeyInHand(j) \in Keys
              /\ Bounded(job[j].doc, job[j].id)
<1>1. job[j] \in JobRecord /\ JobInv(j)
  BY DEF GrantInv, TypeOK
<1>2. job[j].list \in [Ids -> Keys \cup {None}] /\ job[j].doc \in SUBSET Buckets
  BY <1>1 DEF JobRecord
<1>3. QED
  BY <1>1, <1>2 DEF JobInv, Writing, KeyInHand, Bounded

(* JobInv of a message that was replaced. *)
LEMMA ReplacedInv ==
  ASSUME TypeOK, NEW j \in Jobs, NEW r \in JobRecord, OneJob(j, r), UNCHANGED ever,
         r.place = "idle" \/
           /\ r.user \in Users /\ r.kind # "rename"
           /\ r.bucket \in ever[r.user]
           /\ r.doc \subseteq ever[r.user]
           /\ \A i \in Ids : r.list[i] # None => UserOf[i] = r.user
           /\ r.place \in {"add", "attach", "save"} =>
                r.id \in Ids /\ UserOf[r.id] = r.user /\ r.list[r.id] # None
  PROVE  JobInv(j)'
BY DEF OneJob, JobInv, At, Is, KeyInHand

(* The three ways a message goes on in its list. *)
LEMMA WorkInv ==
  ASSUME GrantInv, NEW j \in Jobs, ~At(j, "idle"), ~Is(j, "rename"),
         UNCHANGED ever, NEW p \in Place,
         NEW l \in [Ids -> Keys \cup {None}], NEW i \in Ids \cup {None},
         NEW d \in SUBSET Buckets, d \subseteq ever[job[j].user],
         \A h \in Ids : l[h] # None => UserOf[h] = job[j].user,
         p \in {"add", "attach", "save"} => i \in Ids /\ l[i] # None,
         Work(j, p, l, i, d)
  PROVE  /\ job' \in [Jobs -> JobRecord]
         /\ \A h \in Jobs \ {j} : job'[h] = job[h]
         /\ JobInv(j)'
<1> DEFINE r == [kind |-> job[j].kind, place |-> p, user |-> job[j].user,
                 bucket |-> job[j].bucket, list |-> l, id |-> i,
                 key |-> job[j].key, doc |-> d]
<1>1. TypeOK
  BY DEF GrantInv
<1>2. OneJob(j, r)
  BY <1>1, Worked
<1>3. r \in JobRecord
  BY <1>2 DEF OneJob
<1>4. /\ r.place = p /\ r.user = job[j].user /\ r.kind = job[j].kind
      /\ r.bucket = job[j].bucket /\ r.list = l /\ r.id = i /\ r.doc = d
  OBVIOUS
<1> HIDE DEF r
<1>5. JobInv(j)'
  BY <1>1, <1>2, <1>3, <1>4, InHand, ReplacedInv DEF Is
<1>6. QED
  BY <1>2, <1>5 DEF OneJob

LEMMA GoInv ==
  ASSUME GrantInv, NEW j \in Jobs, ~At(j, "idle"), UNCHANGED ever, NEW p \in Place, Go(j, p),
         p # "idle" => ~Is(j, "rename"),
         p \in {"add", "attach", "save"} => Writing(j)
  PROVE  /\ job' \in [Jobs -> JobRecord]
         /\ \A h \in Jobs \ {j} : job'[h] = job[h]
         /\ JobInv(j)'
<1>1. TypeOK /\ JobInv(j) /\ job[j] \in JobRecord
  BY DEF GrantInv, TypeOK
<1>2. CASE p = "idle"
  BY <1>1, <1>2, Stopped, NoJobType, ReplacedInv DEF OneJob
<1>3. CASE p # "idle"
  <2> DEFINE r == [kind |-> job[j].kind, place |-> p, user |-> job[j].user,
                   bucket |-> job[j].bucket, list |-> job[j].list, id |-> job[j].id,
                   key |-> job[j].key, doc |-> job[j].doc]
  <2>1. OneJob(j, r)
    BY <1>1, <1>3, Moved
  <2>2. r \in JobRecord
    BY <2>1 DEF OneJob
  <2>3. /\ r.place = p /\ r.user = job[j].user /\ r.kind = job[j].kind
        /\ r.bucket = job[j].bucket /\ r.list = job[j].list /\ r.id = job[j].id
        /\ r.doc = job[j].doc
    OBVIOUS
  <2> HIDE DEF r
  <2>4. JobInv(j)'
    BY <1>1, <1>3, <2>1, <2>2, <2>3, InHand, ReplacedInv DEF Is, JobInv, KeyInHand, Writing
  <2>5. QED
    BY <2>1, <2>4 DEF OneJob
<1>4. QED
  BY <1>2, <1>3

----------------------------------------------------------------------------
(* The steps of the consumer, one by one. *)

LEMMA RenameEffect ==
  ASSUME GrantInv, NEW j \in Jobs, RenamePolicy(j)
  PROVE  Effect(j)
<1> DEFINE i == job[j].id
           f == [k \in Keys |-> IF k = job[j].key THEN job[j].doc
                                ELSE IF k = KeyInHand(j) THEN None ELSE policy[i][k]]
<1>1. TypeOK /\ ~At(j, "idle") /\ Is(j, "rename")
  BY DEF GrantInv, RenamePolicy, At
<1>2. /\ i \in Ids /\ job[j].doc \in SUBSET Buckets /\ Bounded(job[j].doc, i)
  BY <1>1, InHand
<1>3. policy' = [policy EXCEPT ![i] = f] /\ attached' = attached \cup {i}
      /\ Go(j, "idle") /\ UNCHANGED <<buckets, key, row, done, faults>>
  BY DEF RenamePolicy
<1>4. policy \in [Ids -> [Keys -> (SUBSET Buckets) \cup {None}]]
  BY <1>1 DEF TypeOK
<1>5. f \in [Keys -> (SUBSET Buckets) \cup {None}]
  BY <1>2, <1>4
<1>6. \A k \in Keys : f[k] # None => Bounded(f[k], i)
  BY <1>2 DEF GrantInv, Bounded
<1> HIDE DEF f, i
<1>7. policy' \in [Ids -> [Keys -> (SUBSET Buckets) \cup {None}]]
      /\ policy'[i] = f /\ \A h \in Ids \ {i} : policy'[h] = policy[h]
  BY <1>2, <1>3, <1>4, <1>5
<1>8. ListsStay
  BY <1>1, <1>3, <1>6, <1>7 DEF ListsStay, GrantInv, Bounded, TypeOK
<1>9. QED
  BY <1>1, <1>2, <1>3, <1>8, GoInv, PlaceMembers DEF Effect, buckets, done, TypeOK

LEMMA ListType ==
  ASSUME TypeOK, NEW u
  PROVE  /\ IamUsers(u) \in [Ids -> Keys \cup {None}]
         /\ \A h \in Ids : IamUsers(u)[h] # None => UserOf[h] = u
BY DEF IamUsers, TypeOK

LEMMA ListEffect ==
  ASSUME GrantInv, NEW j \in Jobs,
         ListForGrant(j) \/ RemoveBucket(j) \/ ListForRevoke(j)
  PROVE  Effect(j)
<1>1. TypeOK /\ ~At(j, "idle") /\ ~Is(j, "rename")
  BY DEF GrantInv, ListForGrant, RemoveBucket, ListForRevoke, Deliver, At, Is, JobInv
<1>2. UNCHANGED <<owner, ever, due, key, row, policy, attached, requests>> /\ ListsStay
  BY ListsUnchanged
  DEF ListForGrant, RemoveBucket, ListForRevoke, buckets, policies, done
<1>3. crossed' \subseteq CrossKind /\ faults' \subseteq FaultKind /\ minio' \subseteq Buckets
  BY <1>1, FaultsStay, CrossStays
  DEF ListForGrant, RemoveBucket, ListForRevoke, Deliver, buckets, done, TypeOK
<1>4. /\ job' \in [Jobs -> JobRecord]
      /\ \A h \in Jobs \ {j} : job'[h] = job[h]
      /\ JobInv(j)'
  <2>1. CASE Work(j, "each", IamUsers(job[j].user), None, {})
    <3>1. "each" \in Place /\ "each" \notin {"add", "attach", "save"}
      BY PlaceMembers
    <3>2. {} \in SUBSET Buckets /\ {} \subseteq ever[job[j].user] /\ None \in Ids \cup {None}
      OBVIOUS
    <3>3. /\ IamUsers(job[j].user) \in [Ids -> Keys \cup {None}]
          /\ \A h \in Ids : IamUsers(job[j].user)[h] # None => UserOf[h] = job[j].user
      BY <1>1, ListType
    <3>4. UNCHANGED ever
      BY <1>2
    <3>5. QED
      BY <1>1, <2>1, <3>1, <3>2, <3>3, <3>4, WorkInv
  <2>2. CASE \E p \in {"queued", "list", "idle"} : Go(j, p)
    BY <1>1, <1>2, <2>2, GoInv, PlaceMembers
  <2>3. CASE UNCHANGED job
    BY <1>1, <1>2, <2>3 DEF GrantInv, TypeOK, JobInv, At, Is, KeyInHand
  <2>4. QED
    BY <2>1, <2>2, <2>3 DEF ListForGrant, RemoveBucket, ListForRevoke
<1>5. QED
  BY <1>1, <1>2, <1>3, <1>4 DEF Effect, TypeOK

LEMMA SkipInv ==
  ASSUME GrantInv, NEW j \in Jobs, NEW i, job[j].place \in WorkPlace, UNCHANGED ever, Skip(j, i)
  PROVE  /\ job' \in [Jobs -> JobRecord]
         /\ \A h \in Jobs \ {j} : job'[h] = job[h]
         /\ JobInv(j)'
<1>1. ~At(j, "idle") /\ ~Is(j, "rename") /\ JobInv(j)
  BY DEF At, WorkPlace, GrantInv, JobInv
<1> DEFINE l == [job[j].list EXCEPT ![i] = None]
<1>2. /\ l \in [Ids -> Keys \cup {None}]
      /\ \A h \in Ids : l[h] # None => UserOf[h] = job[j].user
  BY <1>1, InHand DEF JobInv
<1>3. Work(j, "each", l, None, {})
  BY DEF Skip
<1> HIDE DEF l
<1>4. QED
  BY <1>1, <1>2, <1>3, WorkInv, PlaceMembers

LEMMA ReadEffect ==
  ASSUME GrantInv, NEW j \in Jobs, NEW i \in Ids, ReadPolicy(j, i)
  PROVE  Effect(j)
<1>1. TypeOK /\ JobInv(j) /\ job[j].place \in WorkPlace /\ ~At(j, "idle") /\ ~Is(j, "rename")
  BY DEF GrantInv, ReadPolicy, At, Is, JobInv, WorkPlace
<1>2. /\ UNCHANGED <<owner, minio, ever, due, key, row, attached, requests>>
      /\ crossed' \subseteq CrossKind
  BY <1>1 DEF ReadPolicy, buckets, done, TypeOK
<1>3. /\ job[j].list \in [Ids -> Keys \cup {None}] /\ job[j].list[i] \in Keys
      /\ UserOf[i] = job[j].user
  BY <1>1, InHand DEF ReadPolicy, JobInv
<1>4. ASSUME key[i] # None, Work(j, "add", job[j].list, i, Changed(j, row[i])), NoFault,
             policy' = [policy EXCEPT ![i][job[j].list[i]] = None] \/ UNCHANGED policy
      PROVE  Effect(j)
  <2>1. Changed(j, row[i]) \in SUBSET Buckets /\ Changed(j, row[i]) \subseteq ever[job[j].user]
    <3>1. row[i] \in SUBSET Buckets /\ row[i] \subseteq ever[job[j].user]
      BY <1>1, <1>3 DEF GrantInv, TypeOK
    <3>2. job[j].bucket \in ever[job[j].user] /\ ever[job[j].user] \subseteq Buckets
      BY <1>1, InHand DEF TypeOK
    <3>3. QED
      BY <3>1, <3>2 DEF Changed
  <2>2. ListsStay
    BY <1>2, <1>3, <1>4, PolicyChanges, ListsUnchanged
  <2>3. /\ job' \in [Jobs -> JobRecord]
        /\ \A h \in Jobs \ {j} : job'[h] = job[h]
        /\ JobInv(j)'
    BY <1>1, <1>2, <1>3, <1>4, <2>1, WorkInv, PlaceMembers, NoneAssumption DEF JobInv
  <2>4. QED
    BY <1>1, <1>2, <1>4, <2>2, <2>3, FaultsStay DEF Effect, TypeOK
<1>5. ASSUME Skip(j, i), NoFault \/ Fault("step"), UNCHANGED policy
      PROVE  Effect(j)
  <2>1. ListsStay
    BY <1>2, <1>5, ListsUnchanged
  <2>2. QED
    BY <1>1, <1>2, <1>5, <2>1, SkipInv, FaultsStay DEF Effect, TypeOK
<1>6. QED
  BY <1>4, <1>5 DEF ReadPolicy

LEMMA WriteEffect ==
  ASSUME GrantInv, NEW j \in Jobs, AddPolicy(j) \/ AttachPolicy(j) \/ SavePolicy(j)
  PROVE  Effect(j)
<1> DEFINE i == job[j].id
<1>1. /\ TypeOK /\ job[j].place \in WorkPlace /\ ~At(j, "idle") /\ ~Is(j, "rename")
      /\ Writing(j)
  BY DEF GrantInv, AddPolicy, AttachPolicy, SavePolicy, At, Is, JobInv, WorkPlace, Writing
<1>2. /\ UNCHANGED <<owner, minio, ever, due, key, requests>>
      /\ crossed' \subseteq CrossKind
  BY <1>1 DEF AddPolicy, AttachPolicy, SavePolicy, buckets, done, TypeOK
<1>3. /\ i \in Ids /\ KeyInHand(j) \in Keys
      /\ job[j].doc \in SUBSET Buckets /\ Bounded(job[j].doc, i)
  BY <1>1, InHand
<1>4. faults' \subseteq FaultKind
  BY <1>1, FaultsStay DEF AddPolicy, AttachPolicy, SavePolicy
<1>5. ListsStay
  BY <1>3, PolicyChanges, RowChanges, ListsUnchanged
  DEF AddPolicy, AttachPolicy, SavePolicy, policies
<1>6. attached' \subseteq Ids
  BY <1>1, <1>3 DEF AddPolicy, AttachPolicy, SavePolicy, policies, TypeOK
<1>7. /\ job' \in [Jobs -> JobRecord]
      /\ \A h \in Jobs \ {j} : job'[h] = job[h]
      /\ JobInv(j)'
  <2>1. CASE \E p \in {"attach", "save"} : Go(j, p)
    BY <1>1, <1>2, <2>1, GoInv, PlaceMembers
  <2>2. CASE NextId(j)
    BY <1>1, <1>2, <2>2, SkipInv DEF NextId
  <2>3. QED
    BY <2>1, <2>2 DEF AddPolicy, AttachPolicy, SavePolicy
<1>8. QED
  BY <1>1, <1>2, <1>4, <1>5, <1>6, <1>7 DEF Effect, TypeOK

LEMMA EndEffect ==
  ASSUME GrantInv, NEW j \in Jobs, Ack(j) \/ ConsumerCrash(j)
  PROVE  Effect(j)
<1>1. TypeOK /\ job[j].place \in WorkPlace /\ ~At(j, "idle") /\ ~Is(j, "rename")
  BY DEF GrantInv, Ack, ConsumerCrash, At, Is, JobInv, WorkPlace
<1>2. /\ UNCHANGED <<owner, minio, ever, due, key, row, policy, attached, requests>>
      /\ crossed' \subseteq CrossKind /\ faults' \subseteq FaultKind /\ ListsStay
  BY <1>1, FaultsStay, ListsUnchanged
  DEF Ack, ConsumerCrash, buckets, policies, done, TypeOK
<1>3. CASE Ack(j)
  BY <1>1, <1>2, <1>3, GoInv, PlaceMembers DEF Ack, Effect, TypeOK
<1>4. CASE ConsumerCrash(j)
  <2> DEFINE r == [NoJob EXCEPT !.kind = job[j].kind, !.place = "queued",
                                !.user = job[j].user, !.bucket = job[j].bucket]
  <2>1. job[j] \in JobRecord
    BY <1>1 DEF TypeOK
  <2>2. /\ r \in JobRecord
        /\ r.place = "queued" /\ r.kind = job[j].kind /\ r.user = job[j].user
        /\ r.bucket = job[j].bucket /\ r.doc = {} /\ r.list = NoList
    BY <2>1, NoJobType, PlaceMembers DEF NoJob, JobRecord
  <2>3. job' = [job EXCEPT ![j] = r]
    BY <1>4 DEF ConsumerCrash
  <2> HIDE DEF r
  <2>4. OneJob(j, r)
    BY <1>1, <2>2, <2>3, Replaced
  <2>5. JobInv(j)'
    BY <1>1, <1>2, <2>2, <2>4, InHand, NoListType, ReplacedInv DEF Is
  <2>6. QED
    BY <1>1, <1>2, <2>4, <2>5 DEF Effect, OneJob, TypeOK
<1>5. QED
  BY <1>3, <1>4

LEMMA ConsumerEffect ==
  ASSUME GrantInv, NEW j \in Jobs, ConsumerStep(j) \/ ConsumerCrash(j)
  PROVE  Effect(j)
BY RenameEffect, ListEffect, ReadEffect, WriteEffect, EndEffect DEF ConsumerStep

----------------------------------------------------------------------------
(* GrantInv is inductive. *)

LEMMA OthersInv ==
  ASSUME GrantInv, NEW h \in Jobs, job'[h] = job[h],
         \A u \in Users : ever[u] \subseteq ever'[u]
  PROVE  JobInv(h)'
<1>1. JobInv(h) /\ job[h] \in JobRecord
  BY DEF GrantInv, TypeOK
<1>2. QED
  BY <1>1 DEF JobInv, At, Is, KeyInHand

LEMMA EffectKeeps ==
  ASSUME GrantInv, NEW j \in Jobs, Effect(j)
  PROVE  GrantInv'
<1>1. \A h \in Jobs : JobInv(h)'
  BY OthersInv DEF Effect
<1>2. TypeOK'
  BY DEF Effect, ListsStay, GrantInv, TypeOK
<1>3. /\ \A i \in Ids : row'[i] \subseteq ever'[UserOf[i]]
      /\ \A i \in Ids, k \in Keys :
           policy'[i][k] # None => policy'[i][k] \subseteq ever'[UserOf[i]]
  BY DEF Effect, ListsStay, Bounded
<1>4. QED
  BY <1>1, <1>2, <1>3 DEF Effect, GrantInv

LEMMA Initially == Init => GrantInv
<1> SUFFICES ASSUME Init PROVE GrantInv
  OBVIOUS
<1>1. job = [j \in Jobs |-> NoJob]
  BY DEF Init
<1>2. TypeOK
  BY <1>1, NoJobType DEF Init, TypeOK
<1>3. \A j \in Jobs : JobInv(j)
  BY <1>1, NoJobType DEF JobInv, At
<1>4. QED
  BY <1>2, <1>3, NoneAssumption DEF Init, GrantInv

(* A message that was published, or was not. *)
LEMMA Published ==
  ASSUME GrantInv, NEW j \in Jobs, NEW kind \in {"grant", "revoke"}, NEW u \in Users,
         NEW b \in Buckets, Publish(j, kind, u, b), b \in ever'[u],
         \A v \in Users : ever[v] \subseteq ever'[v]
  PROVE  /\ job' \in [Jobs -> JobRecord] /\ faults' \subseteq FaultKind
         /\ \A h \in Jobs : JobInv(h)'
         /\ job' # job =>
              OneJob(j, [NoJob EXCEPT !.kind = kind, !.place = "queued", !.user = u, !.bucket = b])
<1> DEFINE r == [NoJob EXCEPT !.kind = kind, !.place = "queued", !.user = u, !.bucket = b]
<1>1. TypeOK
  BY DEF GrantInv
<1>2. faults' \subseteq FaultKind
  BY <1>1, FaultsStay DEF Publish
<1>3. /\ r \in JobRecord
      /\ r.place = "queued" /\ r.kind = kind /\ r.user = u
      /\ r.bucket = b /\ r.doc = {} /\ r.list = NoList
  BY NoJobType, PlaceMembers DEF NoJob, JobRecord
<1>4. job' = [job EXCEPT ![j] = r] \/ job' = job
  BY DEF Publish
<1> HIDE DEF r
<1>5. CASE job' = job
  BY <1>1, <1>2, <1>5, OthersInv DEF TypeOK
<1>6. CASE job' = [job EXCEPT ![j] = r]
  <2>1. OneJob(j, r)
    BY <1>1, <1>3, <1>6, Replaced
  <2>2. JobInv(j)'
    BY <1>1, <1>3, <2>1, NoListType DEF OneJob, JobInv, At, Is
  <2>3. \A h \in Jobs : JobInv(h)'
    BY <2>1, <2>2, OthersInv DEF OneJob
  <2>4. QED
    BY <1>2, <2>1, <2>3 DEF OneJob, r
<1>7. QED
  BY <1>4, <1>5, <1>6

LEMMA BucketKeeps ==
  ASSUME GrantInv, NEW j \in Jobs, NEW u \in Users, NEW b \in Buckets,
         CreateBucket(j, u, b) \/ DeleteBucketByID(j, u, b)
  PROVE  GrantInv'
<1>1. TypeOK
  BY DEF GrantInv
<1>2. /\ ever' \in [Users -> SUBSET Buckets] /\ b \in ever'[u]
      /\ \A v \in Users : ever[v] \subseteq ever'[v]
  <2>1. CASE CreateBucket(j, u, b)
    BY <1>1, <2>1 DEF CreateBucket, TypeOK
  <2>2. CASE DeleteBucketByID(j, u, b)
    BY <1>1, <2>2, NoneAssumption DEF DeleteBucketByID, TypeOK, GrantInv
  <2>3. QED
    BY <2>1, <2>2
<1>3. /\ owner' \in [Buckets -> Users \cup {None}] /\ minio' \subseteq Buckets
      /\ due' \in [Ids -> SUBSET Buckets]
      /\ requests' \in Nat
      /\ UNCHANGED <<key, row, policy, attached, crossed>>
  BY <1>1, <1>2, BoundsAssumption DEF GrantInv, CreateBucket, DeleteBucketByID, TypeOK, Ask, policies
<1>4. Publish(j, "grant", u, b) \/ Publish(j, "revoke", u, b)
  BY DEF CreateBucket, DeleteBucketByID
<1>5. /\ job' \in [Jobs -> JobRecord] /\ faults' \subseteq FaultKind
      /\ \A h \in Jobs : JobInv(h)'
  BY <1>2, <1>4, Published
<1>6. TypeOK'
  BY <1>1, <1>2, <1>3, <1>5 DEF TypeOK
<1>7. /\ \A i \in Ids : row'[i] \subseteq ever'[UserOf[i]]
      /\ \A i \in Ids, k \in Keys :
           policy'[i][k] # None => policy'[i][k] \subseteq ever'[UserOf[i]]
  BY <1>2, <1>3, UserOfAssumption DEF GrantInv
<1>8. \A c \in Buckets : owner'[c] # None => c \in ever'[owner'[c]]
  <2>1. \A c \in Buckets : owner'[c] \in {owner[c], u, None} /\ (c # b => owner'[c] = owner[c])
    BY <1>1 DEF CreateBucket, DeleteBucketByID, TypeOK
  <2>2. QED
    BY <1>1, <1>2, <2>1 DEF GrantInv, TypeOK, CreateBucket, DeleteBucketByID
<1>9. QED
  BY <1>3, <1>5, <1>6, <1>7, <1>8 DEF GrantInv

LEMMA IamKeeps ==
  ASSUME GrantInv, NEW i \in Ids, DeleteIAMByID(i) \/ \E k \in Keys : CreateIAM(i, k)
  PROVE  GrantInv'
<1>1. TypeOK
  BY DEF GrantInv
<1>2. UNCHANGED <<owner, minio, ever, job, crossed, faults>>
  BY DEF DeleteIAMByID, CreateIAM, buckets
<1>3. /\ key' \in [Ids -> Keys \cup {None}] /\ attached' \subseteq Ids
      /\ due' \in [Ids -> SUBSET Buckets] /\ requests' \in Nat
      /\ row' = [row EXCEPT ![i] = {}]
  <2>1. /\ \E k \in Keys \cup {None} : key' = [key EXCEPT ![i] = k]
        /\ attached' = attached \cup {i} \/ attached' = attached \ {i}
        /\ due' = due \/ due' = [due EXCEPT ![i] = {}]
        /\ requests' = requests + 1
        /\ row' = [row EXCEPT ![i] = {}]
    BY DEF DeleteIAMByID, CreateIAM, Ask, buckets
  <2>2. key' \in [Ids -> Keys \cup {None}]
    BY <1>1, <2>1 DEF TypeOK
  <2>3. attached' \subseteq Ids /\ requests' \in Nat
    BY <1>1, <2>1 DEF TypeOK
  <2>4. due' \in [Ids -> SUBSET Buckets]
    BY <1>1, <2>1 DEF TypeOK
  <2>5. QED
    BY <2>1, <2>2, <2>3, <2>4
<1>4. row' \in [Ids -> SUBSET Buckets] /\ \A h \in Ids : row'[h] \subseteq ever[UserOf[h]]
  BY <1>1, <1>3 DEF GrantInv, TypeOK
<1>5. /\ policy' \in [Ids -> [Keys -> (SUBSET Buckets) \cup {None}]]
      /\ \A h \in Ids, k \in Keys :
           policy'[h][k] # None => policy'[h][k] \subseteq ever[UserOf[h]]
  <2>1. CASE UNCHANGED policy
    BY <1>1, <2>1 DEF GrantInv, TypeOK
  <2>2. ASSUME NEW k \in Keys, policy' = [policy EXCEPT ![i][k] = {}]
        PROVE  /\ policy' \in [Ids -> [Keys -> (SUBSET Buckets) \cup {None}]]
               /\ \A h \in Ids, l \in Keys :
                    policy'[h][l] # None => policy'[h][l] \subseteq ever[UserOf[h]]
    <3>1. policy \in [Ids -> [Keys -> (SUBSET Buckets) \cup {None}]]
      BY <1>1 DEF TypeOK
    <3> DEFINE f == [policy[i] EXCEPT ![k] = {}]
    <3>2. f \in [Keys -> (SUBSET Buckets) \cup {None}]
          /\ \A l \in Keys : f[l] \in {{}, policy[i][l]}
      BY <3>1
    <3>3. policy' = [policy EXCEPT ![i] = f]
      BY <2>2
    <3> HIDE DEF f
    <3>4. QED
      BY <3>1, <3>2, <3>3 DEF GrantInv
  <2>3. CASE DeleteIAMByID(i)
    BY <2>1, <2>3 DEF DeleteIAMByID
  <2>4. ASSUME NEW k \in Keys, CreateIAM(i, k)
        PROVE  policy' = [policy EXCEPT ![i][k] = {}]
    BY <2>4 DEF CreateIAM
  <2>5. QED
    BY <2>2, <2>3, <2>4
<1>6. \A h \in Jobs : JobInv(h)'
  BY <1>2, OthersInv
<1>7. QED
  BY <1>1, <1>2, <1>3, <1>4, <1>5, <1>6 DEF GrantInv, TypeOK

LEMMA RenameType ==
  ASSUME TypeOK, NEW i \in Ids, NEW k \in Keys, key[i] # None
  PROVE  LET r == RenameMessage(i, k) IN
           /\ r \in JobRecord /\ r.kind = "rename" /\ r.place = "queued"
           /\ r.user = UserOf[i] /\ r.id = i /\ r.key = k /\ r.doc = row[i]
           /\ r.list[i] # None /\ \A h \in Ids \ {i} : r.list[h] = None
<1> DEFINE l == [NoList EXCEPT ![i] = key[i]]
<1>1. /\ l \in [Ids -> Keys \cup {None}] /\ l[i] = key[i]
      /\ \A h \in Ids \ {i} : l[h] = None
  BY NoListType DEF TypeOK
<1>2. UserOf[i] \in Users /\ row[i] \in SUBSET Buckets
  BY UserOfAssumption DEF TypeOK
<1> HIDE DEF l
<1>3. RenameMessage(i, k) = [kind |-> "rename", place |-> "queued", user |-> UserOf[i],
                            bucket |-> None, list |-> l, id |-> i, key |-> k, doc |-> row[i]]
  BY DEF RenameMessage, Snapshot, l
<1>4. QED
  BY <1>1, <1>2, <1>3, PlaceMembers DEF JobRecord

LEMMA CredentialsKeep ==
  ASSUME GrantInv, NEW j \in Jobs, NEW i \in Ids, NEW k \in Keys, UpdateIAMCredentials(j, i, k)
  PROVE  /\ GrantInv'
         /\ job' = job \/ OneJob(j, RenameMessage(i, k))
<1> DEFINE r == RenameMessage(i, k)
<1>1. TypeOK /\ key[i] # None
  BY DEF GrantInv, UpdateIAMCredentials
<1>2. /\ UNCHANGED <<owner, minio, ever, due, row, policy>>
      /\ crossed' \subseteq CrossKind /\ requests' \in Nat
      /\ key' \in [Ids -> Keys \cup {None}] /\ attached' \subseteq Ids
      /\ faults' \subseteq FaultKind
  <2>1. /\ UNCHANGED <<owner, minio, ever, due, row, policy>>
        /\ Cross(Busy(UserOf[i]), FALSE) /\ Ask
        /\ key' = [key EXCEPT ![i] = k] /\ attached' = attached \ {i}
        /\ NoFault \/ Fault("publish")
    BY DEF UpdateIAMCredentials, buckets
  <2>2. faults' \subseteq FaultKind /\ crossed' \subseteq CrossKind
    BY <1>1, <2>1, FaultsStay, CrossStays
  <2>3. requests' \in Nat
    BY <1>1, <2>1 DEF Ask, TypeOK
  <2>4. QED
    BY <1>1, <2>1, <2>2, <2>3 DEF TypeOK
<1>3. job' = job \/ job' = [job EXCEPT ![j] = r]
  BY DEF UpdateIAMCredentials
<1>4. /\ r \in JobRecord /\ r.kind = "rename" /\ r.place = "queued"
      /\ r.user = UserOf[i] /\ r.id = i /\ r.key = k /\ r.doc = row[i]
      /\ r.list[i] # None /\ \A h \in Ids \ {i} : r.list[h] = None
  BY <1>1, RenameType
<1> HIDE DEF r
<1>5. job' = job \/ OneJob(j, r)
  BY <1>1, <1>3, <1>4, Replaced
<1>6. job' \in [Jobs -> JobRecord] /\ \A h \in Jobs : JobInv(h)'
  <2>1. CASE job' = job
    BY <1>1, <1>2, <2>1, OthersInv DEF TypeOK
  <2>2. CASE OneJob(j, r)
    <3>1. JobInv(j)'
      <4>1. k # None /\ UserOf[i] \in Users
        BY NoneAssumption, UserOfAssumption
      <4>2. row[i] \subseteq ever[UserOf[i]]
        BY DEF GrantInv
      <4>3. job'[j] = r
        BY <2>2 DEF OneJob
      <4>4. QED
        BY <1>2, <1>4, <4>1, <4>2, <4>3 DEF JobInv, At, Is, KeyInHand
    <3>2. QED
      BY <1>2, <2>2, <3>1, OthersInv DEF OneJob
  <2>3. QED
    BY <1>5, <2>1, <2>2
<1>7. GrantInv'
  BY <1>1, <1>2, <1>6 DEF GrantInv, TypeOK
<1>8. QED
  BY <1>5, <1>7 DEF r

LEMMA StutterKeeps == GrantInv /\ UNCHANGED vars => GrantInv'
<1> SUFFICES ASSUME GrantInv, UNCHANGED vars PROVE GrantInv'
  OBVIOUS
<1>1. \A h \in Jobs : JobInv(h)'
  BY OthersInv DEF vars
<1>2. QED
  BY <1>1 DEF GrantInv, TypeOK, vars

LEMMA GrantInvKept == GrantInv /\ [Next]_vars => GrantInv'
<1> SUFFICES ASSUME GrantInv, [Next]_vars PROVE GrantInv'
  OBVIOUS
<1>1. CASE Request
  BY <1>1, BucketKeeps, IamKeeps, CredentialsKeep DEF Request
<1>2. CASE \E j \in Jobs : ConsumerStep(j) \/ ConsumerCrash(j)
  BY <1>2, ConsumerEffect, EffectKeeps
<1>3. CASE UNCHANGED vars
  BY <1>3, StutterKeeps
<1>4. QED
  BY <1>1, <1>2, <1>3 DEF Next

(* Every variable keeps its type, and with it every field of a message. *)
THEOREM TypeCorrect == Spec => []TypeOK
<1>1. GrantInv => TypeOK
  BY DEF GrantInv
<1>2. QED
  BY <1>1, Initially, GrantInvKept, PTL DEF Spec

(* However messages overlap, fail and come again, an IAM user is never     *)
(* listed for a bucket that its user never had, in Postgres or in MinIO.   *)
THEOREM GrantsWereTheUsers == Spec => []GrantsWereOwned
<1>1. GrantInv => GrantsWereOwned
  <2> SUFFICES ASSUME GrantInv, NEW i \in Ids
               PROVE  /\ row[i] \subseteq ever[UserOf[i]]
                      /\ key[i] # None => Granted(i) \subseteq ever[UserOf[i]]
    BY DEF GrantsWereOwned
  <2>1. key[i] \in Keys \cup {None}
    BY DEF GrantInv, TypeOK
  <2>2. QED
    BY <2>1 DEF GrantInv, Granted
<1>2. QED
  BY <1>1, Initially, GrantInvKept, PTL DEF Spec

----------------------------------------------------------------------------
(* Messages that do not overlap write what they read. *)

UsersApart ==
  \A j, h \in Jobs : (j # h /\ Working(j) /\ Working(h)) => job[j].user # job[h].user
HoldsRow(j) ==
  (Writing(j) /\ key[job[j].id] # None) => job[j].doc = Changed(j, row[job[j].id])

(* Who starts to work finds nobody at work for its user. *)
LEMMA ApartKept ==
  ASSUME UsersApart, NEW j \in Jobs, \A h \in Jobs \ {j} : job'[h] = job[h],
         Working(j)' => \/ Working(j) /\ job'[j].user = job[j].user
                        \/ \A h \in Jobs \ {j} : Working(h) => job[h].user # job'[j].user
  PROVE  UsersApart'
<1>1. \A h \in Jobs \ {j} : Working(h)' <=> Working(h)
  BY DEF Working, At, Is
<1>2. QED
  BY <1>1 DEF UsersApart

LEMMA NotBusy ==
  ASSUME NEW o, NEW u, Cross(Busy(u), o), "overlap" \notin crossed'
  PROVE  \A h \in Jobs : Working(h) => job[h].user # u
BY DEF Cross, Busy, CrossKind

LEMMA RowKept ==
  ASSUME NEW h \in Jobs, HoldsRow(h), job'[h] = job[h],
         Writing(h) => /\ row'[job[h].id] = row[job[h].id]
                       /\ key'[job[h].id] # None => key[job[h].id] # None
  PROVE  HoldsRow(h)'
BY DEF HoldsRow, Writing, Changed, Is

(* How a message looks after a step of its own. *)
LEMMA Afterwards ==
  ASSUME GrantInv, NEW j \in Jobs
  PROVE  /\ Go(j, "idle") => job'[j].place = "idle"
         /\ \A p \in Place \ {"idle"} : Go(j, p) =>
              /\ job'[j].place = p /\ job'[j].user = job[j].user /\ job'[j].kind = job[j].kind
              /\ job'[j].bucket = job[j].bucket /\ job'[j].id = job[j].id
              /\ job'[j].doc = job[j].doc
         /\ \A p, l, i, d : Work(j, p, l, i, d) =>
              /\ job'[j].place = p /\ job'[j].user = job[j].user /\ job'[j].kind = job[j].kind
              /\ job'[j].bucket = job[j].bucket /\ job'[j].id = i /\ job'[j].doc = d
<1>1. TypeOK
  BY DEF GrantInv
<1>2. Go(j, "idle") => job'[j].place = "idle"
  BY <1>1, Stopped, NoJobType DEF OneJob
<1>3. ASSUME NEW p \in Place \ {"idle"}, Go(j, p)
      PROVE  /\ job'[j].place = p /\ job'[j].user = job[j].user /\ job'[j].kind = job[j].kind
             /\ job'[j].bucket = job[j].bucket /\ job'[j].id = job[j].id
             /\ job'[j].doc = job[j].doc
  <2> DEFINE r == [kind |-> job[j].kind, place |-> p, user |-> job[j].user,
                   bucket |-> job[j].bucket, list |-> job[j].list, id |-> job[j].id,
                   key |-> job[j].key, doc |-> job[j].doc]
  <2>1. OneJob(j, r)
    BY <1>1, <1>3, Moved
  <2>2. /\ r.place = p /\ r.user = job[j].user /\ r.kind = job[j].kind
        /\ r.bucket = job[j].bucket /\ r.id = job[j].id /\ r.doc = job[j].doc
    OBVIOUS
  <2> HIDE DEF r
  <2>3. QED
    BY <2>1, <2>2 DEF OneJob
<1>4. ASSUME NEW p, NEW l, NEW i, NEW d, Work(j, p, l, i, d)
      PROVE  /\ job'[j].place = p /\ job'[j].user = job[j].user /\ job'[j].kind = job[j].kind
             /\ job'[j].bucket = job[j].bucket /\ job'[j].id = i /\ job'[j].doc = d
  BY <1>1, <1>4 DEF Work, TypeOK
<1>5. QED
  BY <1>2, <1>3, <1>4

(* The steps in which neither the row nor the user of a message changes. *)
LEMMA ApartByStep ==
  ASSUME GrantInv, ApartInv, NEW j \in Jobs, ConsumerStep(j) \/ ConsumerCrash(j),
         "overlap" \notin crossed'
  PROVE  UsersApart'
<1>1. UsersApart /\ \A h \in Jobs \ {j} : job'[h] = job[h]
  BY ConsumerEffect DEF ApartInv, UsersApart, Effect
<1>2. CASE RenamePolicy(j) \/ Ack(j) \/ ConsumerCrash(j)
  <2>1. job'[j].place = "idle" \/ (job'[j].place = "queued" /\ job'[j].kind # "rename")
    <3>1. CASE RenamePolicy(j) \/ Ack(j)
      BY <3>1, Afterwards DEF RenamePolicy, Ack
    <3>2. CASE ConsumerCrash(j)
      <4> DEFINE r == [NoJob EXCEPT !.kind = job[j].kind, !.place = "queued",
                                    !.user = job[j].user, !.bucket = job[j].bucket]
      <4>1. r.place = "queued" /\ r.kind = job[j].kind
        BY DEF NoJob
      <4>2. job' = [job EXCEPT ![j] = r] /\ job \in [Jobs -> JobRecord]
        BY <3>2 DEF ConsumerCrash, GrantInv, TypeOK
      <4> HIDE DEF r
      <4>3. job[j].kind # "rename"
        BY <3>2 DEF ConsumerCrash, GrantInv, JobInv, At, Is, WorkPlace
      <4>4. QED
        BY <4>1, <4>2, <4>3
    <3>3. QED
      BY <1>2, <3>1, <3>2
  <2>2. ~Working(j)'
    BY <2>1 DEF Working, At, Is, WorkPlace
  <2>3. QED
    BY <1>1, <2>2, ApartKept
<1>3. CASE ListForGrant(j) \/ RemoveBucket(j)
  <2>1. /\ \A h \in Jobs : Working(h) => job[h].user # job[j].user
    BY <1>3, NotBusy DEF ListForGrant, RemoveBucket, Deliver
  <2>2. job'[j].user = job[j].user
    BY <1>3, Afterwards, PlaceMembers DEF ListForGrant, RemoveBucket
  <2>3. QED
    BY <1>1, <2>1, <2>2, ApartKept
<1>4. CASE ListForRevoke(j) \/ (\E i \in Ids : ReadPolicy(j, i))
           \/ AddPolicy(j) \/ AttachPolicy(j) \/ SavePolicy(j)
  <2>1. Working(j)
    BY <1>4 DEF Working, WorkPlace, At, ListForRevoke, ReadPolicy, AddPolicy, AttachPolicy,
       SavePolicy
  <2>2. job'[j].place = "idle" \/ job'[j].user = job[j].user
    BY <1>4, Afterwards, PlaceMembers
    DEF ListForRevoke, ReadPolicy, AddPolicy, AttachPolicy, SavePolicy, NextId, Skip
  <2>3. Working(j)' => job'[j].user = job[j].user
    BY <2>2 DEF Working, WorkPlace, At, Is
  <2>4. QED
    BY <1>1, <2>1, <2>3, ApartKept
<1>5. QED
  BY <1>2, <1>3, <1>4 DEF ConsumerStep

(* The message that steps: it reads the row, or it holds what it held.     *)
LEMMA HoldsByStep ==
  ASSUME GrantInv, ApartInv, NEW j \in Jobs, ConsumerStep(j) \/ ConsumerCrash(j)
  PROVE  HoldsRow(j)'
<1>1. HoldsRow(j) /\ UNCHANGED key
  BY ConsumerEffect DEF ApartInv, HoldsRow, Effect
<1>2. CASE job'[j].place \notin {"add", "attach", "save"}
  BY <1>2 DEF HoldsRow, Writing
<1>3. CASE \E i \in Ids : Work(j, "add", job[j].list, i, Changed(j, row[i])) /\ UNCHANGED row
  <2>1. PICK i \in Ids : Work(j, "add", job[j].list, i, Changed(j, row[i])) /\ UNCHANGED row
    BY <1>3
  <2> DEFINE d == Changed(j, row[i])
  <2>2. Work(j, "add", job[j].list, i, d)
    BY <2>1
  <2> HIDE DEF d
  <2>3. /\ job'[j].kind = job[j].kind /\ job'[j].bucket = job[j].bucket
        /\ job'[j].id = i /\ job'[j].doc = d
    BY <2>2, Afterwards
  <2>4. QED
    BY <2>1, <2>3 DEF d, HoldsRow, Changed, Is
<1>4. CASE Writing(j) /\ (Go(j, "attach") \/ Go(j, "save")) /\ UNCHANGED row
  <2>1. /\ job'[j].kind = job[j].kind /\ job'[j].bucket = job[j].bucket
        /\ job'[j].id = job[j].id /\ job'[j].doc = job[j].doc
    BY <1>4, Afterwards, PlaceMembers
  <2>2. QED
    BY <1>1, <1>4, <2>1 DEF HoldsRow, Changed, Is
<1>5. \/ job'[j].place \notin {"add", "attach", "save"}
      \/ \E i \in Ids : Work(j, "add", job[j].list, i, Changed(j, row[i])) /\ UNCHANGED row
      \/ Writing(j) /\ (Go(j, "attach") \/ Go(j, "save")) /\ UNCHANGED row
  <2>1. CASE RenamePolicy(j) \/ Ack(j)
    BY <2>1, Afterwards DEF RenamePolicy, Ack
  <2>2. CASE ConsumerCrash(j)
    <3>1. job'[j] = [NoJob EXCEPT !.kind = job[j].kind, !.place = "queued",
                                  !.user = job[j].user, !.bucket = job[j].bucket]
      BY <2>2 DEF ConsumerCrash, GrantInv, TypeOK
    <3>2. QED
      BY <3>1 DEF NoJob
  <2>3. CASE ListForGrant(j) \/ RemoveBucket(j) \/ ListForRevoke(j)
    <3>1. CASE UNCHANGED job
      BY <2>3, <3>1 DEF ListForGrant, RemoveBucket, ListForRevoke, Deliver, At
    <3>2. CASE ~UNCHANGED job
      BY <2>3, <3>2, Afterwards, PlaceMembers DEF ListForGrant, RemoveBucket, ListForRevoke
    <3>3. QED
      BY <3>1, <3>2
  <2>4. CASE \E i \in Ids : ReadPolicy(j, i)
    BY <2>4, Afterwards DEF ReadPolicy, Skip
  <2>5. CASE AddPolicy(j) \/ AttachPolicy(j) \/ SavePolicy(j)
    BY <2>5, Afterwards DEF AddPolicy, AttachPolicy, SavePolicy, NextId, Skip, Writing, At
  <2>6. QED
    BY <2>1, <2>2, <2>3, <2>4, <2>5 DEF ConsumerStep
<1>6. QED
  BY <1>2, <1>3, <1>4, <1>5

(* The other messages: a row changes under none of them. *)
LEMMA HoldsByOthers ==
  ASSUME GrantInv, ApartInv, NEW j \in Jobs, ConsumerStep(j) \/ ConsumerCrash(j),
         NEW h \in Jobs \ {j}
  PROVE  HoldsRow(h)'
<1>1. HoldsRow(h) /\ job'[h] = job[h] /\ UNCHANGED key
  BY ConsumerEffect DEF ApartInv, HoldsRow, Effect
<1>2. CASE SavePolicy(j)
  <2>1. \A i \in Ids : i # job[j].id => row'[i] = row[i]
    BY <1>2 DEF SavePolicy, GrantInv, TypeOK
  <2>2. Writing(h) => job[h].id # job[j].id /\ job[h].id \in Ids
    <3>1. ~At(j, "idle") /\ Writing(j) /\ Working(j)
      BY <1>2 DEF SavePolicy, At, Writing, Working, WorkPlace
    <3>2. Writing(h) => ~At(h, "idle") /\ Working(h)
      BY DEF At, Writing, Working, WorkPlace
    <3>3. QED
      BY <3>1, <3>2, InHand DEF ApartInv
  <2>3. QED
    BY <1>1, <2>1, <2>2, RowKept
<1>3. CASE UNCHANGED row
  BY <1>1, <1>3, RowKept
<1>4. SavePolicy(j) \/ UNCHANGED row
  BY DEF ConsumerStep, ConsumerCrash, RenamePolicy, ListForGrant, RemoveBucket, ListForRevoke,
     ReadPolicy, AddPolicy, AttachPolicy, Ack
<1>5. QED
  BY <1>2, <1>3, <1>4

(* The requests. *)
LEMMA ApartByRequest ==
  ASSUME GrantInv, ApartInv, Request, "overlap" \notin crossed'
  PROVE  ApartInv'
<1>0. UsersApart /\ (\A h \in Jobs : HoldsRow(h)) /\ TypeOK
  BY DEF ApartInv, UsersApart, HoldsRow, GrantInv
<1>1. ASSUME NEW j \in Jobs, NEW u \in Users, NEW b \in Buckets,
             CreateBucket(j, u, b) \/ DeleteBucketByID(j, u, b)
      PROVE  UsersApart' /\ \A h \in Jobs : HoldsRow(h)'
  <2>1. /\ UNCHANGED <<key, row>>
        /\ \A h \in Jobs \ {j} : job'[h] = job[h]
        /\ job' = job \/ (job'[j].place = "queued" /\ job'[j].kind # "rename")
    <3>1. UNCHANGED <<key, row>> /\ (Publish(j, "grant", u, b) \/ Publish(j, "revoke", u, b))
      BY <1>1 DEF CreateBucket, DeleteBucketByID
    <3>2. b \in ever'[u] /\ \A v \in Users : ever[v] \subseteq ever'[v]
      BY <1>0, <1>1, NoneAssumption DEF CreateBucket, DeleteBucketByID, TypeOK, GrantInv
    <3>3. \/ job' = job
          \/ \E kind \in {"grant", "revoke"} :
               OneJob(j, [NoJob EXCEPT !.kind = kind, !.place = "queued", !.user = u, !.bucket = b])
      BY <3>1, <3>2, Published
    <3>4. QED
      BY <3>1, <3>3 DEF OneJob, NoJob
  <2>2. CASE job' = job
    BY <1>0, <2>1, <2>2, RowKept, ApartKept DEF Working, At, Is
  <2>3. CASE job'[j].place = "queued" /\ job'[j].kind # "rename"
    <3>1. ~Working(j)' /\ HoldsRow(j)'
      BY <2>3 DEF Working, At, Is, WorkPlace, HoldsRow, Writing
    <3>2. QED
      BY <1>0, <2>1, <3>1, RowKept, ApartKept
  <2>4. QED
    BY <2>1, <2>2, <2>3
<1>2. ASSUME NEW i \in Ids, DeleteIAMByID(i) \/ \E k \in Keys : CreateIAM(i, k)
      PROVE  UsersApart' /\ \A h \in Jobs : HoldsRow(h)'
  <2>1. /\ UNCHANGED job
        /\ \A l \in Ids \ {i} : row'[l] = row[l] /\ key'[l] = key[l]
        /\ key'[i] = None \/ \A h \in Jobs : job[h].id # i
    BY <1>0, <1>2 DEF DeleteIAMByID, CreateIAM, TypeOK
  <2>2. UsersApart'
    BY <1>0, <2>1 DEF UsersApart, Working, At, Is
  <2>3. ASSUME NEW h \in Jobs PROVE HoldsRow(h)'
    <3>1. Writing(h) => job[h].id \in Ids
      BY InHand DEF Writing, At
    <3>2. QED
      BY <1>0, <2>1, <3>1 DEF HoldsRow, Writing, Changed, Is
  <2>4. QED
    BY <2>2, <2>3
<1>3. ASSUME NEW j \in Jobs, NEW i \in Ids, NEW k \in Keys, UpdateIAMCredentials(j, i, k)
      PROVE  UsersApart' /\ \A h \in Jobs : HoldsRow(h)'
  <2>1. /\ UNCHANGED row
        /\ \A l \in Ids : key'[l] # None => key[l] # None
        /\ \A h \in Jobs : Working(h) => job[h].user # UserOf[i]
    BY <1>0, <1>3, NotBusy DEF UpdateIAMCredentials, TypeOK
  <2>2. job' = job \/ OneJob(j, RenameMessage(i, k))
    BY <1>3, CredentialsKeep
  <2>3. ASSUME NEW h \in Jobs, job'[h] = job[h] PROVE HoldsRow(h)'
    <3>1. Writing(h) => job[h].id \in Ids
      BY InHand DEF Writing, At
    <3>2. QED
      BY <1>0, <2>1, <2>3, <3>1, RowKept
  <2>4. CASE job' = job
    BY <1>0, <2>3, <2>4 DEF UsersApart, Working, At, Is
  <2>5. CASE OneJob(j, RenameMessage(i, k))
    <3>1. job'[j].place = "queued" /\ job'[j].user = UserOf[i]
      BY <1>0, <1>3, <2>5, RenameType DEF OneJob, UpdateIAMCredentials
    <3>2. HoldsRow(j)'
      BY <3>1 DEF HoldsRow, Writing
    <3>3. QED
      BY <1>0, <2>1, <2>3, <2>5, <3>1, <3>2, ApartKept DEF OneJob
  <2>6. QED
    BY <2>2, <2>4, <2>5
<1>4. QED
  BY <1>1, <1>2, <1>3 DEF Request, ApartInv, UsersApart, HoldsRow

LEMMA IndInvKept == IndInv /\ [Next]_vars => IndInv'
<1> SUFFICES ASSUME IndInv, [Next]_vars, "overlap" \notin crossed' PROVE ApartInv'
  BY GrantInvKept DEF IndInv
<1>1. GrantInv
  BY DEF IndInv
<1>2. CASE Request
  <2>1. "overlap" \notin crossed
    BY <1>2 DEF Request, CreateBucket, DeleteBucketByID, DeleteIAMByID, CreateIAM,
       UpdateIAMCredentials, Cross
  <2>2. QED
    BY <1>1, <1>2, <2>1, ApartByRequest DEF IndInv
<1>3. ASSUME NEW j \in Jobs, ConsumerStep(j) \/ ConsumerCrash(j)
      PROVE  ApartInv'
  <2>1. "overlap" \notin crossed
    BY <1>3 DEF ConsumerStep, ConsumerCrash, RenamePolicy, ListForGrant, RemoveBucket,
       ListForRevoke, ReadPolicy, AddPolicy, AttachPolicy, SavePolicy, Ack, Deliver, Cross, done
  <2>2. UsersApart' /\ \A h \in Jobs : HoldsRow(h)'
    BY <1>1, <1>3, <2>1, ApartByStep, HoldsByStep, HoldsByOthers DEF IndInv
  <2>3. QED
    BY <2>2 DEF ApartInv, UsersApart, HoldsRow
<1>4. CASE UNCHANGED vars
  BY <1>4 DEF vars, IndInv, ApartInv, Working, Writing, At, Is, Changed
<1>5. QED
  BY <1>2, <1>3, <1>4 DEF Next

(* Between a read and the write that ends it nobody else writes, as long   *)
(* as no two messages are at work for one user: the other buckets stay.    *)
THEOREM NoGrantIsLost == Spec => OtherBucketsKept
<1>1. Init => IndInv
  <2> SUFFICES ASSUME Init PROVE ApartInv
    BY Initially DEF IndInv
  <2>1. \A j \in Jobs : job[j].place = "idle" /\ job[j].kind = "grant"
    BY NoJobType DEF Init
  <2>2. QED
    BY <2>1 DEF ApartInv, Working, Writing, At, Is, WorkPlace
<1>2. IndInv /\ [Next]_vars =>
        [\A i \in Ids :
           ("overlap" \notin crossed /\ row'[i] # row[i] /\ key[i] # None /\ key'[i] # None) =>
             \E j \in Jobs :
               At(j, "save") /\ row'[i] \ {job[j].bucket} = row[i] \ {job[j].bucket}]_vars
  <2> SUFFICES ASSUME IndInv, Next, NEW i \in Ids, "overlap" \notin crossed,
                      row'[i] # row[i], key[i] # None, key'[i] # None
               PROVE  \E j \in Jobs :
                        /\ At(j, "save")
                        /\ row'[i] \ {job[j].bucket} = row[i] \ {job[j].bucket}
    BY DEF vars
  <2>1. TypeOK /\ ApartInv
    BY DEF IndInv, GrantInv
  <2>2. PICK j \in Jobs : SavePolicy(j)
    <3>1. ASSUME NEW l \in Ids, DeleteIAMByID(l) \/ \E k \in Keys : CreateIAM(l, k)
          PROVE  FALSE
      BY <2>1, <3>1 DEF DeleteIAMByID, CreateIAM, TypeOK
    <3>2. ~Request
      BY <3>1 DEF Request, CreateBucket, DeleteBucketByID, UpdateIAMCredentials
    <3>3. QED
      BY <3>2 DEF Next, ConsumerStep, ConsumerCrash, RenamePolicy, ListForGrant, RemoveBucket,
         ListForRevoke, ReadPolicy, AddPolicy, AttachPolicy, Ack
  <2>3. At(j, "save") /\ job[j].id = i /\ row'[i] = job[j].doc
    BY <2>1, <2>2 DEF SavePolicy, TypeOK
  <2>4. job[j].doc = Changed(j, row[i])
    BY <2>1, <2>3 DEF ApartInv, Writing, At
  <2>5. QED
    BY <2>3, <2>4 DEF Changed
<1>3. QED
  BY <1>1, <1>2, IndInvKept, PTL DEF Spec, OtherBucketsKept

=============================================================================
