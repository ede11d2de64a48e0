-------------------- MODULE BucketGrants_settled_proofs --------------------
(***************************************************************************)
(* What holds once the messages are done with, for every set of users, IAM *)
(* users, keys, buckets and messages: the stores agree, a deleted bucket   *)
(* is in no list and a created one in every list.  The invariants follow   *)
(* the messages by their place.                                            *)
(***************************************************************************)
EXTENDS BucketGrants_proofs

----------------------------------------------------------------------------
(* What stays. *)

LoopPlace(p) == p \in {"each", "add", "attach", "save"}
Good(i) == key[i] # None => Agrees(i) \/ \E j \in Jobs : Mends(j, i)

LEMMA ListAfterwards ==
  ASSUME GrantInv, NEW j \in Jobs
  PROVE  /\ \A p \in Place \ {"idle"} : Go(j, p) => job'[j].list = job[j].list
         /\ \A p, l, i, d : Work(j, p, l, i, d) => job'[j].list = l
<1>1. TypeOK
  BY DEF GrantInv
<1>2. ASSUME NEW p \in Place \ {"idle"}, Go(j, p) PROVE job'[j].list = job[j].list
  <2> DEFINE r == [kind |-> job[j].kind, place |-> p, user |-> job[j].user,
                   bucket |-> job[j].bucket, list |-> job[j].list, id |-> job[j].id,
                   key |-> job[j].key, doc |-> job[j].doc]
  <2>1. OneJob(j, r)
    BY <1>1, <1>2, Moved
  <2>2. r.list = job[j].list
    OBVIOUS
  <2> HIDE DEF r
  <2>3. QED
    BY <2>1, <2>2 DEF OneJob
<1>3. ASSUME NEW p, NEW l, NEW i, NEW d, Work(j, p, l, i, d) PROVE job'[j].list = l
  BY <1>1, <1>3 DEF Work, TypeOK
<1>4. QED
  BY <1>2, <1>3

(* What has failed or crossed has done so for good. *)
LEMMA HistoryGrows ==
  ASSUME Next
  PROVE  crossed \subseteq crossed' /\ faults \subseteq faults'
<1>1. CASE Request
  BY <1>1 DEF Request, CreateBucket, DeleteBucketByID, DeleteIAMByID, CreateIAM,
     UpdateIAMCredentials, Publish, Cross, Fault, NoFault
<1>2. ASSUME NEW j \in Jobs, ConsumerStep(j) \/ ConsumerCrash(j)
      PROVE  crossed \subseteq crossed' /\ faults \subseteq faults'
  BY <1>2 DEF ConsumerStep, ConsumerCrash, RenamePolicy, ListForGrant, RemoveBucket,
     ListForRevoke, ReadPolicy, AddPolicy, AttachPolicy, SavePolicy, Ack, Deliver, Cross, done,
     Fault, NoFault
<1>3. QED
  BY <1>1, <1>2 DEF Next

LEMMA RecoverableBefore ==
  ASSUME Next, Recoverable'
  PROVE  Recoverable
BY HistoryGrows DEF Recoverable, Without

LEMMA NothingMissed ==
  ASSUME Recoverable'
  PROVE  ~Fault("publish") /\ ~Fault("step") /\ ~Fault("reply")
BY DEF Recoverable, Without, Fault

(* A message that does not step knows what it knew, unless somebody works  *)
(* for its user.                                                           *)
LEMMA CurrentKept ==
  ASSUME GrantInv, NEW h \in Jobs, Current(h), job'[h] = job[h],
         \A i \in Ids : (Working(h) /\ UserOf[i] = job[h].user) =>
           \/ key'[i] = None
           \/ job[h].list[i] = None /\ job[h].id # i
           \/ /\ key'[i] = key[i] /\ row'[i] = row[i] /\ policy'[i] = policy[i]
              /\ i \in attached => i \in attached',
         (Is(h, "rename") /\ At(h, "queued")) =>
           key'[job[h].id] = key[job[h].id] /\ row'[job[h].id] = row[job[h].id]
  PROVE  Current(h)'
<1>1. Writing(h) \/ At(h, "each") => Working(h) /\ ~At(h, "idle")
  BY DEF Working, Writing, At, WorkPlace
<1>2. Writing(h) => job[h].id \in Ids /\ UserOf[job[h].id] = job[h].user
  BY <1>1, InHand
<1>3. ASSUME NEW i \in Ids, Writing(h) \/ At(h, "each"), job[h].list[i] # None, key'[i] # None
      PROVE  job[h].list[i] = key'[i]
  <2>1. UserOf[i] = job[h].user
    BY <1>1, <1>3 DEF GrantInv, JobInv
  <2>2. QED
    BY <1>1, <1>3, <2>1 DEF Current
<1>4. ASSUME Writing(h), key'[job[h].id] # None
      PROVE  /\ key'[job[h].id] = key[job[h].id] /\ row'[job[h].id] = row[job[h].id]
             /\ policy'[job[h].id] = policy[job[h].id]
             /\ job[h].id \in attached => job[h].id \in attached'
  BY <1>1, <1>2, <1>4
<1>5. QED
  BY <1>3, <1>4 DEF Current, Writing, At, Is

LEMMA MendsKept ==
  ASSUME NEW i \in Ids, NEW h \in Jobs, Mends(h, i),
         job'[h] = job[h], row'[i] = row[i], faults \subseteq faults'
  PROVE  Mends(h, i)'
BY DEF Mends, Pending, Is, At, Writing

(* An IAM user that a step does not touch. *)
LEMMA GoodKept ==
  ASSUME NEW i \in Ids, NEW j \in Jobs, Good(i), \A h \in Jobs \ {j} : job'[h] = job[h],
         row'[i] = row[i], policy'[i] = policy[i], key'[i] = key[i],
         i \in attached => i \in attached', faults \subseteq faults',
         (key[i] # None /\ Mends(j, i)) => Mends(j, i)'
  PROVE  Good(i)'
<1>1. CASE key[i] = None
  BY <1>1 DEF Good
<1>2. CASE key[i] # None /\ Agrees(i)
  BY <1>2 DEF Good, Agrees
<1>3. CASE \E h \in Jobs : key[i] # None /\ Mends(h, i)
  BY <1>3, MendsKept DEF Good
<1>4. QED
  BY <1>1, <1>2, <1>3 DEF Good

----------------------------------------------------------------------------
(* The steps of the consumer. *)

(* Rows and policies change only for the user of a message at work. *)
LEMMA StepTouches ==
  ASSUME GrantInv, NEW j \in Jobs, ConsumerStep(j) \/ ConsumerCrash(j)
  PROVE  /\ \A h \in Jobs \ {j} : job'[h] = job[h]
         /\ UNCHANGED key /\ attached \subseteq attached'
         /\ faults \subseteq faults'
         /\ UNCHANGED <<row, policy>> \/
              /\ Working(j)
              /\ \A i \in Ids : UserOf[i] # job[j].user =>
                   row'[i] = row[i] /\ policy'[i] = policy[i]
<1>1. /\ \A h \in Jobs \ {j} : job'[h] = job[h]
      /\ UNCHANGED key
  BY ConsumerEffect DEF Effect
<1>2. attached \subseteq attached' /\ faults \subseteq faults'
  BY DEF ConsumerStep, ConsumerCrash, RenamePolicy, ListForGrant, RemoveBucket, ListForRevoke,
     ReadPolicy, AddPolicy, AttachPolicy, SavePolicy, Ack, policies, Fault, NoFault
<1>3. TypeOK
  BY DEF GrantInv
<1>4. ASSUME NEW i \in Ids, ReadPolicy(j, i)
      PROVE  /\ Working(j) /\ UserOf[i] = job[j].user
             /\ \A h \in Ids : h # i => row'[h] = row[h] /\ policy'[h] = policy[h]
  BY <1>3, <1>4 DEF ReadPolicy, GrantInv, JobInv, At, Working, WorkPlace, TypeOK
<1>5. ASSUME RenamePolicy(j) \/ AddPolicy(j) \/ SavePolicy(j)
      PROVE  /\ Working(j) /\ UserOf[job[j].id] = job[j].user
             /\ \A h \in Ids : h # job[j].id => row'[h] = row[h] /\ policy'[h] = policy[h]
  <2>1. Working(j) /\ ~At(j, "idle") /\ (Is(j, "rename") \/ Writing(j))
    BY <1>5 DEF RenamePolicy, AddPolicy, SavePolicy, Working, Writing, At, WorkPlace
  <2>2. UserOf[job[j].id] = job[j].user
    BY <2>1, InHand
  <2>3. QED
    BY <1>3, <1>5, <2>1, <2>2 DEF RenamePolicy, AddPolicy, SavePolicy, policies, TypeOK
<1>6. \/ UNCHANGED <<row, policy>>
      \/ \E i \in Ids : ReadPolicy(j, i)
      \/ RenamePolicy(j) \/ AddPolicy(j) \/ SavePolicy(j)
  BY DEF ConsumerStep, ConsumerCrash, ListForGrant, RemoveBucket, ListForRevoke,
     AttachPolicy, Ack, policies
<1>7. QED
  BY <1>1, <1>2, <1>4, <1>5, <1>6

LEMMA OthersCurrent ==
  ASSUME GrantInv, ApartInv, NEW j \in Jobs, ConsumerStep(j) \/ ConsumerCrash(j),
         NEW h \in Jobs \ {j}, Current(h)
  PROVE  Current(h)'
<1>1. /\ job'[h] = job[h] /\ UNCHANGED key /\ attached \subseteq attached'
      /\ Working(h) => \A i \in Ids : UserOf[i] = job[h].user =>
           row'[i] = row[i] /\ policy'[i] = policy[i]
  BY StepTouches DEF ApartInv
<1>2. (Is(h, "rename") /\ At(h, "queued")) =>
        Working(h) /\ job[h].id \in Ids /\ UserOf[job[h].id] = job[h].user
  BY InHand DEF Working, At
<1>3. QED
  BY <1>1, <1>2, CurrentKept

(* The message is between two rounds, or done with. *)
LEMMA NothingHeld ==
  ASSUME NEW j \in Jobs, job'[j].place \in {"idle", "queued", "list"},
         job'[j].place = "queued" => job'[j].kind # "rename"
  PROVE  Current(j)'
BY DEF Current, Writing, At, Is

(* What a step does to the IAM users that are not in the message's hand.   *)
LEMMA OthersGood ==
  ASSUME GrantInv, NEW j \in Jobs, ConsumerStep(j) \/ ConsumerCrash(j),
         NEW i \in Ids, Good(i), row'[i] = row[i], policy'[i] = policy[i],
         (key[i] # None /\ Mends(j, i)) => Mends(j, i)'
  PROVE  Good(i)'
BY StepTouches, GoodKept

LEMMA RenameAgrees ==
  ASSUME GrantInv, AgreeInv, NEW j \in Jobs, RenamePolicy(j), Recoverable
  PROVE  Current(j)' /\ \A i \in Ids : Good(i)'
<1>1. TypeOK /\ At(j, "queued") /\ Is(j, "rename") /\ ~At(j, "idle") /\ Current(j)
      /\ job[j].id \in Ids /\ Go(j, "idle") /\ UNCHANGED <<key, row>>
  BY InHand DEF GrantInv, RenamePolicy, At, AgreeInv, buckets
<1>2. PICK r \in Ids : r = job[j].id
  BY <1>1
<1>3. job'[j].place = "idle"
  BY <1>1, Afterwards
<1>4. Current(j)'
  BY <1>3, NothingHeld
<1>5. ASSUME NEW i \in Ids, i # r PROVE Good(i)'
  <2>1. policy'[i] = policy[i]
    BY <1>1, <1>2, <1>5 DEF RenamePolicy, TypeOK
  <2>2. ~Mends(j, i)
    BY <1>1, <1>2, <1>5 DEF Mends, Pending, At, Is, Writing
  <2>3. QED
    BY <1>1, <1>5, <2>1, <2>2, OthersGood DEF ConsumerStep, AgreeInv, Good
<1>6. Good(r)'
  <2>1. key[r] = job[j].key /\ row[r] = job[j].doc /\ job[j].key \in Keys
    <3>1. job[j].key # None /\ job[j].key \in Keys \cup {None}
      BY <1>1 DEF GrantInv, JobInv, TypeOK, JobRecord
    <3>2. QED
      BY <1>1, <1>2, <3>1 DEF Current
  <2>2. policy'[r][job[j].key] = job[j].doc /\ r \in attached'
    <3> DEFINE f == [k \in Keys |-> IF k = job[j].key THEN job[j].doc
                                    ELSE IF k = KeyInHand(j) THEN None ELSE policy[r][k]]
    <3>1. policy' = [policy EXCEPT ![r] = f] /\ attached' = attached \cup {r}
      BY <1>2 DEF RenamePolicy
    <3>2. f[job[j].key] = job[j].doc
      BY <2>1
    <3> HIDE DEF f
    <3>3. policy'[r] = f
      BY <1>1, <1>2, <3>1 DEF TypeOK
    <3>4. QED
      BY <3>1, <3>2, <3>3
  <2>3. key'[r] = job[j].key /\ row'[r] = job[j].doc
    BY <1>1, <2>1
  <2>4. QED
    BY <2>2, <2>3 DEF Good, Agrees
<1>7. QED
  BY <1>2, <1>4, <1>5, <1>6

(* A new round begins: the keys are as they are. *)
LEMMA ListAgrees ==
  ASSUME GrantInv, AgreeInv, NEW j \in Jobs, Recoverable, Recoverable',
         ListForGrant(j) \/ RemoveBucket(j) \/ ListForRevoke(j)
  PROVE  Current(j)' /\ \A i \in Ids : Good(i)'
<1>1. /\ TypeOK /\ ~At(j, "idle") /\ ~Is(j, "rename") /\ job[j].place \in {"queued", "list"}
      /\ UNCHANGED <<key, row, policy>> /\ job[j].user \in Users
  BY InHand
  DEF GrantInv, ListForGrant, RemoveBucket, ListForRevoke, Deliver, At, Is, buckets, policies,
      JobInv
<1>2. ConsumerStep(j) /\ faults \subseteq faults'
  BY StepTouches DEF ConsumerStep
<1>3. CASE Work(j, "each", IamUsers(job[j].user), None, {})
  <2>1. /\ job'[j].place = "each" /\ job'[j].list = IamUsers(job[j].user)
        /\ job'[j].user = job[j].user /\ job'[j].kind = job[j].kind
        /\ job'[j].bucket = job[j].bucket
    BY <1>1, <1>3, Afterwards, ListAfterwards
  <2>2. \A i \in Ids : IamUsers(job[j].user)[i] = IF UserOf[i] = job[j].user THEN key[i] ELSE None
    BY DEF IamUsers
  <2>3. Current(j)'
    BY <1>1, <2>1, <2>2 DEF Current, At, Is, Writing
  <2>4. ASSUME NEW i \in Ids, key[i] # None, Mends(j, i) PROVE Mends(j, i)'
    BY <1>1, <1>2, <2>1, <2>2, <2>4 DEF Mends, Pending, At, Is, Writing
  <2>5. QED
    BY <1>1, <1>2, <2>3, <2>4, OthersGood DEF AgreeInv, Good
<1>4. CASE ListForRevoke(j) /\ Go(j, "idle") /\ Fault("list")
  <2>1. job'[j].place = "idle"
    BY <1>4, Afterwards
  <2>2. \A i \in Ids : ~Mends(j, i)
    <3>1. "crash" \notin faults
      BY <1>4 DEF Recoverable, Fault
    <3>2. QED
      BY <1>1, <3>1 DEF Mends, Pending, At, Is, Writing
  <2>3. QED
    BY <1>1, <1>2, <2>1, <2>2, NothingHeld, OthersGood DEF AgreeInv, Good
<1>5. CASE UNCHANGED job \/ \E p \in {"queued", "list"} : Go(j, p)
  <2>1. /\ job'[j].place \in {"queued", "list"}
        /\ job'[j].user = job[j].user /\ job'[j].kind = job[j].kind
        /\ job'[j].bucket = job[j].bucket
    BY <1>1, <1>5, Afterwards, PlaceMembers
  <2>2. Current(j)'
    BY <1>1, <2>1, NothingHeld DEF Is
  <2>3. ASSUME NEW i \in Ids, Mends(j, i) PROVE Mends(j, i)'
    BY <1>1, <1>2, <2>1, <2>3 DEF Mends, Pending, At, Is, Writing
  <2>4. QED
    BY <1>1, <1>2, <2>2, <2>3, OthersGood DEF AgreeInv, Good
<1>6. QED
  BY <1>3, <1>4, <1>5 DEF ListForGrant, RemoveBucket, ListForRevoke

(* The message leaves an IAM user, who needs it no more.                   *)
LEMMA SkipAgrees ==
  ASSUME GrantInv, AgreeInv, Recoverable, NEW j \in Jobs, NEW i \in Ids,
         ConsumerStep(j), LoopPlace(job[j].place), Writing(j) => job[j].id = i, Skip(j, i),
         \A h \in Ids \ {i} : row'[h] = row[h] /\ policy'[h] = policy[h],
         Good(i)'
  PROVE  Current(j)' /\ \A h \in Ids : Good(h)'
<1>1. /\ TypeOK /\ ~At(j, "idle") /\ ~Is(j, "rename") /\ Current(j) /\ UNCHANGED key
      /\ job[j].list \in [Ids -> Keys \cup {None}] /\ (At(j, "each") \/ Writing(j))
      /\ faults \subseteq faults'
  BY InHand, StepTouches DEF GrantInv, JobInv, At, Is, AgreeInv, LoopPlace, Writing
<1>2. /\ job'[j].place = "each" /\ job'[j].list = [job[j].list EXCEPT ![i] = None]
      /\ job'[j].user = job[j].user /\ job'[j].kind = job[j].kind
      /\ job'[j].bucket = job[j].bucket
  BY <1>1, Afterwards, ListAfterwards DEF Skip
<1>3. \A h \in Ids : job'[j].list[h] = IF h = i THEN None ELSE job[j].list[h]
  BY <1>1, <1>2
<1>4. Current(j)'
  BY <1>1, <1>2, <1>3 DEF Current, At, Is, Writing
<1>5. ASSUME NEW h \in Ids, h # i, Mends(j, h) PROVE Mends(j, h)'
  BY <1>1, <1>2, <1>3, <1>5 DEF Mends, Pending, At, Is, Writing
<1>6. ASSUME NEW h \in Ids, h # i PROVE Good(h)'
  BY <1>1, <1>5, <1>6, OthersGood DEF AgreeInv, Good
<1>7. QED
  BY <1>4, <1>6

LEMMA ReadAgrees ==
  ASSUME GrantInv, AgreeInv, NEW j \in Jobs, NEW i \in Ids, ReadPolicy(j, i),
         Recoverable, Recoverable'
  PROVE  Current(j)' /\ \A h \in Ids : Good(h)'
<1>1. /\ TypeOK /\ At(j, "each") /\ ~At(j, "idle") /\ ~Is(j, "rename") /\ Current(j)
      /\ job[j].list \in [Ids -> Keys \cup {None}] /\ job[j].list[i] # None
      /\ UserOf[i] = job[j].user
      /\ UNCHANGED <<key, row, attached>> /\ ConsumerStep(j)
  BY InHand DEF GrantInv, JobInv, ReadPolicy, At, Is, AgreeInv, buckets, ConsumerStep
<1>2. faults \subseteq faults' /\ \A h \in Ids \ {i} : policy'[h] = policy[h]
  BY <1>1, StepTouches DEF ReadPolicy, TypeOK
<1>3. CASE Skip(j, i) /\ UNCHANGED policy
           /\ (key[i] = None \/ (Is(j, "revoke") /\ job[j].bucket \notin row[i]))
  <2>1. Good(i)'
    <3>1. ~Mends(j, i) \/ key[i] = None
      BY <1>1, <1>3 DEF Mends, Pending
    <3>2. QED
      BY <1>1, <1>3, <3>1, OthersGood DEF AgreeInv, Good
  <2>2. LoopPlace(job[j].place) /\ ~Writing(j)
    BY <1>1 DEF LoopPlace, At, Writing
  <2>3. QED
    BY <1>1, <1>2, <1>3, <2>1, <2>2, SkipAgrees
<1>4. CASE /\ Work(j, "add", job[j].list, i, Changed(j, row[i]))
           /\ Is(j, "revoke") => job[j].bucket \in row[i]
  <2> DEFINE d == Changed(j, row[i])
  <2>1. Work(j, "add", job[j].list, i, d)
    BY <1>4
  <2> HIDE DEF d
  <2>2. /\ job'[j].place = "add" /\ job'[j].list = job[j].list /\ job'[j].id = i
        /\ job'[j].user = job[j].user /\ job'[j].kind = job[j].kind
        /\ job'[j].bucket = job[j].bucket
    BY <2>1, Afterwards, ListAfterwards
  <2>3. Current(j)'
    BY <1>1, <1>4, <2>2 DEF Current, At, Is, Writing
  <2>4. ASSUME NEW h \in Ids, Mends(j, h) PROVE Mends(j, h)'
    BY <1>1, <1>2, <2>2, <2>4 DEF Mends, Pending, At, Is, Writing
  <2>5. Mends(j, i)'
    BY <1>1, <1>4, <2>2 DEF Mends, Pending, At, Is, Writing
  <2>6. \A h \in Ids \ {i} : Good(h)'
    BY <1>1, <1>2, <2>4, OthersGood DEF AgreeInv, Good
  <2>7. QED
    BY <2>3, <2>5, <2>6 DEF Good
<1>5. QED
  BY <1>3, <1>4, NothingMissed DEF ReadPolicy

(* The message goes on with the IAM user it has in hand. *)
LEMMA HandAgrees ==
  ASSUME GrantInv, AgreeInv, Recoverable, NEW j \in Jobs, ConsumerStep(j), Writing(j),
         UNCHANGED row, NEW p \in {"attach", "save"}, Go(j, p),
         \A h \in Ids : h # job[j].id => policy'[h] = policy[h],
         key[job[j].id] # None => policy'[job[j].id][key[job[j].id]] = job[j].doc,
         p = "save" => job[j].id \in attached'
  PROVE  Current(j)' /\ \A h \in Ids : Good(h)'
<1>1. /\ ~At(j, "idle") /\ ~Is(j, "rename") /\ Current(j) /\ UNCHANGED key
      /\ job[j].id \in Ids /\ UserOf[job[j].id] = job[j].user
      /\ faults \subseteq faults'
  BY InHand, StepTouches DEF GrantInv, JobInv, At, Is, AgreeInv, Writing
<1>2. /\ job'[j].place = p /\ job'[j].list = job[j].list /\ job'[j].id = job[j].id
      /\ job'[j].user = job[j].user /\ job'[j].kind = job[j].kind
      /\ job'[j].bucket = job[j].bucket /\ job'[j].doc = job[j].doc
  BY <1>1, Afterwards, ListAfterwards, PlaceMembers
<1>3. Current(j)'
  BY <1>1, <1>2 DEF Current, At, Is, Writing
<1>4. ASSUME NEW h \in Ids, Mends(j, h) PROVE Mends(j, h)'
  BY <1>1, <1>2, <1>4 DEF Mends, Pending, At, Is, Writing
<1>5. ASSUME NEW h \in Ids, h # job[j].id PROVE Good(h)'
  BY <1>1, <1>4, <1>5, OthersGood DEF AgreeInv, Good
<1>6. ASSUME NEW h \in Ids, h = job[j].id, key[h] # None PROVE Mends(j, h)'
  BY <1>1, <1>2, <1>6 DEF Mends, Pending, Current, At, Is, Writing
<1>7. QED
  BY <1>1, <1>3, <1>5, <1>6 DEF Good

LEMMA WriteAgrees ==
  ASSUME GrantInv, AgreeInv, NEW j \in Jobs, Recoverable, Recoverable',
         AddPolicy(j) \/ AttachPolicy(j) \/ SavePolicy(j)
  PROVE  Current(j)' /\ \A h \in Ids : Good(h)'
<1>1. /\ TypeOK /\ Writing(j) /\ ~At(j, "idle") /\ Current(j) /\ ConsumerStep(j)
      /\ LoopPlace(job[j].place) /\ UNCHANGED key
      /\ job[j].id \in Ids /\ KeyInHand(j) \in Keys /\ job[j].doc \in SUBSET Buckets
  BY InHand
  DEF GrantInv, AddPolicy, AttachPolicy, SavePolicy, At, Writing, LoopPlace, ConsumerStep,
      AgreeInv, buckets
<1>2. key[job[j].id] # None => key[job[j].id] = KeyInHand(j)
  BY <1>1, NoneAssumption DEF Current, KeyInHand
<1>3. PICK i \in Ids : i = job[j].id
  BY <1>1
<1>4. CASE AddPolicy(j)
  <2>1. /\ policy' = [policy EXCEPT ![i][KeyInHand(j)] = job[j].doc]
        /\ UNCHANGED row /\ Go(j, "attach")
    BY <1>3, <1>4, NothingMissed DEF AddPolicy
  <2>2. policy'[i][KeyInHand(j)] = job[j].doc /\ \A h \in Ids : h # i => policy'[h] = policy[h]
    <3> DEFINE f == [policy[i] EXCEPT ![KeyInHand(j)] = job[j].doc]
    <3>1. policy' = [policy EXCEPT ![i] = f]
      BY <2>1
    <3>2. f[KeyInHand(j)] = job[j].doc
      BY <1>1 DEF TypeOK
    <3> HIDE DEF f
    <3>3. QED
      BY <1>1, <3>1, <3>2 DEF TypeOK
  <2>3. QED
    BY <1>1, <1>2, <1>3, <2>1, <2>2, HandAgrees
<1>5. CASE AttachPolicy(j)
  <2>1. At(j, "attach") /\ UNCHANGED <<row, policy>>
    BY <1>5 DEF AttachPolicy
  <2>2. key[i] # None => policy[i][KeyInHand(j)] = job[j].doc /\ job[j].doc # None
    BY <1>1, <1>2, <1>3, <2>1, NoneAssumption DEF Current, At
  <2>3. CASE Go(j, "save") /\ attached' = attached \cup {i}
    BY <1>1, <1>2, <1>3, <2>1, <2>2, <2>3, HandAgrees
  <2>4. CASE NextId(j) /\ key[i] = None
    <3>1. Good(i)'
      BY <1>1, <2>4 DEF Good
    <3>2. QED
      BY <1>1, <1>3, <2>1, <2>4, <3>1, SkipAgrees DEF NextId
  <2>5. QED
    BY <1>2, <1>3, <1>5, <2>2, <2>3, <2>4, NothingMissed DEF AttachPolicy
<1>6. CASE SavePolicy(j)
  <2>1. At(j, "save") /\ NextId(j) /\ UNCHANGED <<policy, attached>>
    BY <1>6 DEF SavePolicy, policies
  <2>2. \/ key[i] # None /\ row' = [row EXCEPT ![i] = job[j].doc]
        \/ key[i] = None /\ UNCHANGED row
    BY <1>3, <1>6, NothingMissed DEF SavePolicy
  <2>3. Good(i)'
    <3>1. CASE key[i] # None
      <4>1. policy'[i][key'[i]] = job[j].doc /\ i \in attached'
        BY <1>1, <1>3, <2>1, <3>1 DEF Current, At
      <4>2. row'[i] = job[j].doc
        BY <1>1, <2>2, <3>1 DEF TypeOK
      <4>3. QED
        BY <4>1, <4>2 DEF Good, Agrees
    <3>2. CASE key[i] = None
      BY <1>1, <3>2 DEF Good
    <3>3. QED
      BY <3>1, <3>2
  <2>4. \A h \in Ids \ {i} : row'[h] = row[h] /\ policy'[h] = policy[h]
    BY <1>1, <2>1, <2>2 DEF TypeOK
  <2>5. QED
    BY <1>1, <1>3, <2>1, <2>3, <2>4, SkipAgrees DEF NextId
<1>7. QED
  BY <1>4, <1>5, <1>6

(* Done with the list, or given up: a message that was given up has to be  *)
(* worked on again.                                                        *)
LEMMA EndAgrees ==
  ASSUME GrantInv, AgreeInv, NEW j \in Jobs, Ack(j) \/ ConsumerCrash(j),
         Recoverable, Recoverable'
  PROVE  Current(j)' /\ \A h \in Ids : Good(h)'
<1>1. /\ TypeOK /\ ~At(j, "idle") /\ ~Is(j, "rename") /\ Current(j)
      /\ UNCHANGED <<key, row, policy, attached>>
      /\ ConsumerStep(j) \/ ConsumerCrash(j)
  BY DEF GrantInv, JobInv, Ack, ConsumerCrash, At, Is, WorkPlace, AgreeInv, buckets, policies,
     ConsumerStep
<1>2. CASE Ack(j)
  <2>1. job'[j].place = "idle" /\ \A i \in Ids : ~Mends(j, i)
    BY <1>1, <1>2, Afterwards, NoListType DEF Ack, Mends, Pending, At, Is, Writing
  <2>2. QED
    BY <1>1, <2>1, NothingHeld, OthersGood DEF AgreeInv, Good
<1>3. CASE ConsumerCrash(j)
  <2>1. /\ job'[j].place = "queued" /\ job'[j].user = job[j].user
        /\ job'[j].kind = job[j].kind /\ job'[j].bucket = job[j].bucket
    <3> DEFINE r == [NoJob EXCEPT !.kind = job[j].kind, !.place = "queued",
                                  !.user = job[j].user, !.bucket = job[j].bucket]
    <3>1. /\ r.place = "queued" /\ r.user = job[j].user
          /\ r.kind = job[j].kind /\ r.bucket = job[j].bucket
      BY DEF NoJob
    <3>2. job' = [job EXCEPT ![j] = r]
      BY <1>3 DEF ConsumerCrash
    <3> HIDE DEF r
    <3>3. QED
      BY <1>1, <3>1, <3>2 DEF TypeOK
  <2>2. "crash" \in faults'
    BY <1>3 DEF ConsumerCrash, Fault
  <2>3. Current(j)'
    BY <1>1, <2>1, NothingHeld DEF Is
  <2>4. ASSUME NEW i \in Ids, Mends(j, i) PROVE Mends(j, i)'
    BY <1>1, <2>1, <2>2, <2>4 DEF Mends, Pending, At, Is, Writing
  <2>5. QED
    BY <1>1, <2>3, <2>4, OthersGood DEF AgreeInv, Good
<1>4. QED
  BY <1>2, <1>3

LEMMA ConsumerAgrees ==
  ASSUME GrantInv, ApartInv, AgreeInv, NEW j \in Jobs, ConsumerStep(j) \/ ConsumerCrash(j),
         Recoverable, Recoverable'
  PROVE  AgreeInv'
<1>1. Current(j)' /\ \A i \in Ids : Good(i)'
  BY RenameAgrees, ListAgrees, ReadAgrees, WriteAgrees, EndAgrees DEF ConsumerStep
<1>2. \A h \in Jobs : Current(h)'
  BY <1>1, OthersCurrent DEF AgreeInv
<1>3. QED
  BY <1>1, <1>2 DEF AgreeInv, Good

----------------------------------------------------------------------------
(* The requests. *)

LEMMA BucketAgrees ==
  ASSUME GrantInv, AgreeInv, Recoverable, NEW j \in Jobs, NEW u \in Users, NEW b \in Buckets,
         CreateBucket(j, u, b) \/ DeleteBucketByID(j, u, b)
  PROVE  AgreeInv'
<1>1. /\ UNCHANGED <<key, row, policy, attached>> /\ At(j, "idle")
      /\ Publish(j, "grant", u, b) \/ Publish(j, "revoke", u, b)
  BY DEF CreateBucket, DeleteBucketByID, policies
<1>2. faults \subseteq faults'
  BY <1>1 DEF Publish, NoFault, Fault
<1>3. /\ \A h \in Jobs \ {j} : job'[h] = job[h]
      /\ job'[j] = job[j] \/ (job'[j].place = "queued" /\ job'[j].kind # "rename")
  <2>1. b \in ever'[u] /\ \A v \in Users : ever[v] \subseteq ever'[v]
    BY NoneAssumption DEF CreateBucket, DeleteBucketByID, TypeOK, GrantInv
  <2>2. \/ job' = job
        \/ \E kind \in {"grant", "revoke"} :
             OneJob(j, [NoJob EXCEPT !.kind = kind, !.place = "queued", !.user = u, !.bucket = b])
    BY <1>1, <2>1, Published
  <2>3. QED
    BY <2>2 DEF OneJob, NoJob
<1>4. ASSUME NEW h \in Jobs, job'[h] = job[h] PROVE Current(h)'
  BY <1>1, <1>4, CurrentKept DEF AgreeInv
<1>5. \A h \in Jobs : Current(h)'
  BY <1>3, <1>4, NothingHeld
<1>6. ASSUME NEW i \in Ids PROVE Good(i)'
  <2>1. ~Mends(j, i)
    BY <1>1 DEF Mends, Pending, At, Writing
  <2>2. Good(i)
    BY DEF AgreeInv, Good
  <2>3. QED
    BY <1>1, <1>2, <1>3, <2>1, <2>2, GoodKept
<1>7. QED
  BY <1>5, <1>6 DEF AgreeInv, Good

LEMMA IamAgrees ==
  ASSUME GrantInv, AgreeInv, Recoverable, NEW i \in Ids,
         DeleteIAMByID(i) \/ \E k \in Keys : CreateIAM(i, k)
  PROVE  AgreeInv'
<1>1. TypeOK /\ UNCHANGED <<job, faults>>
      /\ \A h \in Ids \ {i} : /\ key'[h] = key[h] /\ row'[h] = row[h] /\ policy'[h] = policy[h]
                              /\ h \in attached => h \in attached'
  BY DEF GrantInv, TypeOK, DeleteIAMByID, CreateIAM
<1>2. \/ key'[i] = None
      \/ \A h \in Jobs : job[h].id # i /\ job[h].list[i] = None
  BY <1>1 DEF DeleteIAMByID, CreateIAM, TypeOK
<1>3. \A h \in Jobs : Is(h, "rename") => job[h].id # i
  BY DEF DeleteIAMByID, CreateIAM, Renaming
<1>4. ASSUME NEW h \in Jobs PROVE Current(h)'
  <2>1. (Is(h, "rename") /\ At(h, "queued")) => job[h].id \in Ids \ {i}
    BY <1>3, InHand DEF At
  <2>2. QED
    BY <1>1, <1>2, <2>1, CurrentKept DEF AgreeInv
<1>5. Good(i)'
  <2>1. CASE DeleteIAMByID(i)
    BY <1>1, <2>1 DEF DeleteIAMByID, TypeOK, Good
  <2>2. ASSUME NEW k \in Keys, CreateIAM(i, k) PROVE Good(i)'
    <3>1. key'[i] = k /\ row'[i] = {} /\ i \in attached'
      BY <1>1, <2>2 DEF CreateIAM, TypeOK
    <3>2. policy'[i][k] = {}
      <4>1. policy[i] \in [Keys -> (SUBSET Buckets) \cup {None}]
        BY <1>1 DEF TypeOK
      <4>2. policy' = [policy EXCEPT ![i] = [policy[i] EXCEPT ![k] = {}]]
        BY <2>2 DEF CreateIAM
      <4>3. policy'[i] = [policy[i] EXCEPT ![k] = {}]
        BY <1>1, <4>2 DEF TypeOK
      <4>4. QED
        BY <4>1, <4>3
    <3>3. QED
      BY <3>1, <3>2 DEF Good, Agrees
  <2>3. QED
    BY <2>1, <2>2
<1>6. ASSUME NEW h \in Ids \ {i} PROVE Good(h)'
  <2>1. CASE key[h] = None
    BY <1>1, <2>1 DEF Good
  <2>2. CASE Agrees(h)
    BY <1>1, <2>2 DEF Good, Agrees
  <2>3. ASSUME NEW l \in Jobs, Mends(l, h) PROVE Mends(l, h)'
    BY <1>1, <2>3, MendsKept
  <2>4. QED
    BY <2>1, <2>2, <2>3 DEF Good, AgreeInv
<1>7. QED
  BY <1>4, <1>5, <1>6 DEF AgreeInv, Good

LEMMA CredentialsAgree ==
  ASSUME GrantInv, AgreeInv, Recoverable, Recoverable',
         NEW j \in Jobs, NEW i \in Ids, NEW k \in Keys, UpdateIAMCredentials(j, i, k)
  PROVE  AgreeInv'
<1>1. /\ TypeOK /\ At(j, "idle") /\ key[i] # None
      /\ job' = [job EXCEPT ![j] = RenameMessage(i, k)] /\ NoFault
      /\ UNCHANGED <<row, policy>>
      /\ key' = [key EXCEPT ![i] = k] /\ attached' = attached \ {i}
  BY NothingMissed DEF GrantInv, UpdateIAMCredentials
<1>2. /\ job'[j] = RenameMessage(i, k) /\ \A h \in Jobs \ {j} : job'[h] = job[h]
      /\ faults \subseteq faults' /\ key'[i] = k
      /\ \A h \in Ids \ {i} : key'[h] = key[h] /\ (h \in attached => h \in attached')
  BY <1>1 DEF TypeOK, NoFault
<1>3. /\ job'[j].kind = "rename" /\ job'[j].place = "queued" /\ job'[j].user = UserOf[i]
      /\ job'[j].id = i /\ job'[j].key = k /\ job'[j].doc = row[i]
  BY <1>1, <1>2, RenameType
<1>4. \A h \in Jobs : Working(h) => job[h].user # UserOf[i]
  BY NotBusy DEF UpdateIAMCredentials, Recoverable, Without
<1>5. Current(j)'
  BY <1>1, <1>2, <1>3 DEF Current, At, Is, Writing
<1>6. ASSUME NEW h \in Jobs \ {j} PROVE Current(h)'
  <2>1. (Is(h, "rename") /\ At(h, "queued")) => job[h].id \in Ids \ {i}
    BY <1>4, InHand DEF Working, At
  <2>2. QED
    BY <1>1, <1>2, <1>4, <2>1, CurrentKept DEF AgreeInv
<1>7. Mends(j, i)'
  BY <1>3 DEF Mends, Pending, At, Is
<1>8. ASSUME NEW h \in Ids \ {i} PROVE Good(h)'
  <2>1. ~Mends(j, h)
    BY <1>1 DEF Mends, Pending, At, Writing
  <2>2. Good(h)
    BY DEF AgreeInv, Good
  <2>3. QED
    BY <1>1, <1>2, <2>1, <2>2, GoodKept
<1>9. QED
  BY <1>5, <1>6, <1>7, <1>8 DEF AgreeInv, Good

----------------------------------------------------------------------------

LEMMA AgreeInvKept == IndInv /\ AgreeInv /\ [Next]_vars => AgreeInv'
<1> SUFFICES ASSUME IndInv, AgreeInv, [Next]_vars, Recoverable' PROVE AgreeInv'
  BY DEF AgreeInv
<1>1. CASE UNCHANGED vars
  BY <1>1 DEF vars, AgreeInv, Recoverable, Without, Current, Agrees, Mends, Pending, At, Is, Writing
<1>2. CASE Next
  <2>1. Recoverable /\ GrantInv /\ ApartInv
    BY <1>2, RecoverableBefore DEF IndInv, Recoverable, Without
  <2>2. QED
    BY <1>2, <2>1, BucketAgrees, IamAgrees, CredentialsAgree, ConsumerAgrees DEF Next, Request
<1>3. QED
  BY <1>1, <1>2

LEMMA InitiallyEmpty ==
  ASSUME Init
  PROVE  /\ IndInv /\ \A j \in Jobs : At(j, "idle") /\ Is(j, "grant")
         /\ \A i \in Ids : key[i] = None /\ due[i] = {}
         /\ \A b \in Buckets : owner[b] = None
<1>1. \A j \in Jobs : At(j, "idle") /\ Is(j, "grant")
  BY NoJobType DEF Init, At, Is
<1>2. IndInv
  BY <1>1, Initially DEF IndInv, ApartInv, Working, Writing, At, Is, WorkPlace
<1>3. QED
  BY <1>1, <1>2 DEF Init

(* When no message is on its way for a user, Postgres and MinIO list the   *)
(* same buckets for its IAM users, if no two messages were at work for a   *)
(* user, no publication failed, no call for one IAM user failed or lost    *)
(* its answer, and no consumer stopped where the IAM users could not be    *)
(* listed as well.  Crashes, redeliveries and failing listings do not      *)
(* break it one without the other.                                         *)
THEOREM StoresListTheSame == Spec => []StoresAgree
<1>1. Init => IndInv /\ AgreeInv
  BY InitiallyEmpty DEF AgreeInv, Current, Writing, At, Is
<1>2. IndInv /\ AgreeInv => StoresAgree
  <2> SUFFICES ASSUME IndInv, AgreeInv, Recoverable, NEW i \in Ids, key[i] # None,
                      Settled(UserOf[i])
               PROVE  Granted(i) = row[i]
    BY DEF StoresAgree
  <2>1. Agrees(i)
    BY DEF AgreeInv, Mends, Pending, Settled
  <2>2. row[i] # None
    BY NoneAssumption DEF IndInv, GrantInv, TypeOK
  <2>3. QED
    BY <2>1, <2>2 DEF Agrees, Granted
<1>3. QED
  BY <1>1, <1>2, IndInvKept, AgreeInvKept, PTL DEF Spec

----------------------------------------------------------------------------
(* How messages move, and what a step does to one IAM user.                *)

LEMMA SameMessage ==
  ASSUME GrantInv, NEW j \in Jobs, ConsumerStep(j) \/ ConsumerCrash(j)
  PROVE  \/ job'[j].place = "idle"
         \/ /\ job'[j].kind = job[j].kind /\ job'[j].user = job[j].user
            /\ job'[j].bucket = job[j].bucket
<1>1. CASE RenamePolicy(j) \/ Ack(j)
  BY <1>1, Afterwards DEF RenamePolicy, Ack
<1>2. CASE ConsumerCrash(j)
  <2> DEFINE r == [NoJob EXCEPT !.kind = job[j].kind, !.place = "queued",
                                !.user = job[j].user, !.bucket = job[j].bucket]
  <2>1. r.user = job[j].user /\ r.kind = job[j].kind /\ r.bucket = job[j].bucket
    BY DEF NoJob
  <2>2. job' = [job EXCEPT ![j] = r] /\ job \in [Jobs -> JobRecord]
    BY <1>2 DEF ConsumerCrash, GrantInv, TypeOK
  <2> HIDE DEF r
  <2>3. QED
    BY <2>1, <2>2
<1>3. CASE ListForGrant(j) \/ RemoveBucket(j) \/ ListForRevoke(j)
  BY <1>3, Afterwards, PlaceMembers DEF ListForGrant, RemoveBucket, ListForRevoke
<1>4. CASE (\E i \in Ids : ReadPolicy(j, i)) \/ AddPolicy(j) \/ AttachPolicy(j) \/ SavePolicy(j)
  BY <1>4, Afterwards, PlaceMembers
  DEF ReadPolicy, AddPolicy, AttachPolicy, SavePolicy, NextId, Skip
<1>5. QED
  BY <1>1, <1>2, <1>3, <1>4 DEF ConsumerStep

(* What a message does before it was stopped it never does twice. *)
LEMMA PendingCame ==
  ASSUME GrantInv, NEW j \in Jobs, ConsumerStep(j), NEW i \in Ids, Pending(j, i)'
  PROVE  Pending(j, i)
<1>1. CASE RenamePolicy(j) \/ Ack(j)
  BY <1>1, Afterwards DEF RenamePolicy, Ack, Pending, At, Writing
<1>2. CASE ListForGrant(j) \/ RemoveBucket(j) \/ ListForRevoke(j)
  BY <1>2 DEF ListForGrant, RemoveBucket, ListForRevoke, Deliver, At, Pending
<1>3. ASSUME NEW h, Skip(j, h), LoopPlace(job[j].place)
      PROVE  Pending(j, i)
  <2>1. job[j].list \in [Ids -> Keys \cup {None}]
    BY DEF GrantInv, TypeOK, JobRecord
  <2>2. job'[j].place = "each" /\ job'[j].list = [job[j].list EXCEPT ![h] = None]
    BY <1>3, Afterwards, ListAfterwards DEF Skip
  <2>3. QED
    BY <1>3, <2>1, <2>2 DEF Pending, At, Writing, LoopPlace
<1>4. ASSUME NEW h \in Ids, ReadPolicy(j, h) PROVE Pending(j, i)
  <2>1. At(j, "each") /\ LoopPlace(job[j].place)
    BY <1>4 DEF ReadPolicy, At, LoopPlace
  <2>2. CASE Work(j, "add", job[j].list, h, Changed(j, row[h]))
    <3>1. job'[j].place = "add" /\ job'[j].list = job[j].list
      BY <2>2, Afterwards, ListAfterwards
    <3>2. QED
      BY <2>1, <3>1 DEF Pending, At, Writing
  <2>3. QED
    BY <1>3, <1>4, <2>1, <2>2 DEF ReadPolicy
<1>5. CASE AddPolicy(j) \/ AttachPolicy(j) \/ SavePolicy(j)
  <2>1. LoopPlace(job[j].place) /\ Writing(j)
    BY <1>5 DEF AddPolicy, AttachPolicy, SavePolicy, At, LoopPlace, Writing
  <2>2. CASE Go(j, "attach") \/ Go(j, "save")
    <3>1. job'[j].place \in {"attach", "save"} /\ job'[j].list = job[j].list
      BY <2>2, Afterwards, ListAfterwards, PlaceMembers
    <3>2. QED
      BY <2>1, <3>1 DEF Pending, At, Writing
  <2>3. QED
    BY <1>3, <1>5, <2>1, <2>2 DEF AddPolicy, AttachPolicy, SavePolicy, NextId
<1>6. QED
  BY <1>1, <1>2, <1>4, <1>5 DEF ConsumerStep

(* A message comes to everybody it has to: it ends with an IAM user by a   *)
(* write, or because there is nothing to take out.                         *)
LEMMA PendingKept ==
  ASSUME GrantInv, AgreeInv, NEW j \in Jobs, ConsumerStep(j) \/ ConsumerCrash(j),
         Recoverable, Recoverable', ~Is(j, "rename"), At(j, "list") => ~Fault("list"),
         NEW i \in Ids, key[i] # None, UserOf[i] = job[j].user, Pending(j, i)
  PROVE  \/ Pending(j, i)'
         \/ SavePolicy(j) /\ job[j].id = i
         \/ Is(j, "revoke") /\ job[j].bucket \notin row[i]
<1>1. /\ TypeOK /\ Current(j) /\ job[j].list \in [Ids -> Keys \cup {None}]
      /\ ~Fault("step") /\ ~Fault("reply")
  BY NothingMissed DEF GrantInv, TypeOK, JobRecord, AgreeInv
<1>2. ~RenamePolicy(j)
  BY DEF RenamePolicy
<1>3. CASE Ack(j)
  BY <1>3, NoListType DEF Ack, Pending, At, Writing
<1>4. CASE ConsumerCrash(j)
  <2>1. job'[j] = [NoJob EXCEPT !.kind = job[j].kind, !.place = "queued",
                                !.user = job[j].user, !.bucket = job[j].bucket]
    BY <1>1, <1>4 DEF ConsumerCrash, TypeOK
  <2>2. QED
    BY <2>1 DEF Pending, NoJob
<1>5. CASE ListForGrant(j) \/ RemoveBucket(j) \/ ListForRevoke(j)
  <2>1. CASE Work(j, "each", IamUsers(job[j].user), None, {})
    <3>1. job'[j].place = "each" /\ job'[j].list = IamUsers(job[j].user)
      BY <2>1, Afterwards, ListAfterwards
    <3>2. job'[j].list[i] = key[i]
      BY <3>1 DEF IamUsers
    <3>3. QED
      BY <3>1, <3>2 DEF Pending, At
  <2>2. CASE UNCHANGED job \/ \E p \in {"queued", "list"} : Go(j, p)
    BY <2>2, Afterwards, PlaceMembers DEF Pending, At, Writing
  <2>3. QED
    BY <1>5, <2>1, <2>2 DEF ListForGrant, RemoveBucket, ListForRevoke
<1>6. ASSUME NEW h, h # i, Skip(j, h), LoopPlace(job[j].place)
      PROVE  Pending(j, i)'
  <2>1. job'[j].place = "each" /\ job'[j].list = [job[j].list EXCEPT ![h] = None]
    BY <1>6, Afterwards, ListAfterwards DEF Skip
  <2>2. QED
    BY <1>1, <1>6, <2>1 DEF Pending, At, Writing, LoopPlace
<1>7. ASSUME NEW h \in Ids, ReadPolicy(j, h)
      PROVE  Pending(j, i)' \/ (Is(j, "revoke") /\ job[j].bucket \notin row[i])
  <2>1. At(j, "each") /\ LoopPlace(job[j].place) /\ job[j].list[i] # None
    BY <1>7 DEF ReadPolicy, At, LoopPlace, Pending, Writing
  <2>2. CASE Work(j, "add", job[j].list, h, Changed(j, row[h]))
    <3>1. job'[j].place = "add" /\ job'[j].list = job[j].list
      BY <2>2, Afterwards, ListAfterwards
    <3>2. QED
      BY <2>1, <3>1 DEF Pending, At, Writing
  <2>3. QED
    BY <1>1, <1>6, <1>7, <2>1, <2>2 DEF ReadPolicy
<1>8. CASE AddPolicy(j) \/ AttachPolicy(j) \/ SavePolicy(j)
  <2>1. LoopPlace(job[j].place) /\ Writing(j) /\ job[j].list[i] # None
    BY <1>8 DEF AddPolicy, AttachPolicy, SavePolicy, At, LoopPlace, Writing, Pending
  <2>2. CASE Go(j, "attach") \/ Go(j, "save")
    <3>1. job'[j].place \in {"attach", "save"} /\ job'[j].list = job[j].list
      BY <2>2, Afterwards, ListAfterwards, PlaceMembers
    <3>2. QED
      BY <2>1, <3>1 DEF Pending, At, Writing
  <2>3. CASE NextId(j) /\ job[j].id # i
    BY <1>6, <2>1, <2>3 DEF NextId
  <2>4. CASE AttachPolicy(j) /\ job[j].id = i
    <3>1. key[i] = KeyInHand(j) /\ policy[i][KeyInHand(j)] # None
      <4>1. At(j, "attach")
        BY <2>4 DEF AttachPolicy
      <4>2. job[j].list[i] = key[i] /\ policy[i][key[i]] = job[j].doc
        BY <1>1, <2>1, <2>4, <4>1 DEF Current, At, Writing
      <4>3. job[j].doc # None
        BY <1>1, NoneAssumption DEF TypeOK, JobRecord
      <4>4. QED
        BY <2>4, <4>2, <4>3 DEF KeyInHand
    <3>2. QED
      BY <1>1, <2>2, <2>4, <3>1 DEF AttachPolicy
  <2>5. QED
    BY <1>1, <1>8, <2>2, <2>3, <2>4 DEF AddPolicy, AttachPolicy, SavePolicy
<1>9. QED
  BY <1>2, <1>3, <1>4, <1>5, <1>7, <1>8 DEF ConsumerStep

(* The list of an IAM user is written back as the message changed it, and  *)
(* MinIO has that list by then.                                            *)
LEMMA RowAfter ==
  ASSUME GrantInv, ApartInv, AgreeInv, NEW j \in Jobs, ConsumerStep(j) \/ ConsumerCrash(j),
         Recoverable, Recoverable', NEW i \in Ids, key[i] # None
  PROVE  \/ /\ SavePolicy(j) /\ job[j].id = i /\ Writing(j) /\ UserOf[i] = job[j].user
            /\ job[j].list[i] # None
            /\ row'[i] = Changed(j, row[i]) /\ Granted(i)' = row'[i]
         \/ row'[i] = row[i] /\ ~(SavePolicy(j) /\ job[j].id = i)
<1>1. /\ TypeOK /\ Current(j) /\ ~Fault("step") /\ UNCHANGED key
  BY NothingMissed, StepTouches DEF GrantInv, AgreeInv
<1>2. CASE SavePolicy(j)
  <2>1. /\ Writing(j) /\ At(j, "save") /\ ~At(j, "idle") /\ UNCHANGED <<policy, attached>>
        /\ \/ key[job[j].id] # None /\ row' = [row EXCEPT ![job[j].id] = job[j].doc]
           \/ key[job[j].id] = None /\ UNCHANGED row
    BY <1>1, <1>2 DEF SavePolicy, Writing, At, policies
  <2>2. /\ job[j].id \in Ids /\ UserOf[job[j].id] = job[j].user
        /\ KeyInHand(j) # None /\ job[j].doc \in SUBSET Buckets
    BY <2>1, InHand, NoneAssumption
  <2>3. CASE job[j].id = i
    <3>1. row'[i] = job[j].doc /\ job[j].doc = Changed(j, row[i])
      BY <1>1, <2>1, <2>3 DEF ApartInv, TypeOK
    <3>2. policy'[i][key'[i]] = job[j].doc /\ i \in attached'
      BY <1>1, <2>1, <2>3 DEF Current, At
    <3>3. Granted(i)' = row'[i]
      BY <2>2, <3>1, <3>2, NoneAssumption DEF Granted
    <3>4. QED
      BY <1>2, <2>1, <2>2, <2>3, <3>1, <3>3 DEF KeyInHand
  <2>4. QED
    BY <1>1, <2>1, <2>3 DEF TypeOK
<1>3. CASE ~SavePolicy(j)
  BY <1>3 DEF ConsumerStep, ConsumerCrash, RenamePolicy, ListForGrant, RemoveBucket,
     ListForRevoke, ReadPolicy, AddPolicy, AttachPolicy, Ack, policies
<1>4. QED
  BY <1>2, <1>3

(* What MinIO grants an IAM user after a step: what it did, what Postgres  *)
(* lists, or what the message in hand is to write there.                   *)
LEMMA GrantedAfter ==
  ASSUME GrantInv, ApartInv, AgreeInv, NEW j \in Jobs, ConsumerStep(j) \/ ConsumerCrash(j),
         Recoverable, Recoverable', NEW i \in Ids, key[i] # None
  PROVE  \/ Granted(i)' \subseteq Granted(i)
         \/ Granted(i)' \subseteq row'[i]
         \/ /\ Writing(j) /\ job[j].id = i /\ UserOf[i] = job[j].user /\ Pending(j, i)
            /\ Granted(i)' \subseteq Changed(j, row[i])
<1>1. /\ TypeOK /\ Current(j) /\ ~Fault("step") /\ ~Fault("reply") /\ UNCHANGED key
      /\ key[i] \in Keys /\ policy \in [Ids -> [Keys -> (SUBSET Buckets) \cup {None}]]
  BY NothingMissed, StepTouches DEF GrantInv, AgreeInv, TypeOK
<1>2. CASE policy'[i] = policy[i] /\ (i \in attached' => i \in attached)
  BY <1>1, <1>2 DEF Granted
<1>3. CASE RenamePolicy(j)
  <2>1. /\ At(j, "queued") /\ Is(j, "rename") /\ ~At(j, "idle") /\ job[j].id \in Ids
    BY <1>3, InHand DEF RenamePolicy, At
  <2>2. CASE job[j].id # i
    BY <1>1, <1>2, <1>3, <2>1, <2>2 DEF RenamePolicy, TypeOK
  <2>3. CASE job[j].id = i
    <3>1. key[i] = job[j].key /\ row[i] = job[j].doc
      BY <1>1, <2>1, <2>3 DEF Current
    <3>2. policy'[i] = [k \in Keys |-> IF k = job[j].key THEN job[j].doc
                                    ELSE IF k = KeyInHand(j) THEN None ELSE policy[i][k]]
          /\ UNCHANGED row
      BY <1>1, <1>3, <2>3 DEF RenamePolicy
    <3>3. policy'[i][key'[i]] = row'[i]
      BY <1>1, <3>1, <3>2
    <3>4. QED
      BY <3>3 DEF Granted
  <2>4. QED
    BY <2>2, <2>3
<1>4. ASSUME NEW h \in Ids, ReadPolicy(j, h)
      PROVE  Granted(i)' \subseteq Granted(i)
  <2>1. UNCHANGED attached /\ job[j].list[h] \in Keys
    BY <1>4 DEF ReadPolicy, GrantInv, TypeOK, JobRecord
  <2>2. CASE policy' = [policy EXCEPT ![h][job[j].list[h]] = None]
    <3> DEFINE f == [policy[h] EXCEPT ![job[j].list[h]] = None]
    <3>1. policy' = [policy EXCEPT ![h] = f]
      BY <2>2
    <3>2. f[key[i]] \in {None, policy[h][key[i]]}
      BY <1>1, <2>1
    <3> HIDE DEF f
    <3>3. policy'[i] = IF i = h THEN f ELSE policy[i]
      BY <1>1, <3>1
    <3>4. policy'[i][key[i]] \in {None, policy[i][key[i]]}
      BY <3>2, <3>3
    <3>5. QED
      BY <1>1, <2>1, <3>4 DEF Granted
  <2>3. CASE UNCHANGED policy
    BY <1>1, <2>1, <2>3 DEF Granted
  <2>4. QED
    BY <1>4, <2>2, <2>3 DEF ReadPolicy
<1>5. CASE AddPolicy(j) \/ AttachPolicy(j)
  <2>1. /\ Writing(j) /\ ~At(j, "idle") /\ ~At(j, "save")
        /\ job[j].place \in {"add", "attach"}
    BY <1>5 DEF AddPolicy, AttachPolicy, Writing, At
  <2>2. /\ job[j].id \in Ids /\ UserOf[job[j].id] = job[j].user
        /\ KeyInHand(j) \in Keys
    BY <2>1, InHand
  <2>3. CASE job[j].id # i
    BY <1>1, <1>2, <1>5, <2>3 DEF AddPolicy, AttachPolicy, policies, TypeOK
  <2>4. CASE job[j].id = i
    <3>1. KeyInHand(j) = key[i] /\ job[j].doc = Changed(j, row[i]) /\ Pending(j, i)
      BY <1>1, <2>1, <2>2, <2>4, NoneAssumption
      DEF Current, KeyInHand, ApartInv, Pending
    <3>2. policy'[i][key[i]] = job[j].doc
      <4>1. CASE AddPolicy(j)
        <5> DEFINE f == [policy[i] EXCEPT ![key[i]] = job[j].doc]
        <5>1. policy' = [policy EXCEPT ![i] = f]
          BY <1>1, <2>4, <3>1, <4>1 DEF AddPolicy
        <5>2. f[key[i]] = job[j].doc
          BY <1>1
        <5> HIDE DEF f
        <5>3. policy'[i] = f
          BY <1>1, <5>1
        <5>4. QED
          BY <5>2, <5>3
      <4>2. CASE AttachPolicy(j)
        BY <1>1, <2>4, <4>2 DEF AttachPolicy, Current, At
      <4>3. QED
        BY <1>5, <4>1, <4>2
    <3>3. Granted(i)' \subseteq job[j].doc
      BY <1>1, <3>2 DEF Granted
    <3>4. QED
      BY <2>1, <2>2, <2>4, <3>1, <3>3
  <2>5. QED
    BY <2>3, <2>4
<1>6. CASE ListForGrant(j) \/ RemoveBucket(j) \/ ListForRevoke(j) \/ SavePolicy(j) \/ Ack(j)
           \/ ConsumerCrash(j)
  BY <1>2, <1>6
  DEF ListForGrant, RemoveBucket, ListForRevoke, SavePolicy, Ack, ConsumerCrash, policies
<1>7. QED
  BY <1>3, <1>4, <1>5, <1>6 DEF ConsumerStep

----------------------------------------------------------------------------
(* A bucket that was deleted. *)

Undisturbed == Without(CrossKind, {"publish", "list", "step", "reply"})

Listed(i, b) ==
  (key[i] # None /\ b \in row[i]) =>
    owner[b] = UserOf[i] \/ \E j \in Jobs : Reaches(j, "revoke", i, b)
Opened(i, b) ==
  (key[i] # None /\ b \in Granted(i)) =>
    b \in row[i] \/ \E j \in Jobs : Reaches(j, "grant", i, b)
Deleting(u, b) ==
  \E h \in Jobs : /\ Is(h, "revoke") /\ At(h, "queued")
                  /\ job[h].user = u /\ job[h].bucket = b
Justified(j) ==
  (Is(j, "grant") /\ ~At(j, "idle")) =>
    owner[job[j].bucket] = job[j].user \/ Deleting(job[j].user, job[j].bucket)

LEMMA OutliveParts ==
  OutliveInv <=>
    (Undisturbed => /\ \A i \in Ids, b \in Buckets : Listed(i, b) /\ Opened(i, b)
                    /\ \A j \in Jobs : Justified(j))
BY DEF OutliveInv, Undisturbed, Listed, Opened, Justified, Deleting

LEMMA UndisturbedBefore ==
  ASSUME Next, Undisturbed'
  PROVE  Undisturbed
BY HistoryGrows DEF Undisturbed, Without

LEMMA UndisturbedMeans ==
  ASSUME Undisturbed
  PROVE  Recoverable /\ "overlap" \notin crossed /\ "order" \notin crossed
BY DEF Undisturbed, Recoverable, Without, CrossKind

LEMMA ReachesKept ==
  ASSUME NEW h \in Jobs, job'[h] = job[h], NEW kind, NEW i \in Ids, NEW b
  PROVE  Reaches(h, kind, i, b)' <=> Reaches(h, kind, i, b)
BY DEF Reaches, Is, Pending, At, Writing

LEMMA DeletingKept ==
  ASSUME NEW j \in Jobs, \A h \in Jobs \ {j} : job'[h] = job[h],
         ~(Is(j, "revoke") /\ At(j, "queued")), NEW u, NEW b, Deleting(u, b)
  PROVE  \E h \in Jobs : /\ Is(h, "revoke")' /\ At(h, "queued")'
                         /\ job'[h].user = u /\ job'[h].bucket = b
BY DEF Deleting, Is, At

LEMMA OutliveByConsumer ==
  ASSUME GrantInv, ApartInv, AgreeInv, OutliveInv, NEW j \in Jobs,
         ConsumerStep(j) \/ ConsumerCrash(j), Undisturbed, Undisturbed'
  PROVE  OutliveInv'
<1>1. /\ TypeOK /\ Recoverable /\ Recoverable' /\ UNCHANGED <<key, owner>>
      /\ \A h \in Jobs \ {j} : job'[h] = job[h]
      /\ ~Fault("list") /\ "overlap" \notin crossed' /\ "order" \notin crossed'
  <2>1. Recoverable /\ Recoverable' /\ "overlap" \notin crossed' /\ "order" \notin crossed'
    BY DEF Undisturbed, Recoverable, Without, CrossKind
  <2>2. ~Fault("list")
    BY DEF Undisturbed, Without, Fault
  <2>3. QED
    BY <2>1, <2>2, ConsumerEffect DEF Effect, GrantInv
<1>2. ASSUME NEW i \in Ids, key[i] # None, NEW b, NEW kind \in {"grant", "revoke"},
             Reaches(j, kind, i, b)
      PROVE  \/ Reaches(j, kind, i, b)'
             \/ SavePolicy(j) /\ job[j].id = i
             \/ kind = "revoke" /\ b \notin row[i]
  <2>1. \/ Pending(j, i)'
        \/ SavePolicy(j) /\ job[j].id = i
        \/ Is(j, "revoke") /\ job[j].bucket \notin row[i]
    BY <1>1, <1>2, PendingKept DEF Reaches, Is
  <2>2. Pending(j, i)' => job'[j].place # "idle"
    BY DEF Pending, At, Writing
  <2>3. QED
    BY <1>2, <2>1, <2>2, SameMessage DEF Reaches, Is
<1>3. ASSUME NEW i \in Ids, NEW b \in Buckets PROVE Listed(i, b)'
  <2> SUFFICES ASSUME key[i] # None, b \in row'[i], owner[b] # UserOf[i]
               PROVE  \E h \in Jobs : Reaches(h, "revoke", i, b)'
    BY <1>1 DEF Listed
  <2>1. CASE b \in row[i]
    <3>1. PICK h \in Jobs : Reaches(h, "revoke", i, b)
      BY <2>1, OutliveParts DEF Listed
    <3>2. CASE h # j
      BY <1>1, <3>1, <3>2, ReachesKept
    <3>3. CASE h = j
      <4>1. ~(SavePolicy(j) /\ job[j].id = i)
        BY <1>1, <3>1, <3>3, RowAfter DEF Changed, Reaches, Is
      <4>2. QED
        BY <1>2, <2>1, <3>1, <3>3, <4>1
    <3>4. QED
      BY <3>2, <3>3
  <2>2. CASE b \notin row[i]
    <3>1. /\ SavePolicy(j) /\ UserOf[i] = job[j].user /\ Writing(j)
          /\ Is(j, "grant") /\ job[j].bucket = b
      BY <1>1, <2>2, RowAfter DEF Changed
    <3>2. ~At(j, "idle")
      BY <3>1 DEF At, Writing
    <3>3. Deleting(job[j].user, b)
      BY <3>1, <3>2, OutliveParts DEF Justified
    <3>4. PICK h \in Jobs : /\ Is(h, "revoke") /\ At(h, "queued")
                            /\ job[h].user = job[j].user /\ job[h].bucket = b
      BY <3>3 DEF Deleting
    <3>5. h # j /\ Reaches(h, "revoke", i, b)
      BY <3>1, <3>4 DEF Reaches, Pending, At, Is
    <3>6. QED
      BY <1>1, <3>5, ReachesKept
  <2>3. QED
    BY <2>1, <2>2
<1>4. ASSUME NEW i \in Ids, NEW b \in Buckets PROVE Opened(i, b)'
  <2> SUFFICES ASSUME key[i] # None, b \in Granted(i)', b \notin row'[i]
               PROVE  \E h \in Jobs : Reaches(h, "grant", i, b)'
    BY <1>1 DEF Opened
  <2>1. row'[i] = row[i] /\ ~(SavePolicy(j) /\ job[j].id = i)
    BY <1>1, RowAfter
  <2>2. \E h \in Jobs : Reaches(h, "grant", i, b)
    <3>1. CASE b \in Granted(i)
      BY <2>1, <3>1, OutliveParts DEF Opened
    <3>2. CASE b \notin Granted(i)
      BY <1>1, <2>1, <3>2, GrantedAfter DEF Changed, Reaches
    <3>3. QED
      BY <3>1, <3>2
  <2>3. PICK h \in Jobs : Reaches(h, "grant", i, b)
    BY <2>2
  <2>4. QED
    BY <1>1, <1>2, <2>1, <2>3, ReachesKept
<1>5. ASSUME NEW h \in Jobs PROVE Justified(h)'
  <2> SUFFICES ASSUME Is(h, "grant")', ~At(h, "idle")'
               PROVE  \/ owner[job'[h].bucket] = job'[h].user
                      \/ \E g \in Jobs : /\ Is(g, "revoke")' /\ At(g, "queued")'
                                         /\ job'[g].user = job'[h].user
                                         /\ job'[g].bucket = job'[h].bucket
    BY <1>1 DEF Justified, Deleting
  <2>1. /\ job'[h].kind = job[h].kind /\ job'[h].user = job[h].user
        /\ job'[h].bucket = job[h].bucket
    BY <1>1, SameMessage DEF At
  <2>2. ~At(h, "idle") /\ Is(h, "grant")
    <3>1. ~At(j, "idle")
      BY <1>1 DEF At, ConsumerStep, ConsumerCrash, RenamePolicy, ListForGrant, RemoveBucket,
         ListForRevoke, ReadPolicy, AddPolicy, AttachPolicy, SavePolicy, Ack, Deliver, WorkPlace
    <3>2. QED
      BY <1>1, <2>1, <3>1 DEF At, Is
  <2>3. owner[job[h].bucket] = job[h].user \/ Deleting(job[h].user, job[h].bucket)
    BY <2>2, OutliveParts DEF Justified
  <2>4. CASE ~(Is(j, "revoke") /\ At(j, "queued"))
    BY <1>1, <2>1, <2>3, <2>4, DeletingKept
  <2>5. CASE Is(j, "revoke") /\ At(j, "queued")
    <3>1. RemoveBucket(j)
      BY <2>5 DEF At, Is, ConsumerStep, ConsumerCrash, RenamePolicy, ListForGrant,
         ListForRevoke, ReadPolicy, AddPolicy, AttachPolicy, SavePolicy, Ack, Deliver, WorkPlace
    <3>2. ~Busy(job[j].user) /\ ~GrantWaits(job[j].user, job[j].bucket)
      BY <1>1, <2>5, <3>1 DEF RemoveBucket, Deliver, Cross, CrossKind
    <3>3. Working(h) \/ At(h, "queued")
      BY <1>1, <2>2 DEF Working, At, TypeOK, JobRecord, Place
    <3>4. job[h].user # job[j].user \/ job[h].bucket # job[j].bucket
      BY <2>2, <3>2, <3>3 DEF Busy, GrantWaits
    <3>5. CASE owner[job[h].bucket] = job[h].user
      BY <2>1, <3>5
    <3>6. CASE Deleting(job[h].user, job[h].bucket)
      BY <1>1, <2>1, <3>4, <3>6 DEF Deleting, Is, At
    <3>7. QED
      BY <2>3, <3>5, <3>6
  <2>6. QED
    BY <2>4, <2>5
<1>6. QED
  BY <1>3, <1>4, <1>5 DEF OutliveInv, Listed, Opened, Justified, Deleting

(* What the requests about buckets and keys do, for both invariants. *)
LEMMA BucketRequest ==
  ASSUME GrantInv, NEW j \in Jobs, NEW u \in Users, NEW b \in Buckets, ~Fault("publish"),
         NEW kind \in {"grant", "revoke"}, Publish(j, kind, u, b), At(j, "idle")
  PROVE  /\ \A h \in Jobs \ {j} : job'[h] = job[h]
         /\ job'[j].kind = kind /\ job'[j].place = "queued"
         /\ job'[j].user = u /\ job'[j].bucket = b
         /\ \A i \in Ids, c \in Buckets, k \in {"grant", "revoke"} : ~Reaches(j, k, i, c)
<1> DEFINE r == [NoJob EXCEPT !.kind = kind, !.place = "queued", !.user = u, !.bucket = b]
<1>1. r.kind = kind /\ r.place = "queued" /\ r.user = u /\ r.bucket = b
  BY DEF NoJob
<1>2. job' = [job EXCEPT ![j] = r] /\ job \in [Jobs -> JobRecord]
  BY DEF Publish, GrantInv, TypeOK
<1> HIDE DEF r
<1>3. \A i \in Ids, c \in Buckets, k \in {"grant", "revoke"} : ~Reaches(j, k, i, c)
  BY DEF Reaches, Pending, At, Writing
<1>4. QED
  BY <1>1, <1>2, <1>3

LEMMA OutliveByBucket ==
  ASSUME GrantInv, OutliveInv, Undisturbed, Undisturbed',
         NEW j \in Jobs, NEW u \in Users, NEW b \in Buckets,
         CreateBucket(j, u, b) \/ DeleteBucketByID(j, u, b)
  PROVE  OutliveInv'
<1>1. /\ TypeOK /\ At(j, "idle") /\ UNCHANGED <<key, row, policy, attached>>
      /\ \A c \in Buckets \ {b} : owner'[c] = owner[c]
  BY DEF CreateBucket, DeleteBucketByID, policies, GrantInv, TypeOK
<1>2. ~Fault("publish")
  BY DEF Undisturbed, Without, Fault
<1>3. /\ \A h \in Jobs \ {j} : job'[h] = job[h]
      /\ job'[j].place = "queued" /\ job'[j].user = u /\ job'[j].bucket = b
      /\ \A i \in Ids, c \in Buckets, k \in {"grant", "revoke"} : ~Reaches(j, k, i, c)
      /\ \/ job'[j].kind = "grant" /\ owner[b] = None /\ owner'[b] = u
         \/ job'[j].kind = "revoke" /\ owner[b] = u
  BY <1>1, <1>2, BucketRequest DEF CreateBucket, DeleteBucketByID, TypeOK
<1>4. \A i \in Ids : UserOf[i] \in Users /\ UserOf[i] # None
  BY UserOfAssumption, NoneAssumption
<1>5. ASSUME NEW i \in Ids, NEW c \in Buckets PROVE Listed(i, c)' /\ Opened(i, c)'
  <2>1. Listed(i, c) /\ Opened(i, c)
    BY OutliveParts
  <2>2. Granted(i)' = Granted(i)
    BY <1>1 DEF Granted
  <2>3. \A h \in Jobs, k \in {"grant", "revoke"} : Reaches(h, k, i, c) => Reaches(h, k, i, c)'
    BY <1>3, ReachesKept
  <2>4. (owner[c] = UserOf[i] /\ owner'[c] # owner[c]) => Reaches(j, "revoke", i, c)'
    BY <1>1, <1>3, <1>4 DEF Reaches, Is, Pending
  <2>5. QED
    BY <1>1, <2>1, <2>2, <2>3, <2>4 DEF Listed, Opened
<1>6. ASSUME NEW h \in Jobs PROVE Justified(h)'
  <2> SUFFICES ASSUME Is(h, "grant")', ~At(h, "idle")'
               PROVE  \/ owner'[job'[h].bucket] = job'[h].user
                      \/ \E g \in Jobs : /\ Is(g, "revoke")' /\ At(g, "queued")'
                                         /\ job'[g].user = job'[h].user
                                         /\ job'[g].bucket = job'[h].bucket
    BY DEF Justified, Deleting
  <2>1. CASE h = j
    BY <1>3, <2>1 DEF Is
  <2>2. CASE h # j
    <3>1. /\ Is(h, "grant") /\ ~At(h, "idle") /\ job'[h] = job[h] /\ Justified(h)
          /\ job[h].user \in Users /\ job[h].bucket \in Buckets
      <4>1. Is(h, "grant") /\ ~At(h, "idle") /\ job'[h] = job[h] /\ Justified(h)
        BY <1>3, <2>2, OutliveParts DEF Is, At
      <4>2. ~Is(h, "rename")
        BY <4>1 DEF Is
      <4>3. job[h].user \in Users /\ job[h].bucket \in ever[job[h].user]
        BY <4>1, <4>2, InHand
      <4>4. QED
        BY <1>1, <4>1, <4>3 DEF TypeOK
    <3>2. CASE Deleting(job[h].user, job[h].bucket)
      BY <1>1, <1>3, <3>1, <3>2, DeletingKept DEF At
    <3>3. CASE owner[job[h].bucket] = job[h].user
      <4>1. job[h].bucket = b => owner[b] = u /\ job[h].user = u /\ job'[j].kind = "revoke"
        BY <1>3, <3>1, <3>3, NoneAssumption
      <4>2. QED
        BY <1>1, <1>3, <3>1, <3>3, <4>1 DEF Is, At
    <3>4. QED
      BY <3>1, <3>2, <3>3 DEF Justified
  <2>3. QED
    BY <2>1, <2>2
<1>7. QED
  BY <1>5, <1>6, OutliveParts DEF OutliveInv, Listed, Opened, Justified, Deleting

LEMMA OutliveByIam ==
  ASSUME GrantInv, OutliveInv, Undisturbed, NEW i \in Ids,
         DeleteIAMByID(i) \/ \E k \in Keys : CreateIAM(i, k)
  PROVE  OutliveInv'
<1>1. /\ TypeOK /\ UNCHANGED <<job, owner>> /\ row'[i] = {}
      /\ \A h \in Ids \ {i} : /\ key'[h] = key[h] /\ row'[h] = row[h] /\ policy'[h] = policy[h]
                              /\ h \in attached' => h \in attached
  BY DEF GrantInv, TypeOK, DeleteIAMByID, CreateIAM, buckets
<1>2. key'[i] = None \/ Granted(i)' = {}
  <2>1. CASE DeleteIAMByID(i)
    BY <1>1, <2>1 DEF DeleteIAMByID, TypeOK
  <2>2. ASSUME NEW k \in Keys, CreateIAM(i, k) PROVE Granted(i)' = {}
    <3> DEFINE f == [policy[i] EXCEPT ![k] = {}]
    <3>1. policy' = [policy EXCEPT ![i] = f] /\ key'[i] = k
      BY <1>1, <2>2 DEF CreateIAM, TypeOK
    <3>2. f[k] = {}
      BY <1>1 DEF TypeOK
    <3> HIDE DEF f
    <3>3. policy'[i] = f
      BY <1>1, <3>1 DEF TypeOK
    <3>4. QED
      BY <3>1, <3>2, <3>3 DEF Granted
  <2>3. QED
    BY <2>1, <2>2
<1>3. ASSUME NEW h \in Ids, NEW b \in Buckets PROVE Listed(h, b)' /\ Opened(h, b)'
  <2>1. CASE h = i
    BY <1>1, <1>2, <2>1 DEF Listed, Opened
  <2>2. CASE h # i
    <3>1. Listed(h, b) /\ Opened(h, b)
      BY OutliveParts
    <3>2. Granted(h)' \subseteq Granted(h)
      BY <1>1, <2>2 DEF Granted
    <3>3. QED
      BY <1>1, <2>2, <3>1, <3>2, ReachesKept DEF Listed, Opened
  <2>3. QED
    BY <2>1, <2>2
<1>4. \A h \in Jobs : Justified(h)'
  BY <1>1, OutliveParts DEF Justified, Deleting, Is, At
<1>5. QED
  BY <1>3, <1>4 DEF OutliveInv, Listed, Opened, Justified, Deleting

LEMMA OutliveByCredentials ==
  ASSUME GrantInv, OutliveInv, Undisturbed,
         NEW j \in Jobs, NEW i \in Ids, NEW k \in Keys, UpdateIAMCredentials(j, i, k)
  PROVE  OutliveInv'
<1>1. /\ TypeOK /\ At(j, "idle") /\ key[i] # None /\ UNCHANGED <<owner, row, policy>>
      /\ key' = [key EXCEPT ![i] = k] /\ attached' = attached \ {i}
  BY DEF GrantInv, UpdateIAMCredentials, buckets
<1>2. /\ \A h \in Jobs \ {j} : job'[h] = job[h]
      /\ job'[j] = job[j] \/ job'[j].kind = "rename"
  BY <1>1, CredentialsKeep, RenameType DEF OneJob
<1>3. \A h \in Jobs, l \in Ids, c \in Buckets, kind \in {"grant", "revoke"} :
        Reaches(h, kind, l, c) => Reaches(h, kind, l, c)'
  <2>1. \A l \in Ids, c \in Buckets, kind \in {"grant", "revoke"} : ~Reaches(j, kind, l, c)
    BY <1>1 DEF Reaches, Pending, At, Writing
  <2>2. QED
    BY <1>2, <2>1, ReachesKept
<1>4. ASSUME NEW l \in Ids, NEW b \in Buckets PROVE Listed(l, b)' /\ Opened(l, b)'
  <2>1. Listed(l, b) /\ Opened(l, b)
    BY OutliveParts
  <2>2. Granted(l)' \subseteq Granted(l) /\ (key'[l] # None => key[l] # None)
    BY <1>1 DEF Granted, TypeOK
  <2>3. QED
    BY <1>1, <1>3, <2>1, <2>2 DEF Listed, Opened
<1>5. ASSUME NEW h \in Jobs PROVE Justified(h)'
  <2> SUFFICES ASSUME Is(h, "grant")', ~At(h, "idle")'
               PROVE  \/ owner[job'[h].bucket] = job'[h].user
                      \/ \E g \in Jobs : /\ Is(g, "revoke")' /\ At(g, "queued")'
                                         /\ job'[g].user = job'[h].user
                                         /\ job'[g].bucket = job'[h].bucket
    BY <1>1 DEF Justified, Deleting
  <2>1. job'[h] = job[h] /\ Justified(h)
    BY <1>2, OutliveParts DEF Is
  <2>2. Is(h, "grant") /\ ~At(h, "idle")
    BY <2>1 DEF Is, At
  <2>3. QED
    BY <1>1, <1>2, <2>1, <2>2, DeletingKept DEF Justified, At
<1>6. QED
  BY <1>4, <1>5 DEF OutliveInv, Listed, Opened, Justified, Deleting

LEMMA OutliveInvKept == IndInv /\ AgreeInv /\ OutliveInv /\ [Next]_vars => OutliveInv'
<1> SUFFICES ASSUME IndInv, AgreeInv, OutliveInv, [Next]_vars, Undisturbed' PROVE OutliveInv'
  BY DEF OutliveInv, Undisturbed
<1>1. CASE UNCHANGED vars
  BY <1>1 DEF vars, OutliveInv, Without, Reaches, Pending, Granted, At, Is, Writing
<1>2. CASE Next
  <2>1. Undisturbed /\ GrantInv /\ ApartInv
    BY <1>2, UndisturbedBefore, UndisturbedMeans DEF IndInv
  <2>2. QED
    BY <1>2, <2>1, OutliveByBucket, OutliveByIam, OutliveByCredentials, OutliveByConsumer
    DEF Next, Request
<1>3. QED
  BY <1>1, <1>2

(* When no message is on its way for a user, no IAM user of it is listed,  *)
(* in Postgres or in MinIO, for a bucket that is not the user's any more,  *)
(* unless messages crossed or a failure was given up.                      *)
THEOREM DeletedBucketsAreClosed == Spec => []NoGrantOutlivesBucket
<1>1. Init => IndInv /\ AgreeInv /\ OutliveInv
  BY InitiallyEmpty DEF AgreeInv, OutliveInv, Current, Writing, At, Is
<1>2. IndInv /\ OutliveInv => NoGrantOutlivesBucket
  <2> SUFFICES ASSUME IndInv, OutliveInv, Undisturbed, NEW i \in Ids, key[i] # None,
                      Settled(UserOf[i]), NEW b \in row[i] \cup Granted(i)
               PROVE  b \in Owned(UserOf[i])
    BY DEF NoGrantOutlivesBucket, Undisturbed
  <2>1. b \in Buckets
    BY DEF IndInv, GrantInv, TypeOK, Granted
  <2>2. \A h \in Jobs, kind \in {"grant", "revoke"} : ~Reaches(h, kind, i, b)
    BY DEF Settled, Reaches
  <2>3. QED
    BY <2>1, <2>2, OutliveParts DEF Listed, Opened, Owned
<1>3. QED
  BY <1>1, <1>2, IndInvKept, AgreeInvKept, OutliveInvKept, PTL DEF Spec

----------------------------------------------------------------------------
(* A bucket that is due. *)

Undeterred == Without({"overlap"}, {"publish", "step", "reply", "crash"})

Alone(j) ==
  (Is(j, "revoke") /\ At(j, "queued")) =>
    /\ owner[job[j].bucket] = None /\ job[j].bucket \in minio
    /\ \A h \in Jobs :
         (Is(h, "revoke") /\ At(h, "queued") /\ job[h].bucket = job[j].bucket) => h = j
Kept(i, b) ==
  \/ b \in row[i] /\ \A j \in Jobs : ~Reaches(j, "revoke", i, b)
  \/ \E j \in Jobs : Reaches(j, "grant", i, b)

LEMMA DueParts ==
  DueInv <=>
    (Undeterred => /\ \A b \in Buckets : owner[b] # None => b \in minio
                   /\ \A j \in Jobs : At(j, "list") => Is(j, "revoke")
                   /\ \A j \in Jobs : Alone(j)
                   /\ \A i \in Ids : key[i] = None => due[i] = {}
                   /\ \A i \in Ids : \A b \in due[i] : owner[b] = UserOf[i] /\ Kept(i, b))
BY DEF DueInv, Undeterred, Alone, Kept

LEMMA UndeterredBefore ==
  ASSUME Next, Undeterred'
  PROVE  Undeterred
BY HistoryGrows DEF Undeterred, Without

LEMMA LoopStays ==
  ASSUME GrantInv, NEW j \in Jobs,
         (\E i \in Ids : ReadPolicy(j, i)) \/ AddPolicy(j) \/ AttachPolicy(j) \/ SavePolicy(j)
  PROVE  LoopPlace(job'[j].place)
<1>1. \A i : Skip(j, i) => job'[j].place = "each"
  BY Afterwards DEF Skip
<1>2. CASE \E i \in Ids : ReadPolicy(j, i)
  BY <1>1, <1>2, Afterwards DEF ReadPolicy, LoopPlace
<1>3. CASE AddPolicy(j) \/ AttachPolicy(j) \/ SavePolicy(j)
  <2>1. NextId(j) \/ Go(j, "attach") \/ Go(j, "save")
    BY <1>3 DEF AddPolicy, AttachPolicy, SavePolicy
  <2>2. QED
    BY <1>1, <2>1, Afterwards, PlaceMembers DEF NextId, LoopPlace
<1>4. QED
  BY <1>2, <1>3

(* Who waits is worked on by nobody yet: a waiting deletion is still alone *)
(* after a step of a consumer.                                             *)
LEMMA DueByConsumer ==
  ASSUME GrantInv, ApartInv, AgreeInv, DueInv, NEW j \in Jobs,
         ConsumerStep(j) \/ ConsumerCrash(j), Undeterred, Undeterred'
  PROVE  DueInv'
<1>1. /\ TypeOK /\ Recoverable /\ Recoverable' /\ UNCHANGED <<key, owner, due>>
      /\ \A h \in Jobs \ {j} : job'[h] = job[h]
      /\ ~Fault("crash") /\ ConsumerStep(j) /\ ~At(j, "idle")
  <2>1. Recoverable /\ Recoverable'
    BY DEF Undeterred, Recoverable, Without
  <2>2. ~Fault("crash")
    BY DEF Undeterred, Without, Fault
  <2>3. ~At(j, "idle")
    BY DEF At, ConsumerStep, ConsumerCrash, RenamePolicy, ListForGrant, RemoveBucket,
       ListForRevoke, ReadPolicy, AddPolicy, AttachPolicy, SavePolicy, Ack, Deliver, WorkPlace
  <2>4. QED
    BY <2>1, <2>2, <2>3, ConsumerEffect DEF Effect, GrantInv, ConsumerCrash
<1>2. /\ \A b \in Buckets : owner[b] # None => b \in minio
      /\ \A h \in Jobs : (At(h, "list") => Is(h, "revoke")) /\ Alone(h)
      /\ \A i \in Ids : key[i] = None => due[i] = {}
      /\ \A i \in Ids : \A b \in due[i] : owner[b] = UserOf[i] /\ Kept(i, b)
  BY DueParts
<1>3. minio' = minio \/
        /\ Is(j, "revoke") /\ At(j, "queued") /\ minio' = minio \ {job[j].bucket}
        /\ owner[job[j].bucket] = None
  <2>1. CASE RemoveBucket(j)
    BY <1>2, <2>1 DEF RemoveBucket, Deliver, Alone
  <2>2. CASE ~RemoveBucket(j)
    BY <1>1, <2>2 DEF ConsumerStep, RenamePolicy, ListForGrant, ListForRevoke,
       ReadPolicy, AddPolicy, AttachPolicy, SavePolicy, Ack, buckets
  <2>3. QED
    BY <2>1, <2>2
<1>4. \A b \in Buckets : owner'[b] # None => b \in minio'
  BY <1>1, <1>2, <1>3
<1>5. At(j, "list")' => Is(j, "revoke")' /\ Is(j, "revoke") /\ At(j, "queued")
  <2>1. CASE RemoveBucket(j)
    BY <2>1, SameMessage, <1>1 DEF RemoveBucket, Deliver, Is, At
  <2>2. CASE ~RemoveBucket(j)
    <3>1. CASE RenamePolicy(j) \/ Ack(j)
      BY <3>1, Afterwards DEF RenamePolicy, Ack, At
    <3>2. CASE ListForGrant(j)
      BY <3>2, Afterwards DEF ListForGrant, Deliver, At
    <3>3. CASE ListForRevoke(j)
      BY <3>3, Afterwards DEF ListForRevoke, At
    <3>4. CASE (\E i \in Ids : ReadPolicy(j, i)) \/ AddPolicy(j) \/ AttachPolicy(j) \/ SavePolicy(j)
      BY <3>4, LoopStays DEF LoopPlace, At
    <3>5. QED
      BY <1>1, <2>2, <3>1, <3>2, <3>3, <3>4 DEF ConsumerStep
  <2>3. QED
    BY <2>1, <2>2
<1>6. ~(Is(j, "revoke")' /\ At(j, "queued")')
  <2> SUFFICES ASSUME Is(j, "revoke")', At(j, "queued")' PROVE FALSE
    OBVIOUS
  <2>1. Is(j, "revoke")
    BY <1>1, SameMessage DEF Is, At
  <2>2. CASE RenamePolicy(j) \/ Ack(j)
    BY <2>2, Afterwards DEF RenamePolicy, Ack, At
  <2>3. CASE ListForGrant(j)
    BY <2>1, <2>3 DEF ListForGrant, Deliver, Is
  <2>4. CASE RemoveBucket(j)
    <3>1. Go(j, "list")
      BY <1>2, <2>4 DEF RemoveBucket, Deliver, Alone
    <3>2. QED
      BY <3>1, Afterwards, PlaceMembers DEF At
  <2>5. CASE ListForRevoke(j)
    BY <2>5, Afterwards DEF ListForRevoke, At
  <2>6. CASE (\E i \in Ids : ReadPolicy(j, i)) \/ AddPolicy(j) \/ AttachPolicy(j) \/ SavePolicy(j)
    BY <2>6, LoopStays DEF LoopPlace, At
  <2>7. QED
    BY <1>1, <2>2, <2>3, <2>4, <2>5, <2>6 DEF ConsumerStep
<1>7. ASSUME NEW h \in Jobs PROVE (At(h, "list") => Is(h, "revoke"))' /\ Alone(h)'
  <2>1. CASE h = j
    BY <1>5, <1>6, <2>1 DEF Alone, At, Is
  <2>2. CASE h # j
    <3>1. job'[h] = job[h] /\ Alone(h) /\ (At(h, "list") => Is(h, "revoke"))
      BY <1>1, <1>2, <2>2
    <3>2. ASSUME Is(h, "revoke"), At(h, "queued")
          PROVE  /\ owner'[job'[h].bucket] = None /\ job'[h].bucket \in minio'
                 /\ \A g \in Jobs :
                      (Is(g, "revoke")' /\ At(g, "queued")' /\ job'[g].bucket = job'[h].bucket) =>
                        g = h
      <4>1. \A g \in Jobs :
              (Is(g, "revoke") /\ At(g, "queued") /\ job[g].bucket = job[h].bucket) => g = h
        BY <3>1, <3>2 DEF Alone
      <4>2. job'[h].bucket \in minio'
        BY <1>3, <2>2, <3>1, <3>2, <4>1 DEF Alone
      <4>3. QED
        BY <1>1, <1>6, <3>1, <3>2, <4>1, <4>2 DEF Alone, Is, At
    <3>3. QED
      BY <3>1, <3>2 DEF Alone, Is, At
  <2>3. QED
    BY <2>1, <2>2
<1>8. ASSUME NEW i \in Ids, NEW b \in due[i] PROVE Kept(i, b)'
  <2>1. key[i] # None /\ owner[b] = UserOf[i] /\ Kept(i, b) /\ UserOf[i] # None
    BY <1>2, UserOfAssumption, NoneAssumption
  <2>2. CASE b \in row[i] /\ \A h \in Jobs : ~Reaches(h, "revoke", i, b)
    <3>1. b \in row'[i]
      <4>1. CASE row'[i] = row[i]
        BY <2>2, <4>1
      <4>2. CASE /\ Writing(j) /\ UserOf[i] = job[j].user /\ job[j].list[i] # None
                 /\ row'[i] = Changed(j, row[i])
        <5>1. ~Is(j, "rename")
          BY <4>2 DEF GrantInv, JobInv, Writing, At
        <5>2. Is(j, "grant") \/ Is(j, "revoke")
          BY <1>1, <5>1 DEF TypeOK, JobRecord, MessageKind, Is
        <5>3. Is(j, "revoke") => job[j].bucket # b
          BY <2>2, <4>2 DEF Reaches, Pending
        <5>4. QED
          BY <2>2, <4>2, <5>2, <5>3 DEF Changed
      <4>3. QED
        BY <1>1, <2>1, <4>1, <4>2, RowAfter
    <3>2. ASSUME NEW h \in Jobs, Reaches(h, "revoke", i, b)' PROVE FALSE
      <4>1. CASE h # j
        BY <1>1, <2>2, <3>2, <4>1, ReachesKept
      <4>2. CASE h = j
        <5>1. Pending(j, i)' /\ job'[j].place # "idle"
          BY <3>2, <4>2 DEF Reaches, Pending, At, Writing
        <5>2. Reaches(j, "revoke", i, b)
          BY <1>1, <3>2, <4>2, <5>1, PendingCame, SameMessage DEF Reaches, Is
        <5>3. QED
          BY <2>2, <5>2
      <4>3. QED
        BY <4>1, <4>2
    <3>3. QED
      BY <3>1, <3>2 DEF Kept
  <2>3. ASSUME NEW h \in Jobs, Reaches(h, "grant", i, b) PROVE Kept(i, b)'
    <3>1. CASE h # j
      BY <1>1, <2>3, <3>1, ReachesKept DEF Kept
    <3>2. CASE h = j /\ Pending(j, i)'
      <4>1. job'[j].place # "idle"
        BY <3>2 DEF Pending, At, Writing
      <4>2. Reaches(j, "grant", i, b)'
        BY <1>1, <2>3, <3>2, <4>1, SameMessage DEF Reaches, Is
      <4>3. QED
        BY <4>2 DEF Kept
    <3>3. CASE h = j /\ ~Pending(j, i)'
      <4>1. /\ Is(j, "grant") /\ job[j].user = UserOf[i] /\ job[j].bucket = b /\ Pending(j, i)
            /\ ~At(j, "list") /\ ~Is(j, "revoke") /\ ~Is(j, "rename")
        BY <1>2, <2>3, <3>3 DEF Reaches, Is
      <4>2. SavePolicy(j) /\ job[j].id = i
        BY <1>1, <2>1, <3>3, <4>1, PendingKept
      <4>3. b \in row'[i]
        BY <1>1, <2>1, <4>1, <4>2, RowAfter DEF Changed
      <4>4. ASSUME NEW g \in Jobs, Reaches(g, "revoke", i, b)' PROVE FALSE
        <5>1. g # j /\ Reaches(g, "revoke", i, b)
          <6>1. g # j
            BY <3>3, <4>4 DEF Reaches
          <6>2. QED
            BY <1>1, <4>4, <6>1, ReachesKept
        <5>2. Working(j) /\ ~Working(g)
          <6>1. Working(j)
            BY <4>2 DEF SavePolicy, Working, WorkPlace, At
          <6>2. QED
            BY <4>1, <5>1, <6>1 DEF ApartInv, Reaches
        <5>3. At(g, "queued") /\ Is(g, "revoke") /\ job[g].bucket = b
          BY <5>1, <5>2 DEF Reaches, Pending, Working, WorkPlace, At, Writing
        <5>4. QED
          BY <1>2, <2>1, <5>3 DEF Alone
      <4>5. QED
        BY <4>3, <4>4 DEF Kept
    <3>4. QED
      BY <3>1, <3>2, <3>3
  <2>4. QED
    BY <2>1, <2>2, <2>3 DEF Kept
<1>9. QED
  BY <1>1, <1>2, <1>4, <1>7, <1>8 DEF DueInv, Alone, Kept

LEMMA DueByBucket ==
  ASSUME GrantInv, DueInv, Undeterred, Undeterred',
         NEW j \in Jobs, NEW u \in Users, NEW b \in Buckets,
         CreateBucket(j, u, b) \/ DeleteBucketByID(j, u, b)
  PROVE  DueInv'
<1>1. /\ TypeOK /\ At(j, "idle") /\ UNCHANGED <<key, row>>
      /\ \A c \in Buckets \ {b} : owner'[c] = owner[c]
  BY DEF CreateBucket, DeleteBucketByID, GrantInv, TypeOK
<1>2. ~Fault("publish") /\ u # None
  BY NoneAssumption DEF Undeterred, Without, Fault
<1>3. /\ \A h \in Jobs \ {j} : job'[h] = job[h]
      /\ job'[j].place = "queued" /\ job'[j].user = u /\ job'[j].bucket = b
      /\ \A i \in Ids, c \in Buckets, k \in {"grant", "revoke"} : ~Reaches(j, k, i, c)
      /\ \/ /\ job'[j].kind = "grant" /\ owner[b] = None /\ b \notin minio /\ owner'[b] = u
            /\ minio' = minio \cup {b}
            /\ \A i \in Ids : due'[i] = IF UserOf[i] = u /\ key[i] # None
                                        THEN due[i] \cup {b} ELSE due[i]
         \/ /\ job'[j].kind = "revoke" /\ owner[b] = u /\ owner'[b] = None /\ minio' = minio
            /\ \A i \in Ids : due'[i] = due[i] \ {b}
  <2>1. CASE CreateBucket(j, u, b)
    <3>1. /\ owner[b] = None /\ b \notin minio /\ owner'[b] = u /\ minio' = minio \cup {b}
          /\ Publish(j, "grant", u, b)
          /\ \A i \in Ids : due'[i] = IF UserOf[i] = u /\ key[i] # None
                                      THEN due[i] \cup {b} ELSE due[i]
      BY <1>1, <2>1 DEF CreateBucket, TypeOK
    <3>2. QED
      BY <1>1, <1>2, <3>1, BucketRequest
  <2>2. CASE DeleteBucketByID(j, u, b)
    <3>1. /\ owner[b] = u /\ owner'[b] = None /\ minio' = minio
          /\ Publish(j, "revoke", u, b)
          /\ \A i \in Ids : due'[i] = due[i] \ {b}
      BY <1>1, <2>2 DEF DeleteBucketByID, TypeOK
    <3>2. QED
      BY <1>1, <1>2, <3>1, BucketRequest
  <2>3. QED
    BY <2>1, <2>2
<1>4. /\ \A c \in Buckets : owner[c] # None => c \in minio
      /\ \A h \in Jobs : (At(h, "list") => Is(h, "revoke")) /\ Alone(h)
      /\ \A i \in Ids : key[i] = None => due[i] = {}
      /\ \A i \in Ids : \A c \in due[i] : owner[c] = UserOf[i] /\ Kept(i, c)
  BY DueParts
<1>5. \A c \in Buckets : owner'[c] # None => c \in minio'
  BY <1>1, <1>2, <1>3, <1>4
<1>6. ASSUME NEW h \in Jobs PROVE (At(h, "list") => Is(h, "revoke"))' /\ Alone(h)'
  <2>1. CASE h = j
    <3>1. At(h, "queued")' /\ ~At(h, "list")'
      BY <1>3, <2>1 DEF At
    <3>2. ASSUME Is(j, "revoke")'
          PROVE  /\ owner'[job'[j].bucket] = None /\ job'[j].bucket \in minio'
                 /\ \A g \in Jobs :
                      (Is(g, "revoke")' /\ At(g, "queued")' /\ job'[g].bucket = job'[j].bucket) =>
                        g = j
      <4>1. owner[b] = u /\ owner'[b] = None /\ minio' = minio /\ b \in minio
        BY <1>2, <1>3, <1>4, <3>2 DEF Is
      <4>2. ASSUME NEW g \in Jobs, g # j, Is(g, "revoke")', At(g, "queued")', job'[g].bucket = b
            PROVE  FALSE
        BY <1>2, <1>3, <1>4, <4>1, <4>2 DEF Alone, Is, At
      <4>3. QED
        BY <1>3, <4>1, <4>2
    <3>3. QED
      BY <2>1, <3>1, <3>2 DEF Alone
  <2>2. CASE h # j
    <3>1. job'[h] = job[h] /\ Alone(h) /\ (At(h, "list") => Is(h, "revoke"))
      BY <1>3, <1>4, <2>2
    <3>2. ASSUME Is(h, "revoke"), At(h, "queued")
          PROVE  /\ owner'[job[h].bucket] = None /\ job[h].bucket \in minio'
                 /\ \A g \in Jobs :
                      (Is(g, "revoke")' /\ At(g, "queued")' /\ job'[g].bucket = job[h].bucket) =>
                        g = h
      <4>1. /\ owner[job[h].bucket] = None /\ job[h].bucket \in minio
            /\ \A g \in Jobs :
                 (Is(g, "revoke") /\ At(g, "queued") /\ job[g].bucket = job[h].bucket) => g = h
        BY <3>1, <3>2 DEF Alone
      <4>2. job[h].bucket \in Buckets
        BY <1>1, <4>1 DEF TypeOK
      <4>3. job[h].bucket # b \/ job'[j].kind # "revoke"
        BY <1>2, <1>3, <4>1
      <4>4. job[h].bucket = b => job'[j].kind # "grant"
        BY <1>3, <4>1
      <4>5. job[h].bucket # b
        BY <1>3, <4>3, <4>4
      <4>6. QED
        BY <1>1, <1>3, <4>1, <4>2, <4>5 DEF Is, At
    <3>3. QED
      BY <3>1, <3>2 DEF Alone, Is, At
  <2>3. QED
    BY <2>1, <2>2
<1>7. \A i \in Ids : key'[i] = None => due'[i] = {}
  BY <1>1, <1>3, <1>4
<1>8. ASSUME NEW i \in Ids, NEW c \in due'[i] PROVE owner'[c] = UserOf[i] /\ Kept(i, c)'
  <2>1. CASE c \in due[i]
    <3>1. /\ owner[c] = UserOf[i] /\ Kept(i, c) /\ c # b /\ c \in Buckets
      BY <1>1, <1>3, <1>4, <2>1, UserOfAssumption, NoneAssumption DEF TypeOK
    <3>2. \A h \in Jobs : Reaches(h, "grant", i, c) => Reaches(h, "grant", i, c)'
      BY <1>3, <3>1, ReachesKept
    <3>3. \A h \in Jobs : Reaches(h, "revoke", i, c)' => Reaches(h, "revoke", i, c)
      BY <1>3, <3>1, ReachesKept DEF Reaches
    <3>4. QED
      BY <1>1, <3>1, <3>2, <3>3 DEF Kept
  <2>2. CASE c \notin due[i]
    <3>1. c = b /\ UserOf[i] = u /\ job'[j].kind = "grant" /\ owner'[b] = u
      BY <1>3, <2>2
    <3>2. Reaches(j, "grant", i, c)'
      BY <1>3, <3>1 DEF Reaches, Is, Pending
    <3>3. QED
      BY <3>1, <3>2 DEF Kept
  <2>3. QED
    BY <2>1, <2>2
<1>9. QED
  BY <1>5, <1>6, <1>7, <1>8 DEF DueInv, Alone, Kept

LEMMA DueByIam ==
  ASSUME GrantInv, DueInv, Undeterred, NEW i \in Ids,
         DeleteIAMByID(i) \/ \E k \in Keys : CreateIAM(i, k)
  PROVE  DueInv'
<1>1. /\ TypeOK /\ UNCHANGED <<job, owner, minio>>
      /\ due'[i] = {} /\ \A h \in Ids \ {i} : due'[h] = due[h]
      /\ \A h \in Ids \ {i} : key'[h] = key[h] /\ row'[h] = row[h]
  <2>1. DeleteIAMByID(i) \/ (key[i] = None /\ UNCHANGED due)
    BY DEF CreateIAM, buckets
  <2>2. key[i] = None => due[i] = {}
    BY DueParts
  <2>3. QED
    BY <2>1, <2>2 DEF GrantInv, TypeOK, DeleteIAMByID, CreateIAM, buckets
<1>2. ASSUME NEW h \in Ids, NEW b \in due'[h] PROVE owner'[b] = UserOf[h] /\ Kept(h, b)'
  <2>1. h # i /\ owner[b] = UserOf[h] /\ Kept(h, b)
    BY <1>1, DueParts
  <2>2. \A g \in Jobs, k \in {"grant", "revoke"} : Reaches(g, k, h, b)' <=> Reaches(g, k, h, b)
    BY <1>1, ReachesKept
  <2>3. QED
    BY <1>1, <2>1, <2>2 DEF Kept
<1>3. \A h \in Jobs : (At(h, "list") => Is(h, "revoke"))' /\ Alone(h)'
  BY <1>1, DueParts DEF Alone, At, Is
<1>4. /\ \A b \in Buckets : owner'[b] # None => b \in minio'
      /\ \A h \in Ids : key'[h] = None => due'[h] = {}
  BY <1>1, DueParts
<1>5. QED
  BY <1>2, <1>3, <1>4 DEF DueInv, Alone, Kept

LEMMA DueByCredentials ==
  ASSUME GrantInv, DueInv, Undeterred,
         NEW j \in Jobs, NEW i \in Ids, NEW k \in Keys, UpdateIAMCredentials(j, i, k)
  PROVE  DueInv'
<1>1. /\ TypeOK /\ At(j, "idle") /\ UNCHANGED <<owner, minio, due, row>>
      /\ \A h \in Ids : key'[h] = None => key[h] = None
  BY NoneAssumption DEF GrantInv, UpdateIAMCredentials, buckets, TypeOK
<1>2. /\ \A h \in Jobs \ {j} : job'[h] = job[h]
      /\ job'[j] = job[j] \/ (job'[j].kind = "rename" /\ job'[j].place = "queued")
  <2>1. key[i] # None
    BY DEF UpdateIAMCredentials
  <2>2. QED
    BY <1>1, <2>1, CredentialsKeep, RenameType DEF OneJob
<1>3. \A h \in Jobs, l \in Ids, b \in Buckets, kind \in {"grant", "revoke"} :
        Reaches(h, kind, l, b)' <=> Reaches(h, kind, l, b)
  <2>1. \A l \in Ids, b \in Buckets, kind \in {"grant", "revoke"} : ~Reaches(j, kind, l, b)
    BY <1>1 DEF Reaches, Pending, At, Writing
  <2>2. job'[j] # job[j] => \A l \in Ids, b \in Buckets, kind \in {"grant", "revoke"} :
                           ~Reaches(j, kind, l, b)'
    BY <1>2 DEF Reaches, Is
  <2>3. QED
    BY <1>2, <2>1, <2>2, ReachesKept
<1>4. \A h \in Jobs : job'[h] = job[h] \/ (~At(h, "list")' /\ ~Is(h, "revoke")')
  BY <1>2 DEF At, Is
<1>5. \A h \in Jobs : (At(h, "list") => Is(h, "revoke"))' /\ Alone(h)'
  BY <1>1, <1>4, DueParts DEF Alone, At, Is
<1>6. ASSUME NEW h \in Ids, NEW b \in due'[h] PROVE owner'[b] = UserOf[h] /\ Kept(h, b)'
  <2>1. owner[b] = UserOf[h] /\ Kept(h, b) /\ b \in Buckets
    BY <1>1, DueParts DEF TypeOK
  <2>2. \A g \in Jobs, kind \in {"grant", "revoke"} :
          Reaches(g, kind, h, b)' <=> Reaches(g, kind, h, b)
    BY <1>3, <2>1
  <2>3. QED
    BY <1>1, <2>1, <2>2 DEF Kept
<1>7. QED
  BY <1>1, <1>5, <1>6, DueParts DEF DueInv, Alone, Kept

LEMMA DueInvKept == IndInv /\ AgreeInv /\ DueInv /\ [Next]_vars => DueInv'
<1> SUFFICES ASSUME IndInv, AgreeInv, DueInv, [Next]_vars, Undeterred' PROVE DueInv'
  BY DEF DueInv, Undeterred
<1>1. CASE UNCHANGED vars
  BY <1>1 DEF vars, DueInv, Without, Reaches, Pending, At, Is, Writing
<1>2. CASE Next
  <2>1. Undeterred /\ GrantInv /\ ApartInv
    BY <1>2, UndeterredBefore DEF IndInv, Undeterred, Without
  <2>2. QED
    BY <1>2, <2>1, DueByBucket, DueByIam, DueByCredentials, DueByConsumer DEF Next, Request
<1>3. QED
  BY <1>1, <1>2

(* When no message is on its way for a user, every bucket the user created *)
(* and still has is open to the IAM users there were, in Postgres and in   *)
(* MinIO, unless messages overlapped or a failure was given up.            *)
THEOREM OwnersAreGranted == Spec => []OwnerIsGranted
<1>1. Init => IndInv /\ AgreeInv /\ DueInv
  BY InitiallyEmpty DEF AgreeInv, DueInv, Current, Writing, At, Is
<1>2. IndInv /\ AgreeInv /\ DueInv => OwnerIsGranted
  <2> SUFFICES ASSUME IndInv, AgreeInv, DueInv, Undeterred, NEW i \in Ids, key[i] # None,
                      Settled(UserOf[i]), NEW b \in due[i]
               PROVE  b \in row[i] /\ b \in Granted(i)
    BY DEF OwnerIsGranted, Undeterred
  <2>1. \A h \in Jobs, kind \in {"grant", "revoke"} : ~Reaches(h, kind, i, b)
    BY DEF Settled, Reaches
  <2>2. b \in row[i]
    BY <2>1, DueParts DEF Kept
  <2>3. Agrees(i)
    <3>1. Recoverable
      BY DEF Undeterred, Recoverable, Without
    <3>2. QED
      BY <3>1 DEF AgreeInv, Mends, Settled
  <2>4. row[i] # None
    BY NoneAssumption DEF IndInv, GrantInv, TypeOK
  <2>5. QED
    BY <2>2, <2>3, <2>4 DEF Agrees, Granted
<1>3. QED
  BY <1>1, <1>2, IndInvKept, AgreeInvKept, DueInvKept, PTL DEF Spec

=============================================================================
