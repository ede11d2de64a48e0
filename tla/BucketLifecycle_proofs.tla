---------------------- MODULE BucketLifecycle_proofs ----------------------
(***************************************************************************)
(* Theorems about BucketLifecycle, for every set of names and all bounds.  *)
(***************************************************************************)
EXTENDS BucketLifecycle, TLAPS

USE DEF NoFault

----------------------------------------------------------------------------
(* The places by name, so that the provers need not expand the sets. *)
LEMMA PlaceMembers ==
  /\ "make" \in Place /\ "insert" \in Place /\ "rollback" \in Place
  /\ "publish" \in Place /\ "queued" \in Place /\ "remove_objects" \in Place
  /\ "remove_bucket" \in Place /\ "policies" \in Place
  /\ "delete_row" \in RowPlace /\ "store" \in RowPlace
  /\ "exists" \in RowPlace /\ "set_access" \in RowPlace
BY DEF Place, HttpPlace, ConsumerPlace, RowPlace

LEMMA CountsAreNat ==
  ASSUME TypeOK, NEW n \in Names
  PROVE  /\ row[n] \in Nat /\ last[n] \in Nat
         /\ at[n]["make"] \in Nat /\ at[n]["insert"] \in Nat
         /\ at[n]["rollback"] \in Nat /\ at[n]["publish"] \in Nat
         /\ at[n]["queued"] \in Nat /\ at[n]["remove_objects"] \in Nat
         /\ at[n]["remove_bucket"] \in Nat /\ at[n]["policies"] \in Nat
         /\ \A r \in Rows : of[n][r]["delete_row"] \in Nat
         /\ MaxRows \in Nat
BY PlaceMembers, BoundsAssumption DEF TypeOK

(* What a token's step does to the counts. *)

LEMMA MoveCounts ==
  ASSUME TypeOK, NEW n \in Names, NEW p \in Place, NEW q \in Place, p # q,
         Move(n, p, q)
  PROVE  /\ at' \in [Names -> [Place -> Nat]]
         /\ at[n][p] > 0
         /\ at'[n][p] = at[n][p] - 1 /\ at'[n][q] = at[n][q] + 1
         /\ \A r \in Place : r # p /\ r # q => at'[n][r] = at[n][r]
         /\ \A m \in Names : m # n => at'[m] = at[m]
BY DEF Move, TypeOK

LEMMA EnterCounts ==
  ASSUME TypeOK, NEW n \in Names, NEW q \in Place, Enter(n, q)
  PROVE  /\ at' \in [Names -> [Place -> Nat]]
         /\ at'[n][q] = at[n][q] + 1
         /\ \A r \in Place : r # q => at'[n][r] = at[n][r]
         /\ \A m \in Names : m # n => at'[m] = at[m]
BY DEF Enter, TypeOK

LEMMA LeaveCounts ==
  ASSUME TypeOK, NEW n \in Names, NEW p \in Place, Leave(n, p)
  PROVE  /\ at' \in [Names -> [Place -> Nat]]
         /\ at[n][p] > 0
         /\ at'[n][p] = at[n][p] - 1
         /\ \A r \in Place : r # p => at'[n][r] = at[n][r]
         /\ \A m \in Names : m # n => at'[m] = at[m]
BY DEF Leave, TypeOK

(* A repeated attempt starts over, here or from the queue: what is counted *)
(* at these three places together stays.                                   *)
LEMMA RetryCounts ==
  ASSUME TypeOK, NEW n \in Names, NEW p \in {"remove_objects", "remove_bucket"},
         Retry(n, p)
  PROVE  /\ at' \in [Names -> [Place -> Nat]]
         /\ at[n][p] > 0
         /\ at'[n]["queued"] + at'[n]["remove_objects"] + at'[n]["remove_bucket"]
            = at[n]["queued"] + at[n]["remove_objects"] + at[n]["remove_bucket"]
         /\ \A r \in Place : r \notin {"queued", "remove_objects", "remove_bucket"}
               => at'[n][r] = at[n][r]
         /\ \A m \in Names : m # n => at'[m] = at[m]
<1>1. CASE p = "remove_objects" /\ Move(n, p, "remove_objects")
  <2>1. at' = at /\ at[n][p] > 0
    BY <1>1 DEF Move, TypeOK
  <2>2. QED
    BY <2>1 DEF TypeOK
<1>2. CASE p = "remove_bucket" /\ Move(n, p, "remove_objects")
  <2>1. /\ at' \in [Names -> [Place -> Nat]]
        /\ at[n][p] > 0
        /\ at'[n]["remove_bucket"] = at[n]["remove_bucket"] - 1
        /\ at'[n]["remove_objects"] = at[n]["remove_objects"] + 1
        /\ at'[n]["queued"] = at[n]["queued"]
        /\ \A r \in Place : r # p /\ r # "remove_objects" => at'[n][r] = at[n][r]
        /\ \A m \in Names : m # n => at'[m] = at[m]
    BY <1>2, MoveCounts, PlaceMembers
  <2>2. QED
    BY <1>2, <2>1, PlaceMembers, CountsAreNat
<1>3. CASE Move(n, p, "queued")
  <2>1. /\ at' \in [Names -> [Place -> Nat]]
        /\ at[n][p] > 0
        /\ at'[n][p] = at[n][p] - 1
        /\ at'[n]["queued"] = at[n]["queued"] + 1
        /\ \A r \in Place : r # p /\ r # "queued" => at'[n][r] = at[n][r]
        /\ \A m \in Names : m # n => at'[m] = at[m]
    BY <1>3, MoveCounts, PlaceMembers
  <2>2. CASE p = "remove_objects"
    BY <2>1, <2>2, PlaceMembers, CountsAreNat
  <2>3. CASE p = "remove_bucket"
    BY <2>1, <2>3, PlaceMembers, CountsAreNat
  <2>4. QED
    BY <2>2, <2>3
<1>4. QED
  BY <1>1, <1>2, <1>3 DEF Retry

LEMMA EnterOfCounts ==
  ASSUME TypeOK, NEW n \in Names, NEW r \in Rows, NEW p \in RowPlace,
         EnterOf(n, r, p)
  PROVE  /\ of' \in [Names -> [Rows -> [RowPlace -> Nat]]]
         /\ of'[n][r][p] = of[n][r][p] + 1
         /\ \A q \in RowPlace : q # p => of'[n][r][q] = of[n][r][q]
         /\ \A t \in Rows : t # r => of'[n][t] = of[n][t]
         /\ \A m \in Names : m # n => of'[m] = of[m]
BY DEF EnterOf, TypeOK

LEMMA LeaveOfCounts ==
  ASSUME TypeOK, NEW n \in Names, NEW r \in Rows, NEW p \in RowPlace,
         LeaveOf(n, r, p)
  PROVE  /\ of' \in [Names -> [Rows -> [RowPlace -> Nat]]]
         /\ of[n][r][p] > 0
         /\ of'[n][r][p] = of[n][r][p] - 1
         /\ \A q \in RowPlace : q # p => of'[n][r][q] = of[n][r][q]
         /\ \A t \in Rows : t # r => of'[n][t] = of[n][t]
         /\ \A m \in Names : m # n => of'[m] = of[m]
BY DEF LeaveOf, TypeOK

LEMMA MoveOfCounts ==
  ASSUME TypeOK, NEW n \in Names, NEW r \in Rows,
         NEW p \in RowPlace, NEW q \in RowPlace, p # q, MoveOf(n, r, p, q)
  PROVE  /\ of' \in [Names -> [Rows -> [RowPlace -> Nat]]]
         /\ \A s \in RowPlace : s # p /\ s # q => of'[n][r][s] = of[n][r][s]
         /\ \A t \in Rows : t # r => of'[n][t] = of[n][t]
         /\ \A m \in Names : m # n => of'[m] = of[m]
BY DEF MoveOf, TypeOK

LEMMA FaultTypes ==
  ASSUME TypeOK, NoFault \/ \E k \in FaultKind : Fault(k)
  PROVE  faults' \in [FaultKind -> Nat]
BY DEF TypeOK, Fault

----------------------------------------------------------------------------
(* Type correctness. *)

LEMMA InitTypeOK == Init => TypeOK
BY BoundsAssumption DEF Init, TypeOK

LEMMA RequestTypeOK ==
  ASSUME TypeOK, NEW n \in Names, Request(n)
  PROVE  TypeOK'
<1>1. CASE CreateBucket(n)
  BY <1>1, EnterCounts, PlaceMembers DEF CreateBucket, storage, TypeOK
<1>2. ASSUME NEW r \in Rows,
             DeleteBucketByID(n, r) \/ UploadObject(n, r) \/ UpdateBucketAccess(n, r)
      PROVE  TypeOK'
  BY <1>2, EnterOfCounts, PlaceMembers
  DEF DeleteBucketByID, UploadObject, UpdateBucketAccess, storage, TypeOK
<1>3. QED
  BY <1>1, <1>2 DEF Request

(* A row is inserted only while the requests for one are within the bound. *)
LEMMA HttpTypeOK ==
  ASSUME TypeOK, NEW n \in Names, RowInv(n), HttpStep(n)
  PROVE  TypeOK'
<1> USE PlaceMembers, FaultTypes DEF FaultKind
<1>1. CASE MakeBucket(n)
  <2>1. at' \in [Names -> [Place -> Nat]]
    BY <1>1, MoveCounts, LeaveCounts DEF MakeBucket
  <2>2. faults' \in [FaultKind -> Nat] /\ minio' \subseteq Names
    BY <1>1 DEF MakeBucket, TypeOK
  <2>3. QED
    BY <1>1, <2>1, <2>2 DEF MakeBucket, TypeOK
<1>2. CASE InsertRow(n)
  <2>1. at' \in [Names -> [Place -> Nat]] /\ at[n]["insert"] > 0
    BY <1>2, MoveCounts, LeaveCounts DEF InsertRow
  <2>2. faults' \in [FaultKind -> Nat]
    BY <1>2 DEF InsertRow
  <2>3. last[n] + 1 \in 0 .. MaxRows
    BY <2>1, CountsAreNat DEF RowInv
  <2>4. row' \in [Names -> 0 .. MaxRows] /\ last' \in [Names -> 0 .. MaxRows]
    BY <1>2, <2>3 DEF InsertRow, TypeOK
  <2>5. QED
    BY <1>2, <2>1, <2>2, <2>4 DEF InsertRow, TypeOK, storage
<1>3. CASE Rollback(n)
  <2>1. at' \in [Names -> [Place -> Nat]]
    BY <1>3, LeaveCounts DEF Rollback
  <2>2. faults' \in [FaultKind -> Nat]
    BY <1>3 DEF Rollback
  <2>3. minio' \subseteq Names /\ public' \in [Names -> 0 .. MaxRows]
    <3>1. 0 \in 0 .. MaxRows
      BY BoundsAssumption
    <3>2. /\ minio' = minio \/ minio' = minio \ {n}
          /\ public' = public \/ public' = [public EXCEPT ![n] = 0]
      BY <1>3 DEF Rollback
    <3>3. QED
      BY <3>1, <3>2 DEF TypeOK
  <2>4. QED
    BY <1>3, <2>1, <2>2, <2>3 DEF Rollback, TypeOK
<1>4. CASE PublishDeleteBucket(n)
  <2>1. at' \in [Names -> [Place -> Nat]]
    BY <1>4, MoveCounts, LeaveCounts DEF PublishDeleteBucket
  <2>2. faults' \in [FaultKind -> Nat]
    BY <1>4 DEF PublishDeleteBucket
  <2>3. QED
    BY <1>4, <2>1, <2>2 DEF PublishDeleteBucket, TypeOK, storage
<1>5. ASSUME NEW r \in Rows, DeleteRow(n, r)
      PROVE  TypeOK'
  <2>1. of' \in [Names -> [Rows -> [RowPlace -> Nat]]]
    BY <1>5, LeaveOfCounts DEF DeleteRow
  <2>2. at' \in [Names -> [Place -> Nat]]
    BY <1>5, EnterCounts DEF DeleteRow, TypeOK
  <2>3. faults' \in [FaultKind -> Nat]
    BY <1>5 DEF DeleteRow
  <2>4. row' \in [Names -> 0 .. MaxRows]
    BY <1>5, CountsAreNat DEF DeleteRow, TypeOK
  <2>5. QED
    BY <1>5, <2>1, <2>2, <2>3, <2>4 DEF DeleteRow, TypeOK, storage
<1>6. ASSUME NEW r \in Rows, StoreFile(n, r)
      PROVE  TypeOK'
  <2>1. of' \in [Names -> [Rows -> [RowPlace -> Nat]]]
    BY <1>6, LeaveOfCounts DEF StoreFile
  <2>2. faults' \in [FaultKind -> Nat]
    BY <1>6 DEF StoreFile
  <2>3. content' \in [Names -> SUBSET Rows]
    <3>1. content' = content \/ content' = [content EXCEPT ![n] = @ \cup {r}]
      BY <1>6 DEF StoreFile
    <3>2. content[n] \cup {r} \in SUBSET Rows
      BY DEF TypeOK
    <3>3. QED
      BY <3>1, <3>2 DEF TypeOK
  <2>4. QED
    BY <1>6, <2>1, <2>2, <2>3 DEF StoreFile, TypeOK
<1>7. ASSUME NEW r \in Rows, BucketExists(n, r)
      PROVE  TypeOK'
  <2>1. of' \in [Names -> [Rows -> [RowPlace -> Nat]]]
    BY <1>7, LeaveOfCounts, MoveOfCounts DEF BucketExists
  <2>2. faults' \in [FaultKind -> Nat]
    BY <1>7 DEF BucketExists
  <2>3. QED
    BY <1>7, <2>1, <2>2 DEF BucketExists, TypeOK, storage
<1>8. ASSUME NEW r \in Rows, SetBucketPolicy(n, r)
      PROVE  TypeOK'
  <2>1. of' \in [Names -> [Rows -> [RowPlace -> Nat]]]
    BY <1>8, LeaveOfCounts DEF SetBucketPolicy
  <2>2. faults' \in [FaultKind -> Nat]
    BY <1>8 DEF SetBucketPolicy
  <2>3. public' \in [Names -> 0 .. MaxRows]
    <3>1. \E access \in 0 .. MaxRows :
            public' = [public EXCEPT ![n] = access] \/ public' = public
      BY <1>8, BoundsAssumption DEF SetBucketPolicy, Rows
    <3>2. QED
      BY <3>1 DEF TypeOK
  <2>4. QED
    BY <1>8, <2>1, <2>2, <2>3 DEF SetBucketPolicy, TypeOK
<1>9. QED
  BY <1>1, <1>2, <1>3, <1>4, <1>5, <1>6, <1>7, <1>8 DEF HttpStep

LEMMA ConsumerTypeOK ==
  ASSUME TypeOK, NEW n \in Names, ConsumerStep(n)
  PROVE  TypeOK'
<1> USE PlaceMembers, FaultTypes DEF FaultKind
<1>1. CASE DeliverDelete(n) \/ AckDelete(n)
  BY <1>1, MoveCounts, LeaveCounts DEF DeliverDelete, AckDelete, TypeOK, storage
<1>2. CASE RemoveAllObjects(n)
  <2>1. at' \in [Names -> [Place -> Nat]]
    BY <1>2, MoveCounts, RetryCounts DEF RemoveAllObjects
  <2>2. faults' \in [FaultKind -> Nat]
    BY <1>2 DEF RemoveAllObjects
  <2>3. content' \in [Names -> SUBSET Rows]
    <3>1. \/ content' = content
          \/ \E kept \in SUBSET content[n] : content' = [content EXCEPT ![n] = kept]
      BY <1>2 DEF RemoveAllObjects
    <3>2. \A kept \in SUBSET content[n] : kept \subseteq Rows
      BY DEF TypeOK
    <3>3. QED
      BY <3>1, <3>2 DEF TypeOK
  <2>4. QED
    BY <1>2, <2>1, <2>2, <2>3 DEF RemoveAllObjects, TypeOK
<1>3. CASE RemoveBucket(n)
  <2>1. at' \in [Names -> [Place -> Nat]]
    BY <1>3, MoveCounts, RetryCounts DEF RemoveBucket
  <2>2. faults' \in [FaultKind -> Nat]
    BY <1>3 DEF RemoveBucket
  <2>3. minio' \subseteq Names /\ public' \in [Names -> 0 .. MaxRows]
    <3>1. 0 \in 0 .. MaxRows
      BY BoundsAssumption
    <3>2. /\ minio' = minio \/ minio' = minio \ {n}
          /\ public' = public \/ public' = [public EXCEPT ![n] = 0]
      BY <1>3 DEF RemoveBucket
    <3>3. QED
      BY <3>1, <3>2 DEF TypeOK
  <2>4. QED
    BY <1>3, <2>1, <2>2, <2>3 DEF RemoveBucket, TypeOK
<1>4. QED
  BY <1>1, <1>2, <1>3 DEF ConsumerStep

LEMMA CrashTypeOK ==
  ASSUME TypeOK, NEW n \in Names, HttpCrash(n) \/ ConsumerCrash(n)
  PROVE  TypeOK'
<1> USE PlaceMembers, FaultTypes DEF FaultKind
<1>1. CASE HttpCrash(n)
  <2>1. at' \in [Names -> [Place -> Nat]]
    BY <1>1, LeaveCounts DEF HttpCrash, TypeOK, Place
  <2>2. of' \in [Names -> [Rows -> [RowPlace -> Nat]]]
    BY <1>1, LeaveOfCounts DEF HttpCrash, TypeOK
  <2>3. faults' \in [FaultKind -> Nat]
    BY <1>1 DEF HttpCrash
  <2>4. QED
    BY <1>1, <2>1, <2>2, <2>3 DEF HttpCrash, TypeOK, storage
<1>2. CASE ConsumerCrash(n)
  <2>1. at' \in [Names -> [Place -> Nat]]
    BY <1>2, MoveCounts DEF ConsumerCrash
  <2>2. faults' \in [FaultKind -> Nat]
    BY <1>2 DEF ConsumerCrash
  <2>3. QED
    BY <1>2, <2>1, <2>2 DEF ConsumerCrash, TypeOK, storage
<1>3. QED
  BY <1>1, <1>2

----------------------------------------------------------------------------
(* The inductive invariant. *)

NameStep(n) ==
  Request(n) \/ HttpStep(n) \/ ConsumerStep(n) \/ HttpCrash(n) \/ ConsumerCrash(n)

NameInv(n) == RowInv(n) /\ FirstInv(n)

Same(m) ==
  /\ row'[m] = row[m] /\ last'[m] = last[m]
  /\ m \in minio' <=> m \in minio
  /\ content'[m] = content[m]
  /\ at'[m] = at[m] /\ of'[m] = of[m]

(* A step of a name changes nothing of another one. *)
LEMMA OthersUntouched ==
  ASSUME TypeOK, NEW n \in Names, NEW m \in Names, m # n, NameStep(n)
  PROVE  Same(m)
<1> USE DEF storage, Same
<1>1. CASE Request(n)
  BY <1>1, EnterCounts, EnterOfCounts, PlaceMembers
  DEF Request, CreateBucket, DeleteBucketByID, UploadObject, UpdateBucketAccess
<1>2. CASE HttpStep(n)
  <2>1. CASE MakeBucket(n)
    <3>1. at'[m] = at[m]
      BY <2>1, MoveCounts, LeaveCounts, PlaceMembers DEF MakeBucket
    <3>2. QED
      BY <2>1, <3>1 DEF MakeBucket
  <2>2. CASE InsertRow(n)
    <3>1. at'[m] = at[m]
      BY <2>2, MoveCounts, LeaveCounts, PlaceMembers DEF InsertRow
    <3>2. QED
      BY <2>2, <3>1 DEF InsertRow, TypeOK
  <2>3. CASE Rollback(n)
    BY <2>3, LeaveCounts, PlaceMembers DEF Rollback
  <2>4. CASE PublishDeleteBucket(n)
    BY <2>4, MoveCounts, LeaveCounts, PlaceMembers DEF PublishDeleteBucket
  <2>5. ASSUME NEW r \in Rows, DeleteRow(n, r) PROVE Same(m)
    <3>1. at'[m] = at[m]
      BY <2>5, EnterCounts, PlaceMembers DEF DeleteRow
    <3>2. QED
      BY <2>5, <3>1, LeaveOfCounts, PlaceMembers DEF DeleteRow, TypeOK
  <2>6. ASSUME NEW r \in Rows, StoreFile(n, r) PROVE Same(m)
    BY <2>6, LeaveOfCounts, PlaceMembers DEF StoreFile, TypeOK
  <2>7. ASSUME NEW r \in Rows, BucketExists(n, r) PROVE Same(m)
    BY <2>7, LeaveOfCounts, MoveOfCounts, PlaceMembers DEF BucketExists
  <2>8. ASSUME NEW r \in Rows, SetBucketPolicy(n, r) PROVE Same(m)
    BY <2>8, LeaveOfCounts, PlaceMembers DEF SetBucketPolicy
  <2>9. QED
    BY <1>2, <2>1, <2>2, <2>3, <2>4, <2>5, <2>6, <2>7, <2>8 DEF HttpStep
<1>3. CASE ConsumerStep(n)
  <2>1. CASE DeliverDelete(n) \/ AckDelete(n)
    BY <2>1, MoveCounts, LeaveCounts, PlaceMembers DEF DeliverDelete, AckDelete
  <2>2. CASE RemoveAllObjects(n)
    <3>1. at'[m] = at[m]
      BY <2>2, MoveCounts, RetryCounts, PlaceMembers DEF RemoveAllObjects
    <3>2. QED
      BY <2>2, <3>1 DEF RemoveAllObjects, TypeOK
  <2>3. CASE RemoveBucket(n)
    <3>1. at'[m] = at[m]
      BY <2>3, MoveCounts, RetryCounts, PlaceMembers DEF RemoveBucket
    <3>2. QED
      BY <2>3, <3>1 DEF RemoveBucket
  <2>4. QED
    BY <1>3, <2>1, <2>2, <2>3 DEF ConsumerStep
<1>4. CASE HttpCrash(n)
  <2>1. at'[m] = at[m]
    BY <1>4, LeaveCounts DEF HttpCrash, Place
  <2>2. of'[m] = of[m]
    BY <1>4, LeaveOfCounts DEF HttpCrash
  <2>3. QED
    BY <1>4, <2>1, <2>2 DEF HttpCrash
<1>5. CASE ConsumerCrash(n)
  BY <1>5, MoveCounts, PlaceMembers DEF ConsumerCrash
<1>6. QED
  BY <1>1, <1>2, <1>3, <1>4, <1>5 DEF NameStep

LEMMA Frame ==
  ASSUME NEW m \in Names, Same(m)
  PROVE  /\ NameInv(m) => NameInv(m)'
         /\ ClaimInv(m) => ClaimInv(m)'
BY DEF Same, NameInv, RowInv, FirstInv, ClaimInv, Claims

(* What the steps of a row's requests leave of the delete requests. *)
LEMMA OtherRequests ==
  ASSUME TypeOK, NEW n \in Names, NEW r \in Rows,
         NEW p \in {"store", "exists", "set_access"},
         EnterOf(n, r, p) \/ LeaveOf(n, r, p) \/ MoveOf(n, r, "exists", "set_access")
  PROVE  \A t \in Rows : of'[n][t]["delete_row"] = of[n][t]["delete_row"]
<1>1. of'[n][r]["delete_row"] = of[n][r]["delete_row"]
  BY EnterOfCounts, LeaveOfCounts, MoveOfCounts, PlaceMembers
<1>2. \A t \in Rows : t # r => of'[n][t] = of[n][t]
  BY EnterOfCounts, LeaveOfCounts, MoveOfCounts, PlaceMembers
<1>3. QED
  BY <1>1, <1>2

LEMMA DeleteRequests ==
  ASSUME TypeOK, NEW n \in Names, NEW r \in Rows, LeaveOf(n, r, "delete_row")
  PROVE  /\ of[n][r]["delete_row"] > 0
         /\ of'[n][r]["delete_row"] = of[n][r]["delete_row"] - 1
         /\ \A t \in Rows : t # r => of'[n][t]["delete_row"] = of[n][t]["delete_row"]
         /\ \A t \in Rows : of'[n][t]["delete_row"] \in Nat
BY LeaveOfCounts, PlaceMembers

LEMMA InsertEffect ==
  ASSUME TypeOK, NEW n \in Names, InsertRow(n)
  PROVE  \/ row[n] = 0 /\ row'[n] = last[n] + 1 /\ last'[n] = last[n] + 1
         \/ row'[n] = row[n] /\ last'[n] = last[n]
BY DEF InsertRow, TypeOK

(* A step of a name keeps what is said of it. *)
LEMMA NameInvStep ==
  ASSUME TypeOK, NEW n \in Names, NameInv(n), NameStep(n)
  PROVE  NameInv(n)'
<1> USE CountsAreNat, PlaceMembers DEF NameInv, RowInv, FirstInv
<1>1. CASE CreateBucket(n)
  BY <1>1, EnterCounts DEF CreateBucket
<1>2. ASSUME NEW r \in Rows, DeleteBucketByID(n, r)
      PROVE  NameInv(n)'
  <2>1. r = last[n] /\ UNCHANGED <<row, last, at>>
    BY <1>2 DEF DeleteBucketByID, FindByID, Rows
  <2>2. \A t \in Rows : t # r => of'[n][t] = of[n][t]
    BY <1>2, EnterOfCounts DEF DeleteBucketByID
  <2>3. QED
    BY <2>1, <2>2
<1>3. ASSUME NEW r \in Rows, UploadObject(n, r) \/ UpdateBucketAccess(n, r)
      PROVE  NameInv(n)'
  <2>1. \A t \in Rows : of'[n][t]["delete_row"] = of[n][t]["delete_row"]
    BY <1>3, OtherRequests DEF UploadObject, UpdateBucketAccess
  <2>2. UNCHANGED <<row, last, at>>
    BY <1>3 DEF UploadObject, UpdateBucketAccess
  <2>3. QED
    BY <2>1, <2>2
<1>4. CASE MakeBucket(n)
  BY <1>4, MoveCounts, LeaveCounts DEF MakeBucket
<1>5. CASE InsertRow(n)
  <2>1. at[n]["insert"] > 0 /\ at'[n]["insert"] = at[n]["insert"] - 1
        /\ \A p \in Place : p \notin {"insert", "rollback"} => at'[n][p] = at[n][p]
    BY <1>5, MoveCounts, LeaveCounts DEF InsertRow
  <2>2. \/ row[n] = 0 /\ row'[n] = last[n] + 1 /\ last'[n] = last[n] + 1
        \/ row'[n] = row[n] /\ last'[n] = last[n]
    BY <1>5, InsertEffect
  <2>3. of' = of
    BY <1>5 DEF InsertRow
  <2>4. RowInv(n)'
    <3>1. at'[n]["make"] = at[n]["make"] /\ at'[n]["insert"] = at[n]["insert"] - 1
      BY <2>1
    <3>2. last'[n] + at'[n]["make"] + at'[n]["insert"] <= MaxRows
      BY <2>2, <3>1
    <3>3. row'[n] \in {0, last'[n]} /\ last'[n] >= last[n]
      BY <2>2
    <3>4. QED
      BY <2>3, <3>2, <3>3, <2>2 DEF Rows
  <2>5. FirstInv(n)'
    <3>1. (last'[n] <= 1 /\ row'[n] = last'[n]) => last[n] <= 1 /\ row[n] = last[n]
      BY <2>2
    <3>2. QED
      BY <2>1, <3>1
  <2>6. QED
    BY <2>4, <2>5
<1>6. CASE Rollback(n)
  BY <1>6, LeaveCounts DEF Rollback
<1>7. CASE PublishDeleteBucket(n)
  BY <1>7, MoveCounts, LeaveCounts DEF PublishDeleteBucket
<1>8. ASSUME NEW r \in Rows, DeleteRow(n, r)
      PROVE  NameInv(n)'
  <2>1. /\ r <= last[n] /\ r # 0
        /\ \A t \in Rows : of'[n][t]["delete_row"] <= of[n][t]["delete_row"]
    <3>1. LeaveOf(n, r, "delete_row") /\ r # 0
      BY <1>8 DEF DeleteRow, Rows
    <3>2. \A t \in Rows : t = r \/ t # r
      OBVIOUS
    <3>3. QED
      BY <3>1, <3>2, DeleteRequests
  <2>2. /\ row'[n] = row[n] \/ row'[n] = 0
        /\ row[n] # r \/ row'[n] = 0 \/ at' = at
    BY <1>8 DEF DeleteRow, TypeOK
  <2>3. \A p \in Place : p # "publish" => at'[n][p] = at[n][p]
    BY <1>8, EnterCounts DEF DeleteRow
  <2>4. last' = last
    BY <1>8 DEF DeleteRow
  <2>5. RowInv(n)'
    <3>1. \A t \in Rows : of'[n][t]["delete_row"] \in Nat
      BY <1>8, DeleteRequests DEF DeleteRow
    <3>2. QED
      BY <2>1, <2>2, <2>3, <2>4, <3>1
  <2>6. FirstInv(n)'
    <3> SUFFICES ASSUME last[n] <= 1, row'[n] = last[n]
                 PROVE  at' = at /\ row[n] = last[n]
      BY <2>4
    <3>1. r = last[n] /\ row'[n] # 0
      BY <2>1 DEF Rows
    <3>2. row[n] = r /\ row'[n] = row[n]
      BY <2>2, <3>1
    <3>3. QED
      BY <2>2, <3>1, <3>2
  <2>7. QED
    BY <2>5, <2>6
<1>9. ASSUME NEW r \in Rows,
             StoreFile(n, r) \/ BucketExists(n, r) \/ SetBucketPolicy(n, r)
      PROVE  NameInv(n)'
  <2>1. \A t \in Rows : of'[n][t]["delete_row"] = of[n][t]["delete_row"]
    BY <1>9, OtherRequests DEF StoreFile, BucketExists, SetBucketPolicy
  <2>2. QED
    BY <1>9, <2>1 DEF StoreFile, BucketExists, SetBucketPolicy, storage
<1>10. CASE DeliverDelete(n) \/ AckDelete(n)
  BY <1>10, MoveCounts, LeaveCounts DEF DeliverDelete, AckDelete
<1>11. CASE RemoveAllObjects(n)
  BY <1>11, MoveCounts, RetryCounts DEF RemoveAllObjects
<1>12. CASE RemoveBucket(n)
  BY <1>12, MoveCounts, RetryCounts DEF RemoveBucket
<1>13. CASE HttpCrash(n)
  BY <1>13, LeaveCounts, LeaveOfCounts DEF HttpCrash, HttpPlace
<1>14. CASE ConsumerCrash(n)
  BY <1>14, MoveCounts DEF ConsumerCrash
<1>15. QED
  BY <1>1, <1>2, <1>3, <1>4, <1>5, <1>6, <1>7, <1>8, <1>9, <1>10, <1>11, <1>12,
     <1>13, <1>14 DEF NameStep, Request, HttpStep, ConsumerStep

LEMMA InitInd == Init => IndInv
<1> SUFFICES ASSUME Init, NEW n \in Names PROVE NameInv(n)
  BY InitTypeOK DEF IndInv, NameInv
<1>1. /\ row[n] = 0 /\ last[n] = 0 /\ \A p \in Place : at[n][p] = 0
      /\ \A r \in Rows : of[n][r]["delete_row"] = 0
  BY PlaceMembers DEF Init
<1>2. QED
  BY <1>1, PlaceMembers, BoundsAssumption DEF NameInv, RowInv, FirstInv

LEMMA IndStep == IndInv /\ [Next]_vars => IndInv'
<1> SUFFICES ASSUME IndInv, [Next]_vars PROVE IndInv'
  OBVIOUS
<1>1. TypeOK /\ \A m \in Names : NameInv(m)
  BY DEF IndInv, NameInv
<1>2. CASE UNCHANGED vars
  <2>1. TypeOK'
    BY <1>1, <1>2 DEF TypeOK, vars
  <2>2. ASSUME NEW m \in Names PROVE NameInv(m)'
    BY <1>1, <1>2, Frame DEF vars, Same
  <2>3. QED
    BY <2>1, <2>2 DEF IndInv, NameInv
<1>3. ASSUME NEW n \in Names, NameStep(n)
      PROVE  IndInv'
  <2>1. TypeOK'
    BY <1>1, <1>3, RequestTypeOK, HttpTypeOK, ConsumerTypeOK, CrashTypeOK
    DEF NameStep, NameInv
  <2>2. ASSUME NEW m \in Names PROVE NameInv(m)'
    BY <1>1, <1>3, NameInvStep, OthersUntouched, Frame
  <2>3. QED
    BY <2>1, <2>2 DEF IndInv, NameInv
<1>4. QED
  BY <1>2, <1>3 DEF Next, NameStep

(* Every variable keeps its type, rows are numbered one after the other,   *)
(* and nothing that destroys content precedes the first deletion.          *)
THEOREM IndInvariant == Spec => []IndInv
BY InitInd, IndStep, PTL DEF Spec

(* No count of requests or messages drops below zero, and the unique name  *)
(* never has more rows than requests made for it.                          *)
THEOREM TypeCorrect == Spec => []TypeOK
<1>1. IndInv => TypeOK
  BY DEF IndInv
<1>2. QED
  BY <1>1, IndInvariant, PTL

----------------------------------------------------------------------------
(* What is stored survives. *)

(* Only the consumer that removes the objects of a name destroys any. *)
LEMMA ContentKept ==
  ASSUME TypeOK, [Next]_vars, NEW n \in Names, at[n]["remove_objects"] = 0
  PROVE  content[n] \subseteq content'[n]
<1>1. CASE UNCHANGED vars
  BY <1>1 DEF vars
<1>2. ASSUME NEW m \in Names, NameStep(m)
      PROVE  content[n] \subseteq content'[n]
  <2>1. CASE m # n
    BY <1>2, <2>1, OthersUntouched DEF Same
  <2>2. CASE m = n
    <3>1. ~RemoveAllObjects(n)
      <4>1. RemoveAllObjects(n) => at[n]["remove_objects"] > 0
        BY RetryCounts DEF RemoveAllObjects, Move
      <4>2. QED
        BY <4>1
    <3>2. ASSUME NEW r \in Rows, StoreFile(n, r)
          PROVE  content[n] \subseteq content'[n]
      <4>1. content' = content \/ content' = [content EXCEPT ![n] = @ \cup {r}]
        BY <3>2 DEF StoreFile
      <4>2. QED
        BY <4>1 DEF TypeOK
    <3>3. \/ \E r \in Rows : StoreFile(n, r)
          \/ UNCHANGED content
      BY <1>2, <2>2, <3>1
      DEF NameStep, Request, HttpStep, ConsumerStep, HttpCrash, ConsumerCrash,
          CreateBucket, DeleteBucketByID, UploadObject, UpdateBucketAccess,
          MakeBucket, InsertRow, Rollback, PublishDeleteBucket, DeleteRow,
          BucketExists, SetBucketPolicy, DeliverDelete, RemoveBucket, AckDelete,
          storage
    <3>4. QED
      BY <3>2, <3>3
  <2>3. QED
    BY <2>1, <2>2
<1>3. QED
  BY <1>1, <1>2 DEF Next, NameStep

(* Whatever fails, and however requests interleave, nothing of the first   *)
(* owner of a name is destroyed while the row is there.                    *)
THEOREM FirstOwnerSafe == Spec => FirstOwnerIsSafe
<1>1. IndInv /\ [Next]_vars =>
        [\A n \in Names :
           (last[n] = 1 /\ row[n] = 1 /\ row'[n] = 1) =>
             content[n] \cap {1} \subseteq content'[n]]_vars
  <2> SUFFICES ASSUME IndInv, [Next]_vars, NEW n \in Names,
                      last[n] = 1, row[n] = 1
               PROVE  content[n] \subseteq content'[n]
    OBVIOUS
  <2>1. at[n]["remove_objects"] = 0
    BY DEF IndInv, FirstInv
  <2>2. QED
    BY <2>1, ContentKept DEF IndInv
<1>2. QED
  BY <1>1, IndInvariant, PTL DEF Spec, FirstOwnerIsSafe

----------------------------------------------------------------------------
(* One claim. *)

(* Failures are counted and never forgotten. *)
LEMMA FaultCounts ==
  ASSUME TypeOK, NEW k \in FaultKind, Fault(k)
  PROVE  faults'[k] > 0 /\ \A j \in FaultKind : j # k => faults'[j] = faults[j]
BY DEF TypeOK, Fault

LEMMA StepFails ==
  ASSUME NEW n \in Names, NameStep(n)
  PROVE  NoFault \/ \E k \in FaultKind : Fault(k)
<1>1. CASE Request(n)
  BY <1>1 DEF Request, CreateBucket, DeleteBucketByID, UploadObject, UpdateBucketAccess
<1>2. CASE HttpStep(n)
  BY <1>2 DEF HttpStep, MakeBucket, InsertRow, Rollback, PublishDeleteBucket,
     DeleteRow, StoreFile, BucketExists, SetBucketPolicy, FaultKind
<1>3. CASE ConsumerStep(n)
  BY <1>3 DEF ConsumerStep, DeliverDelete, RemoveAllObjects, RemoveBucket,
     AckDelete, FaultKind
<1>4. CASE HttpCrash(n) \/ ConsumerCrash(n)
  BY <1>4 DEF HttpCrash, ConsumerCrash, FaultKind
<1>5. QED
  BY <1>1, <1>2, <1>3, <1>4 DEF NameStep

LEMMA FaultsGrow ==
  ASSUME TypeOK, NEW n \in Names, NameStep(n), NEW k \in FaultKind
  PROVE  faults[k] \in Nat /\ (faults[k] > 0 => faults'[k] > 0)
<1>1. NoFault \/ \E j \in FaultKind : Fault(j)
  BY StepFails
<1>2. ASSUME NEW j \in FaultKind, Fault(j), faults[k] > 0
      PROVE  faults'[k] > 0
  BY <1>2, FaultCounts
<1>3. QED
  BY <1>1, <1>2 DEF TypeOK

(* What is quiet after a step was quiet before it, and stayed so. *)
LEMMA QuietFaults ==
  ASSUME TypeOK, NEW n \in Names, NameStep(n), Quiet'
  PROVE  Quiet /\ ~Fault("reply") /\ ~Fault("db_reply") /\ ~Fault("redelivery")
<1> DEFINE Loud == {"reply", "db_reply", "redelivery"}
<1>1. Loud \subseteq FaultKind
  BY DEF FaultKind
<1>2. MaxDeletes <= 1 /\ \A k \in Loud : faults'[k] = 0
  BY DEF Quiet
<1>3. \A k \in Loud : ~Fault(k)
  BY <1>1, <1>2, FaultCounts
<1>4. ASSUME NEW k \in Loud
      PROVE  faults[k] = 0
  <2>1. faults[k] \in Nat /\ (faults[k] > 0 => faults'[k] > 0)
    BY <1>1, FaultsGrow
  <2>2. faults'[k] = 0
    BY <1>2
  <2>3. QED
    BY <2>1, <2>2
<1>5. QED
  BY <1>2, <1>3, <1>4 DEF Quiet

LEMMA QuietBefore ==
  ASSUME TypeOK, [Next]_vars, Quiet'
  PROVE  Quiet
<1>1. UNCHANGED vars => Quiet
  BY DEF Quiet, vars
<1>2. QED
  BY <1>1, QuietFaults DEF Next, NameStep

(* The requests and messages that claim the bucket of a name. *)
Held(n) ==
  at[n]["insert"] + at[n]["rollback"] + at[n]["publish"] + at[n]["queued"]
  + at[n]["remove_objects"] + at[n]["remove_bucket"]

LEMMA HeldIsNat ==
  ASSUME TypeOK, NEW n \in Names
  PROVE  /\ Held(n) \in Nat
         /\ at[n]["rollback"] > 0 \/ at[n]["remove_bucket"] > 0 => Held(n) > 0
         /\ at[n]["remove_objects"] > 0 => Held(n) > 0
BY CountsAreNat DEF Held

LEMMA HeldByNobody ==
  ASSUME TypeOK, NEW n \in Names, Held(n) = 0
  PROVE  /\ at[n]["insert"] = 0 /\ at[n]["rollback"] = 0
         /\ at[n]["remove_objects"] = 0 /\ at[n]["remove_bucket"] = 0
<1> DEFINE a == at[n]["insert"]
           b == at[n]["rollback"]
           c == at[n]["publish"]
           d == at[n]["queued"]
           e == at[n]["remove_objects"]
           f == at[n]["remove_bucket"]
<1>1. a \in Nat /\ b \in Nat /\ c \in Nat /\ d \in Nat /\ e \in Nat /\ f \in Nat
  BY CountsAreNat
<1>2. a + b + c + d + e + f = 0
  BY DEF Held
<1>3. a = 0 /\ b = 0 /\ e = 0 /\ f = 0
  <2> HIDE DEF a, b, c, d, e, f
  <2>1. QED
    BY <1>1, <1>2
<1>4. QED
  BY <1>3

(* How the steps of requests and messages change it. *)
LEMMA HeldChanges ==
  ASSUME TypeOK, NEW n \in Names
  PROVE  /\ Enter(n, "make") \/ Leave(n, "make") \/ Leave(n, "policies") =>
              Held(n)' = Held(n)
         /\ Move(n, "make", "insert") \/ Enter(n, "publish") =>
              Held(n)' = Held(n) + 1
         /\ \/ Move(n, "insert", "rollback") \/ Move(n, "publish", "queued")
            \/ Move(n, "queued", "remove_objects")
            \/ Move(n, "remove_objects", "remove_bucket")
            \/ Move(n, "remove_objects", "queued") \/ Move(n, "remove_bucket", "queued")
            => Held(n)' = Held(n)
         /\ \/ Leave(n, "insert") \/ Leave(n, "rollback") \/ Leave(n, "publish")
            \/ Move(n, "remove_bucket", "policies")
            => Held(n)' = Held(n) - 1
<1> USE CountsAreNat, PlaceMembers DEF Held
<1>1. ASSUME NEW p \in {"make", "policies"}, Leave(n, p) PROVE Held(n)' = Held(n)
  BY <1>1, LeaveCounts
<1>2. ASSUME NEW p \in {"insert", "rollback", "publish"}, Leave(n, p)
      PROVE  Held(n)' = Held(n) - 1
  BY <1>2, LeaveCounts
<1>3. Enter(n, "make") => Held(n)' = Held(n)
  BY EnterCounts
<1>4. Enter(n, "publish") => Held(n)' = Held(n) + 1
  BY EnterCounts
<1>5. Move(n, "make", "insert") => Held(n)' = Held(n) + 1
  BY MoveCounts
<1>6. Move(n, "remove_bucket", "policies") => Held(n)' = Held(n) - 1
  BY MoveCounts
<1>7. Move(n, "insert", "rollback") => Held(n)' = Held(n)
  BY MoveCounts
<1>8. Move(n, "publish", "queued") => Held(n)' = Held(n)
  BY MoveCounts
<1>9. Move(n, "queued", "remove_objects") => Held(n)' = Held(n)
  BY MoveCounts
<1>10. ASSUME Move(n, "remove_objects", "remove_bucket")
       PROVE  Held(n)' = Held(n)
  <2>1. /\ at'[n]["insert"] = at[n]["insert"] /\ at'[n]["rollback"] = at[n]["rollback"]
        /\ at'[n]["publish"] = at[n]["publish"] /\ at'[n]["queued"] = at[n]["queued"]
        /\ at'[n]["remove_objects"] + at'[n]["remove_bucket"]
           = at[n]["remove_objects"] + at[n]["remove_bucket"]
    BY <1>10, MoveCounts
  <2>2. /\ at[n]["remove_objects"] \in Nat /\ at[n]["remove_bucket"] \in Nat
        /\ at'[n]["remove_objects"] \in Int /\ at'[n]["remove_bucket"] \in Int
    BY <1>10, MoveCounts
  <2>3. QED
    BY <2>1, <2>2
<1>11. Move(n, "remove_objects", "queued") => Held(n)' = Held(n)
  BY MoveCounts
<1>12. Move(n, "remove_bucket", "queued") => Held(n)' = Held(n)
  BY MoveCounts
<1>13. QED
  BY <1>1, <1>2, <1>3, <1>4, <1>5, <1>6, <1>7, <1>8, <1>9, <1>10, <1>11, <1>12

LEMMA HeldAfterRetry ==
  ASSUME TypeOK, NEW n \in Names, NEW p \in {"remove_objects", "remove_bucket"},
         Retry(n, p)
  PROVE  Held(n)' = Held(n)
<1>1. /\ at'[n]["insert"] = at[n]["insert"] /\ at'[n]["rollback"] = at[n]["rollback"]
      /\ at'[n]["publish"] = at[n]["publish"]
      /\ at'[n]["queued"] + at'[n]["remove_objects"] + at'[n]["remove_bucket"]
         = at[n]["queued"] + at[n]["remove_objects"] + at[n]["remove_bucket"]
      /\ at' \in [Names -> [Place -> Nat]]
  BY RetryCounts, PlaceMembers
<1>2. /\ at'[n]["queued"] \in Nat /\ at'[n]["remove_objects"] \in Nat
      /\ at'[n]["remove_bucket"] \in Nat
  BY <1>1, PlaceMembers
<1>3. QED
  BY <1>1, <1>2, CountsAreNat DEF Held

(* What a step of a quiet name does to the claims on its bucket. *)
LEMMA ClaimStep ==
  ASSUME TypeOK, Quiet', NEW n \in Names, RowInv(n), ClaimInv(n), NameStep(n)
  PROVE  ClaimInv(n)'
<1> DEFINE Present == IF n \in minio THEN 1 ELSE 0
           HasRow == IF row[n] # 0 THEN 1 ELSE 0
           Deletes == \A r \in Rows : /\ of[n][r]["delete_row"] <= 1
                                      /\ of[n][r]["delete_row"] > 0 => row[n] = r
<1>1. /\ Held(n) + HasRow <= Present /\ Deletes
      /\ Present \in {0, 1} /\ HasRow \in {0, 1} /\ Held(n) \in Nat
  BY HeldIsNat DEF ClaimInv, Claims, Held
<1>2. Held(n)' + HasRow' <= Present' /\ Deletes' => ClaimInv(n)'
  BY DEF ClaimInv, Claims, Held
<1>3. /\ UNCHANGED at => Held(n)' = Held(n)
      /\ UNCHANGED row => HasRow' = HasRow
      /\ UNCHANGED minio => Present' = Present
      /\ UNCHANGED <<row, of>> => Deletes'
  BY <1>1 DEF Held
<1> HIDE DEF Present, HasRow, Deletes
<1>4. CASE CreateBucket(n)
  <2>1. UNCHANGED <<row, minio, of>> /\ Enter(n, "make")
    BY <1>4 DEF CreateBucket, storage
  <2>2. QED
    BY <1>1, <1>2, <1>3, <2>1, HeldChanges
<1>5. CASE MakeBucket(n)
  <2>1. UNCHANGED <<row, of>>
    BY <1>5 DEF MakeBucket
  <2>2. CASE n \notin minio /\ minio' = minio \cup {n} /\ Move(n, "make", "insert")
    <3>1. Present = 0 /\ Present' = 1
      BY <2>2 DEF Present
    <3>2. QED
      BY <1>1, <1>2, <1>3, <2>1, <2>2, <3>1, HeldChanges
  <2>3. CASE Leave(n, "make") /\ UNCHANGED minio
    BY <1>1, <1>2, <1>3, <2>1, <2>3, HeldChanges
  <2>4. QED
    BY <1>5, <2>2, <2>3, QuietFaults DEF MakeBucket
<1>6. CASE InsertRow(n)
  <2>1. UNCHANGED <<minio, of>>
    BY <1>6 DEF InsertRow, storage
  <2>2. CASE Leave(n, "insert") /\ row[n] = 0
    <3>1. HasRow = 0 /\ HasRow' \in {0, 1}
      BY <2>2 DEF HasRow
    <3>2. Deletes'
      BY <1>1, <2>1, <2>2 DEF Deletes, Rows
    <3>3. QED
      BY <1>1, <1>2, <1>3, <2>1, <2>2, <3>1, <3>2, HeldChanges
  <2>3. CASE Move(n, "insert", "rollback") /\ UNCHANGED row
    BY <1>1, <1>2, <1>3, <2>1, <2>3, HeldChanges
  <2>4. QED
    BY <1>6, <2>2, <2>3, QuietFaults DEF InsertRow
<1>7. CASE Rollback(n)
  <2>1. UNCHANGED <<row, of>> /\ Leave(n, "rollback") /\ Present' \in {0, 1}
    BY <1>7 DEF Rollback, Present
  <2>2. Held(n) > 0
    BY <2>1, HeldIsNat DEF Leave
  <2>3. QED
    BY <1>1, <1>2, <1>3, <2>1, <2>2, HeldChanges
<1>8. CASE PublishDeleteBucket(n)
  <2>1. /\ UNCHANGED <<row, minio, of>>
        /\ Move(n, "publish", "queued") \/ Leave(n, "publish")
    BY <1>8 DEF PublishDeleteBucket, storage
  <2>2. QED
    BY <1>1, <1>2, <1>3, <2>1, HeldChanges
<1>9. ASSUME NEW r \in Rows, DeleteBucketByID(n, r)
      PROVE  ClaimInv(n)'
  <2>1. UNCHANGED <<row, minio, at>>
    BY <1>9 DEF DeleteBucketByID, storage
  <2>2. /\ row[n] = r /\ of[n][r]["delete_row"] < MaxDeletes
        /\ of'[n][r]["delete_row"] = of[n][r]["delete_row"] + 1
        /\ \A t \in Rows : t # r => of'[n][t] = of[n][t]
    BY <1>9, EnterOfCounts, PlaceMembers DEF DeleteBucketByID, FindByID
  <2>3. MaxDeletes <= 1 /\ MaxDeletes \in Nat /\ of[n][r]["delete_row"] \in Nat
    BY BoundsAssumption, CountsAreNat DEF Quiet
  <2>4. of'[n][r]["delete_row"] <= 1
    BY <2>2, <2>3
  <2>5. Deletes'
    BY <1>1, <2>1, <2>2, <2>4 DEF Deletes
  <2>6. QED
    BY <1>1, <1>2, <1>3, <2>1, <2>5
<1>10. ASSUME NEW r \in Rows, DeleteRow(n, r)
       PROVE  ClaimInv(n)'
  <2>1. UNCHANGED minio /\ LeaveOf(n, r, "delete_row")
    BY <1>10 DEF DeleteRow, storage
  <2>2. /\ row[n] = r /\ HasRow = 1
        /\ \A t \in Rows : of'[n][t]["delete_row"] = 0
    <3>1. /\ of[n][r]["delete_row"] = 1 /\ of'[n][r]["delete_row"] = 0
          /\ row[n] = r /\ r # 0
      <4>1. of[n][r]["delete_row"] \in Nat /\ of[n][r]["delete_row"] <= 1 /\ r # 0
        BY <1>1, CountsAreNat DEF Deletes, Rows
      <4>2. /\ of[n][r]["delete_row"] > 0
            /\ of'[n][r]["delete_row"] = of[n][r]["delete_row"] - 1
        BY <2>1, DeleteRequests
      <4>3. QED
        BY <1>1, <4>1, <4>2 DEF Deletes
    <3>2. \A t \in Rows : t # r => of'[n][t]["delete_row"] = 0
      BY <1>1, <2>1, <3>1, DeleteRequests DEF Deletes
    <3>3. QED
      BY <3>1, <3>2 DEF HasRow
  <2>3. Deletes'
    BY <2>2 DEF Deletes
  <2>4. CASE UNCHANGED <<row, at>>
    BY <1>1, <1>2, <1>3, <2>1, <2>3, <2>4
  <2>5. CASE row' = [row EXCEPT ![n] = 0] /\ Enter(n, "publish")
    <3>1. HasRow' = 0
      BY <2>5 DEF HasRow, TypeOK
    <3>2. QED
      BY <1>1, <1>2, <1>3, <2>1, <2>2, <2>3, <2>5, <3>1, HeldChanges
  <2>6. QED
    BY <1>10, <2>2, <2>4, <2>5, QuietFaults DEF DeleteRow, TypeOK
<1>11. ASSUME NEW r \in Rows,
              \/ UploadObject(n, r) \/ UpdateBucketAccess(n, r)
              \/ StoreFile(n, r) \/ BucketExists(n, r) \/ SetBucketPolicy(n, r)
       PROVE  ClaimInv(n)'
  <2>1. UNCHANGED <<row, minio, at>>
    BY <1>11 DEF UploadObject, UpdateBucketAccess, StoreFile, BucketExists,
       SetBucketPolicy, storage
  <2>2. \A t \in Rows : of'[n][t]["delete_row"] = of[n][t]["delete_row"]
    BY <1>11, OtherRequests
    DEF UploadObject, UpdateBucketAccess, StoreFile, BucketExists, SetBucketPolicy
  <2>3. Deletes'
    BY <1>1, <2>1, <2>2 DEF Deletes
  <2>4. QED
    BY <1>1, <1>2, <1>3, <2>1, <2>3
<1>12. CASE DeliverDelete(n)
  <2>1. UNCHANGED <<row, minio, of>> /\ Move(n, "queued", "remove_objects")
    BY <1>12 DEF DeliverDelete, storage
  <2>2. QED
    BY <1>1, <1>2, <1>3, <2>1, HeldChanges
<1>13. CASE RemoveAllObjects(n)
  <2>1. /\ UNCHANGED <<row, minio, of>>
        /\ Move(n, "remove_objects", "remove_bucket") \/ Retry(n, "remove_objects")
    BY <1>13 DEF RemoveAllObjects
  <2>2. QED
    BY <1>1, <1>2, <1>3, <2>1, HeldChanges, HeldAfterRetry
<1>14. CASE RemoveBucket(n)
  <2>1. UNCHANGED <<row, of>>
    BY <1>14 DEF RemoveBucket
  <2>2. CASE Move(n, "remove_bucket", "policies") /\ Present' \in {0, 1}
    <3>1. Held(n) > 0
      BY <2>2, HeldIsNat DEF Move
    <3>2. QED
      BY <1>1, <1>2, <1>3, <2>1, <2>2, <3>1, HeldChanges
  <2>3. CASE Retry(n, "remove_bucket") /\ UNCHANGED minio
    BY <1>1, <1>2, <1>3, <2>1, <2>3, HeldAfterRetry
  <2>4. QED
    BY <1>14, <2>2, <2>3, QuietFaults DEF RemoveBucket, Present
<1>15. CASE AckDelete(n)
  <2>1. UNCHANGED <<row, minio, of>> /\ Leave(n, "policies")
    BY <1>15 DEF AckDelete, storage
  <2>2. QED
    BY <1>1, <1>2, <1>3, <2>1, HeldChanges
<1>16. CASE HttpCrash(n)
  <2>1. UNCHANGED <<row, minio>>
    BY <1>16 DEF HttpCrash, storage
  <2>2. CASE (\E p \in HttpPlace : Leave(n, p)) /\ UNCHANGED of
    <3>1. Held(n)' = Held(n) \/ Held(n)' = Held(n) - 1
      BY <2>2, HeldChanges DEF HttpPlace
    <3>2. QED
      BY <1>1, <1>2, <1>3, <2>1, <2>2, <3>1
  <2>3. ASSUME NEW r \in Rows, NEW p \in RowPlace, LeaveOf(n, r, p), UNCHANGED at
        PROVE  ClaimInv(n)'
    <3>1. \A t \in Rows : of'[n][t]["delete_row"] <= of[n][t]["delete_row"]
                          /\ of'[n][t]["delete_row"] \in Nat
      <4>1. CASE p = "delete_row"
        <5>1. \A t \in Rows : t = r \/ t # r
          OBVIOUS
        <5>2. QED
          BY <2>3, <4>1, <5>1, DeleteRequests, CountsAreNat
      <4>2. CASE p # "delete_row"
        <5>1. p \in {"store", "exists", "set_access"}
          BY <4>2 DEF RowPlace
        <5>2. \A t \in Rows : of'[n][t]["delete_row"] = of[n][t]["delete_row"]
          BY <2>3, <5>1, OtherRequests
        <5>3. QED
          BY <5>2, CountsAreNat
      <4>3. QED
        BY <4>1, <4>2
    <3>2. ASSUME NEW t \in Rows
          PROVE  /\ of'[n][t]["delete_row"] <= 1
                 /\ of'[n][t]["delete_row"] > 0 => row'[n] = t
      <4>1. of[n][t]["delete_row"] \in Nat
        BY CountsAreNat
      <4>2. /\ of[n][t]["delete_row"] <= 1
            /\ of[n][t]["delete_row"] > 0 => row[n] = t
        BY <1>1 DEF Deletes
      <4>3. QED
        BY <2>1, <3>1, <4>1, <4>2
    <3>3. Deletes'
      BY <3>2 DEF Deletes
    <3>4. QED
      BY <1>1, <1>2, <1>3, <2>1, <2>3, <3>3
  <2>4. QED
    BY <1>16, <2>2, <2>3 DEF HttpCrash
<1>17. CASE ConsumerCrash(n)
  <2>1. /\ UNCHANGED <<row, minio, of>>
        /\ \E p \in {"remove_objects", "remove_bucket"} : Move(n, p, "queued")
    BY <1>17, QuietFaults DEF ConsumerCrash, storage
  <2>2. QED
    BY <1>1, <1>2, <1>3, <2>1, HeldChanges
<1>18. QED
  BY <1>4, <1>5, <1>6, <1>7, <1>8, <1>9, <1>10, <1>11, <1>12, <1>13, <1>14,
     <1>15, <1>16, <1>17 DEF NameStep, Request, HttpStep, ConsumerStep

(* As long as a row is deleted by one request at a time, no answer is lost *)
(* and no message worked on twice, every bucket has at most one claim.     *)
LEMMA QuietInvariant == Spec => []QuietInv
<1>1. Init => QuietInv
  BY DEF Init, QuietInv, ClaimInv, Claims, Place, HttpPlace, ConsumerPlace, RowPlace
<1>2. ASSUME IndInv, QuietInv, [Next]_vars
      PROVE  QuietInv'
  <2> SUFFICES ASSUME Quiet', NEW n \in Names PROVE ClaimInv(n)'
    BY DEF QuietInv
  <2>1. TypeOK /\ RowInv(n) /\ ClaimInv(n)
    BY <1>2, QuietBefore DEF IndInv, QuietInv
  <2>2. CASE UNCHANGED vars
    BY <2>1, <2>2 DEF vars, ClaimInv, Claims
  <2>3. ASSUME NEW m \in Names, NameStep(m)
        PROVE  ClaimInv(n)'
    <3>1. CASE n = m
      BY <2>1, <2>3, <3>1, ClaimStep
    <3>2. CASE n # m
      <4>1. Same(n)
        BY <2>1, <2>3, <3>2, OthersUntouched
      <4>2. QED
        BY <2>1, <4>1, Frame
    <3>3. QED
      BY <3>1, <3>2
  <2>4. QED
    BY <1>2, <2>2, <2>3 DEF Next, NameStep
<1>3. QED
  BY <1>1, <1>2, IndInvariant, PTL DEF Spec

(* Nobody answers twice for a bucket: none is removed, or handed out, by   *)
(* two requests or messages.                                               *)
THEOREM OneClaimAtATime == Spec => []OneClaim
<1>1. TypeOK /\ QuietInv => OneClaim
  <2> SUFFICES ASSUME TypeOK, NEW n \in Names, ClaimInv(n)
               PROVE  Claims(n) <= 1
    BY DEF OneClaim, QuietInv
  <2>1. Held(n) \in Nat /\ Claims(n) = Held(n) + (IF row[n] # 0 THEN 1 ELSE 0)
    BY HeldIsNat DEF Claims, Held
  <2>2. Claims(n) \in Int
    BY <2>1
  <2>3. QED
    BY <2>2 DEF ClaimInv
<1>2. QED
  BY <1>1, QuietInvariant, TypeCorrect, PTL

(* While a row is listed its bucket is there and nothing that removes      *)
(* buckets or their content is under way.                                  *)
LEMMA RowClaims ==
  ASSUME TypeOK, NEW n \in Names, ClaimInv(n), row[n] # 0
  PROVE  /\ n \in minio
         /\ at[n]["insert"] = 0 /\ at[n]["rollback"] = 0
         /\ at[n]["remove_objects"] = 0 /\ at[n]["remove_bucket"] = 0
<1>1. Held(n) \in Nat /\ Claims(n) = Held(n) + 1
  BY HeldIsNat DEF Claims, Held
<1>2. n \in minio /\ Held(n) = 0
  BY <1>1 DEF ClaimInv
<1>3. QED
  BY <1>2, HeldByNobody

(* A bucket that a row lists is in MinIO, until it is quiet no more.       *)
THEOREM ListedBucketsExist == Spec => []RowHasBucket
<1>1. TypeOK /\ QuietInv => RowHasBucket
  BY RowClaims DEF RowHasBucket, QuietInv
<1>2. QED
  BY <1>1, QuietInvariant, TypeCorrect, PTL

(* What an owner stored is not removed while the row is there, however     *)
(* creations, deletions and the consumer interleave.                       *)
THEOREM ContentIsSafe == Spec => ContentSurvives
<1>1. TypeOK /\ QuietInv /\ [Next]_vars =>
        [\A n \in Names :
           (Quiet' /\ row[n] # 0 /\ row'[n] = row[n]) =>
             content[n] \cap {row[n]} \subseteq content'[n]]_vars
  <2> SUFFICES ASSUME TypeOK, QuietInv, [Next]_vars, NEW n \in Names,
                      Quiet', row[n] # 0
               PROVE  content[n] \subseteq content'[n]
    OBVIOUS
  <2>1. ClaimInv(n)
    BY QuietBefore DEF QuietInv
  <2>2. QED
    BY <2>1, RowClaims, ContentKept
<1>2. QED
  BY <1>1, QuietInvariant, TypeCorrect, PTL DEF Spec, ContentSurvives

----------------------------------------------------------------------------
(* The refinement. *)

(* That a bucket was public does not outlive it. *)
AccessInv == \A n \in Names : n \notin minio => public[n] = 0

(* How a step of a name may change what MinIO has of it. *)
LEMMA AccessChanges ==
  ASSUME NEW n \in Names, NameStep(n)
  PROVE  \/ UNCHANGED <<minio, public>>
         \/ minio' = minio \cup {n} /\ UNCHANGED public
         \/ minio' = minio \ {n} /\ public' = [public EXCEPT ![n] = 0]
         \/ /\ n \in minio /\ UNCHANGED minio
            /\ \E access \in 0 .. MaxRows : public' = [public EXCEPT ![n] = access]
<1>1. ASSUME NEW r \in Rows, SetBucketPolicy(n, r)
      PROVE  \/ UNCHANGED <<minio, public>>
             \/ /\ n \in minio /\ UNCHANGED minio
                /\ \E access \in 0 .. MaxRows : public' = [public EXCEPT ![n] = access]
  BY <1>1, BoundsAssumption DEF SetBucketPolicy, Rows
<1>2. CASE MakeBucket(n) \/ Rollback(n) \/ RemoveBucket(n)
  BY <1>2 DEF MakeBucket, Rollback, RemoveBucket
<1>3. \/ MakeBucket(n) \/ Rollback(n) \/ RemoveBucket(n)
      \/ \E r \in Rows : SetBucketPolicy(n, r)
      \/ UNCHANGED <<minio, public>>
  BY DEF NameStep, Request, HttpStep, ConsumerStep, HttpCrash, ConsumerCrash,
     CreateBucket, DeleteBucketByID, UploadObject, UpdateBucketAccess, InsertRow,
     PublishDeleteBucket, BucketExists, DeliverDelete, AckDelete, DeleteRow,
     StoreFile, RemoveAllObjects, storage
<1>4. QED
  BY <1>1, <1>2, <1>3

LEMMA AccessInvariant == Spec => []AccessInv
<1>1. Init => AccessInv
  BY DEF Init, AccessInv
<1>2. TypeOK /\ AccessInv /\ [Next]_vars => AccessInv'
  <2> SUFFICES ASSUME TypeOK, AccessInv, [Next]_vars
               PROVE  AccessInv'
    OBVIOUS
  <2>1. CASE UNCHANGED vars
    BY <2>1 DEF vars, AccessInv
  <2>2. ASSUME NEW n \in Names, NameStep(n)
        PROVE  AccessInv'
    BY <2>2, AccessChanges DEF AccessInv, TypeOK
  <2>3. QED
    BY <2>1, <2>2 DEF Next, NameStep
<1>3. QED
  BY <1>1, <1>2, TypeCorrect, PTL DEF Spec

(* Each step of a name is a step of the promise, or changes nothing of it. *)
LEMMA PromiseStep ==
  ASSUME TypeOK, AccessInv, NEW n \in Names, RowInv(n), ClaimInv(n),
         NameStep(n)
  PROVE  [Promise!Next]_(Promise!vars)
<1> USE DEF Promise!vars
<1>1. CASE MakeBucket(n)
  <2>1. UNCHANGED <<row, content, public>>
    BY <1>1 DEF MakeBucket
  <2>2. CASE n \notin minio /\ minio' = minio \cup {n}
    <3>1. Promise!Reserve(n)
      BY <2>1, <2>2 DEF Promise!Reserve, AccessInv
    <3>2. QED
      BY <3>1 DEF Promise!Next
  <2>3. CASE UNCHANGED minio
    BY <2>1, <2>3
  <2>4. QED
    BY <1>1, <2>2, <2>3 DEF MakeBucket
<1>2. CASE InsertRow(n)
  <2>1. UNCHANGED <<minio, content, public>>
    BY <1>2 DEF InsertRow, storage
  <2>2. CASE /\ row[n] = 0
             /\ row' = [row EXCEPT ![n] = last[n] + 1]
             /\ at[n]["insert"] > 0
    <3>1. n \in minio
      <4>1. Held(n) \in Nat /\ Held(n) > 0 /\ Claims(n) = Held(n)
        BY <2>2, HeldIsNat, CountsAreNat DEF Claims, Held
      <4>2. QED
        BY <4>1 DEF ClaimInv
    <3>2. last[n] + 1 \in Rows
      BY <2>2, CountsAreNat DEF RowInv, Rows
    <3>3. Promise!Take(n, last[n] + 1)
      BY <2>1, <2>2, <3>1 DEF Promise!Take
    <3>4. QED
      BY <3>2, <3>3 DEF Promise!Next
  <2>3. CASE UNCHANGED row
    BY <2>1, <2>3
  <2>4. QED
    BY <1>2, <2>2, <2>3 DEF InsertRow, Leave, Move
<1>3. CASE Rollback(n) \/ RemoveBucket(n)
  <2>1. UNCHANGED <<row, content>>
    BY <1>3 DEF Rollback, RemoveBucket
  <2>2. row[n] = 0
    <3>1. at[n]["rollback"] > 0 \/ at[n]["remove_bucket"] > 0
      BY <1>3, RetryCounts DEF Rollback, RemoveBucket, Leave, Move
    <3>2. QED
      BY <3>1, RowClaims
  <2>3. CASE /\ n \in minio /\ content[n] = {}
             /\ minio' = minio \ {n} /\ public' = [public EXCEPT ![n] = 0]
    <3>1. Promise!Drop(n)
      BY <2>1, <2>2, <2>3 DEF Promise!Drop
    <3>2. QED
      BY <3>1 DEF Promise!Next
  <2>4. CASE UNCHANGED <<minio, public>>
    BY <2>1, <2>4
  <2>5. QED
    BY <1>3, <2>3, <2>4 DEF Rollback, RemoveBucket
<1>4. ASSUME NEW r \in Rows, DeleteRow(n, r)
      PROVE  [Promise!Next]_(Promise!vars)
  <2>1. UNCHANGED <<minio, content, public>>
    BY <1>4 DEF DeleteRow, storage
  <2>2. CASE row' = [row EXCEPT ![n] = 0] /\ row[n] # 0
    <3>1. Promise!Release(n)
      BY <2>1, <2>2 DEF Promise!Release
    <3>2. QED
      BY <3>1 DEF Promise!Next
  <2>3. CASE UNCHANGED row
    BY <2>1, <2>3
  <2>4. row' = row \/ (row' = [row EXCEPT ![n] = 0] /\ row[n] # 0)
    <3>1. r # 0
      BY DEF Rows
    <3>2. \/ row' = row
          \/ row' = [row EXCEPT ![n] = IF row[n] = r THEN 0 ELSE row[n]]
      BY <1>4 DEF DeleteRow
    <3>3. QED
      BY <3>1, <3>2 DEF TypeOK
  <2>5. QED
    BY <2>2, <2>3, <2>4
<1>5. CASE RemoveAllObjects(n)
  <2>1. UNCHANGED <<row, minio, public>>
    BY <1>5 DEF RemoveAllObjects
  <2>2. row[n] = 0
    <3>1. at[n]["remove_objects"] > 0
      BY <1>5, RetryCounts DEF RemoveAllObjects, Move
    <3>2. QED
      BY <3>1, RowClaims
  <2>3. CASE \E kept \in SUBSET content[n] : content' = [content EXCEPT ![n] = kept]
    <3>1. Promise!Sweep(n)
      BY <2>1, <2>2, <2>3 DEF Promise!Sweep
    <3>2. QED
      BY <3>1 DEF Promise!Next
  <2>4. CASE UNCHANGED content
    BY <2>1, <2>4
  <2>5. content' = [content EXCEPT ![n] = {}] =>
          \E kept \in SUBSET content[n] : content' = [content EXCEPT ![n] = kept]
    OBVIOUS
  <2>6. QED
    BY <1>5, <2>3, <2>4, <2>5 DEF RemoveAllObjects
<1>6. ASSUME NEW r \in Rows, StoreFile(n, r)
      PROVE  [Promise!Next]_(Promise!vars)
  <2>1. UNCHANGED <<row, minio, public>>
    BY <1>6 DEF StoreFile
  <2>2. CASE n \in minio /\ content' = [content EXCEPT ![n] = @ \cup {r}]
    <3>1. Promise!Store(n, r)
      BY <2>1, <2>2 DEF Promise!Store
    <3>2. QED
      BY <3>1 DEF Promise!Next
  <2>3. CASE UNCHANGED content
    BY <2>1, <2>3
  <2>4. QED
    BY <1>6, <2>2, <2>3 DEF StoreFile
<1>7. ASSUME NEW r \in Rows, SetBucketPolicy(n, r)
      PROVE  [Promise!Next]_(Promise!vars)
  <2>1. UNCHANGED <<row, minio, content>>
    BY <1>7 DEF SetBucketPolicy
  <2>2. ASSUME n \in minio, NEW access \in Rows \cup {0},
               public' = [public EXCEPT ![n] = access]
        PROVE  [Promise!Next]_(Promise!vars)
    <3>1. Promise!Open(n, access)
      BY <2>1, <2>2 DEF Promise!Open
    <3>2. QED
      BY <3>1 DEF Promise!Next
  <2>3. CASE UNCHANGED public
    BY <2>1, <2>3
  <2>4. QED
    BY <1>7, <2>2, <2>3 DEF SetBucketPolicy
<1>8. \/ MakeBucket(n) \/ InsertRow(n) \/ Rollback(n) \/ RemoveBucket(n)
      \/ RemoveAllObjects(n)
      \/ \E r \in Rows : DeleteRow(n, r) \/ StoreFile(n, r) \/ SetBucketPolicy(n, r)
      \/ UNCHANGED <<row, minio, content, public>>
  BY DEF NameStep, Request, HttpStep, ConsumerStep, HttpCrash, ConsumerCrash,
     CreateBucket, DeleteBucketByID, UploadObject, UpdateBucketAccess,
     PublishDeleteBucket, BucketExists, DeliverDelete, AckDelete,
     storage
<1>9. QED
  BY <1>1, <1>2, <1>3, <1>4, <1>5, <1>6, <1>7, <1>8

(* The rows and the buckets keep the promise of BucketPromise: a name has  *)
(* one owner at a time, nobody removes what is stored under it, and what   *)
(* is public was made so since the bucket is there.                        *)
THEOREM PromiseIsKept == Spec => PromiseKept
<1>1. Init => Promise!Init
  BY DEF Init, Promise!Init
<1>2. IndInv /\ AccessInv /\ QuietInv /\ [Next]_vars
        => [Quiet' => [Promise!Next]_(Promise!vars)]_vars
  <2> SUFFICES ASSUME IndInv, AccessInv, QuietInv, [Next]_vars, Quiet'
               PROVE  [Promise!Next]_(Promise!vars)
    OBVIOUS
  <2>1. \A n \in Names : ClaimInv(n)
    BY QuietBefore DEF IndInv, QuietInv
  <2>2. CASE UNCHANGED vars
    BY <2>2 DEF vars, Promise!vars
  <2>3. ASSUME NEW n \in Names, NameStep(n)
        PROVE  [Promise!Next]_(Promise!vars)
    BY <2>1, <2>3, PromiseStep DEF IndInv
  <2>4. QED
    BY <2>2, <2>3 DEF Next, NameStep
<1>3. QED
  BY <1>1, <1>2, IndInvariant, AccessInvariant, QuietInvariant, PTL
  DEF Spec, PromiseKept

----------------------------------------------------------------------------
(* No bucket is left behind.                                               *)

LEMMA AbandonsFaults ==
  ASSUME TypeOK, NEW n \in Names, NameStep(n), ~Abandoned'
  PROVE  /\ ~Abandoned
         /\ ~Fault("reply") /\ ~Fault("db_reply") /\ ~Fault("rollback")
         /\ ~Fault("publish") /\ ~Fault("lost") /\ ~Fault("crash")
<1>1. Abandons \subseteq FaultKind
  BY DEF Abandons, FaultKind
<1>2. \A k \in Abandons : ~(faults'[k] > 0)
  BY DEF Abandoned
<1>3. \A k \in Abandons : ~Fault(k)
  BY <1>1, <1>2, FaultCounts
<1>4. ~Abandoned
  BY <1>1, <1>2, FaultsGrow DEF Abandoned
<1>5. QED
  BY <1>3, <1>4 DEF Abandons

LEMMA OwingClaims ==
  ASSUME TypeOK, NEW n \in Names
  PROVE  /\ Claims(n) > at[n]["rollback"] <=> Owing(n)
         /\ Claims(n) > 0 <=> Owing(n) \/ at[n]["rollback"] > 0
<1> DEFINE a == at[n]["insert"]
           b == at[n]["rollback"]
           c == at[n]["publish"]
           d == at[n]["queued"]
           e == at[n]["remove_objects"]
           f == at[n]["remove_bucket"]
           h == IF row[n] # 0 THEN 1 ELSE 0
<1>1. /\ a \in Nat /\ b \in Nat /\ c \in Nat /\ d \in Nat /\ e \in Nat /\ f \in Nat
      /\ h \in {0, 1}
  BY CountsAreNat
<1>2. Claims(n) = a + b + c + d + e + f + h
  BY DEF Claims
<1>3. Owing(n) <=> h = 1 \/ a > 0 \/ c > 0 \/ d > 0 \/ e > 0 \/ f > 0
  BY DEF Owing, OwingPlace
<1> HIDE DEF a, b, c, d, e, f, h
<1>4. /\ Claims(n) > b <=> Owing(n)
      /\ Claims(n) > 0 <=> Owing(n) \/ b > 0
  BY <1>1, <1>2, <1>3
<1>5. QED
  BY <1>4 DEF b

(* What a step may do to a bucket that is still there after it.            *)
Refused(n) == Move(n, "insert", "rollback") /\ Fault("db")

StuckRollback(n) == Leave(n, "rollback") /\ content[n] # {}

BucketMoves(n) ==
  \/ n \notin minio'
  \/ Owing(n)'
  \/ n \in minio /\ at'[n]["rollback"] = at[n]["rollback"] /\ ~Owing(n)
  \/ n \in minio /\ Refused(n)
  \/ n \in minio /\ StuckRollback(n) /\ ~Owing(n)

(* A repeated attempt is still some message's. *)
LEMMA RetryOwes ==
  ASSUME TypeOK, TypeOK', NEW n \in Names,
         NEW p \in {"remove_objects", "remove_bucket"}, Retry(n, p)
  PROVE  \E q \in {"queued", "remove_objects", "remove_bucket"} : at'[n][q] > 0
<1>1. /\ at[n][p] > 0
      /\ at'[n]["queued"] + at'[n]["remove_objects"] + at'[n]["remove_bucket"]
         = at[n]["queued"] + at[n]["remove_objects"] + at[n]["remove_bucket"]
  BY RetryCounts
<1>2. /\ at'[n]["queued"] \in Nat /\ at'[n]["remove_objects"] \in Nat
      /\ at'[n]["remove_bucket"] \in Nat
  BY PlaceMembers DEF TypeOK
<1>3. /\ at[n]["queued"] \in Nat /\ at[n]["remove_objects"] \in Nat
      /\ at[n]["remove_bucket"] \in Nat
  BY CountsAreNat
<1> DEFINE d == at[n]["queued"]
           e == at[n]["remove_objects"]
           f == at[n]["remove_bucket"]
<1>4. d + e + f > 0
  <2>1. e > 0 \/ f > 0
    BY <1>1
  <2> HIDE DEF d, e, f
  <2>2. d \in Nat /\ e \in Nat /\ f \in Nat
    BY <1>3 DEF d, e, f
  <2>3. QED
    BY <2>1, <2>2
<1>5. at'[n]["queued"] + at'[n]["remove_objects"] + at'[n]["remove_bucket"] > 0
  BY <1>1, <1>4
<1>6. QED
  BY <1>2, <1>5

LEMMA BucketStep ==
  ASSUME TypeOK, TypeOK', NEW n \in Names, NameStep(n), ~Abandoned'
  PROVE  BucketMoves(n)
<1> USE AbandonsFaults, PlaceMembers, CountsAreNat DEF BucketMoves
<1>1. ASSUME NEW q \in OwingPlace, at'[n][q] > 0
      PROVE  BucketMoves(n)
  BY <1>1 DEF Owing
<1>2. ASSUME row' = row, UNCHANGED minio,
             \A p \in OwingPlace : at'[n][p] = at[n][p],
             at'[n]["rollback"] = at[n]["rollback"]
      PROVE  BucketMoves(n)
  BY <1>2 DEF Owing
<1>3. OwingPlace \subseteq Place /\ {"make", "rollback", "policies"} \cap OwingPlace = {}
  BY DEF OwingPlace, Place, HttpPlace, ConsumerPlace
<1>4. ASSUME NEW p \in Place, NEW q \in OwingPlace, p # q, Move(n, p, q)
      PROVE  BucketMoves(n)
  <2>1. at'[n][q] = at[n][q] + 1 /\ at[n][q] \in Nat
    BY <1>3, <1>4, MoveCounts DEF TypeOK
  <2>2. QED
    BY <1>1, <2>1
<1>5. ASSUME NEW p \in {"remove_objects", "remove_bucket"}, Retry(n, p)
      PROVE  BucketMoves(n)
  BY <1>1, <1>5, RetryOwes DEF OwingPlace
<1>6. CASE CreateBucket(n)
  BY <1>2, <1>3, <1>6, EnterCounts DEF CreateBucket, storage
<1>7. CASE MakeBucket(n)
  <2>1. CASE Move(n, "make", "insert")
    BY <1>4, <2>1 DEF OwingPlace
  <2>2. CASE Leave(n, "make") /\ UNCHANGED <<row, minio>>
    BY <1>2, <1>3, <2>2, LeaveCounts
  <2>3. QED
    BY <1>7, <2>1, <2>2 DEF MakeBucket
<1>8. CASE InsertRow(n)
  <2>1. CASE row' = [row EXCEPT ![n] = last[n] + 1]
    BY <2>1 DEF TypeOK, Owing
  <2>2. CASE row[n] # 0 /\ row' = row
    BY <2>2 DEF Owing
  <2>3. CASE Move(n, "insert", "rollback") /\ Fault("db") /\ UNCHANGED minio
    BY <2>3 DEF Refused
  <2>4. QED
    BY <1>8, <2>1, <2>2, <2>3 DEF InsertRow, storage
<1>9. CASE Rollback(n)
  <2>1. CASE n \in minio' /\ n \in minio
    <3>1. content[n] # {} /\ Leave(n, "rollback") /\ row' = row
      BY <1>9, <2>1 DEF Rollback
    <3>2. \A p \in OwingPlace : at'[n][p] = at[n][p]
      BY <1>3, <3>1, LeaveCounts
    <3>3. Owing(n)' <=> Owing(n)
      BY <3>1, <3>2 DEF Owing
    <3>4. QED
      BY <2>1, <3>1, <3>3 DEF StuckRollback
  <2>2. QED
    BY <1>9, <2>1 DEF Rollback
<1>10. CASE PublishDeleteBucket(n)
  BY <1>4, <1>10 DEF PublishDeleteBucket, OwingPlace
<1>11. ASSUME NEW r \in Rows, DeleteRow(n, r)
       PROVE  BucketMoves(n)
  <2>1. CASE Enter(n, "publish")
    BY <1>1, <2>1, EnterCounts DEF OwingPlace
  <2>2. QED
    BY <1>2, <1>3, <1>11, <2>1 DEF DeleteRow, storage
<1>12. ASSUME NEW r \in Rows,
              \/ DeleteBucketByID(n, r)
              \/ UploadObject(n, r) \/ UpdateBucketAccess(n, r)
              \/ StoreFile(n, r) \/ BucketExists(n, r) \/ SetBucketPolicy(n, r)
       PROVE  BucketMoves(n)
  BY <1>2, <1>12 DEF DeleteBucketByID, UploadObject, UpdateBucketAccess,
     StoreFile, BucketExists, SetBucketPolicy, storage
<1>13. CASE DeliverDelete(n) \/ RemoveAllObjects(n)
  BY <1>4, <1>5, <1>13 DEF DeliverDelete, RemoveAllObjects, OwingPlace
<1>14. CASE RemoveBucket(n)
  BY <1>5, <1>14 DEF RemoveBucket
<1>15. CASE AckDelete(n)
  BY <1>2, <1>3, <1>15, LeaveCounts DEF AckDelete, storage
<1>16. CASE ConsumerCrash(n)
  BY <1>4, <1>16 DEF ConsumerCrash, OwingPlace
<1>17. ~HttpCrash(n)
  BY DEF HttpCrash
<1>18. QED
  BY <1>6, <1>7, <1>8, <1>9, <1>10, <1>11, <1>12, <1>13, <1>14, <1>15, <1>16,
     <1>17 DEF NameStep, Request, HttpStep, ConsumerStep

LEMMA KeptStep ==
  ASSUME TypeOK, TypeOK', NEW n \in Names, NameStep(n), [Next]_vars, ~Abandoned',
         KeptInv(n), n \in minio'
  PROVE  Owing(n)' \/ (faults'["db"] > 0
                        /\ (at'[n]["rollback"] > 0 \/ content'[n] # {}))
<1>1. "db" \in FaultKind
  BY DEF FaultKind
<1>2. faults["db"] > 0 => faults'["db"] > 0
  BY <1>1, FaultsGrow
<1>3. ASSUME ~Owing(n), content[n] # {}
      PROVE  content'[n] # {}
  <2>1. at[n]["remove_objects"] = 0
    BY <1>3, CountsAreNat DEF Owing, OwingPlace
  <2>2. QED
    BY <1>3, <2>1, ContentKept
<1>4. CASE n \in minio /\ at'[n]["rollback"] = at[n]["rollback"] /\ ~Owing(n)
  BY <1>2, <1>3, <1>4 DEF KeptInv
<1>5. CASE Refused(n)
  <2>1. at'[n]["rollback"] = at[n]["rollback"] + 1 /\ at[n]["rollback"] \in Nat
    BY <1>5, MoveCounts, CountsAreNat, PlaceMembers DEF Refused
  <2>2. faults'["db"] > 0
    BY <1>1, <1>5, FaultCounts DEF Refused
  <2>3. QED
    BY <2>1, <2>2
<1>6. CASE n \in minio /\ StuckRollback(n) /\ ~Owing(n)
  BY <1>2, <1>3, <1>6 DEF KeptInv, StuckRollback
<1>7. QED
  BY <1>4, <1>5, <1>6, BucketStep DEF BucketMoves

LEMMA OrphanInvariant == Spec => []OrphanInv
<1>1. Init => OrphanInv
  BY DEF Init, OrphanInv, KeptInv
<1>2. ASSUME IndInv, TypeOK', OrphanInv, [Next]_vars
      PROVE  OrphanInv'
  <2> SUFFICES ASSUME ~Abandoned', NEW n \in Names
               PROVE  KeptInv(n)'
    BY DEF OrphanInv
  <2>1. CASE UNCHANGED vars
    BY <1>2, <2>1 DEF vars, OrphanInv, Abandoned, KeptInv, Owing
  <2>2. ASSUME NEW m \in Names, NameStep(m)
        PROVE  KeptInv(n)'
    <3>1. KeptInv(n)
      BY <1>2, <2>2, AbandonsFaults DEF OrphanInv, IndInv
    <3>2. CASE n = m
      BY <1>2, <2>2, <3>1, <3>2, KeptStep DEF IndInv, KeptInv
    <3>3. CASE n # m
      <4>1. Same(n)
        BY <1>2, <2>2, <3>3, OthersUntouched DEF IndInv
      <4>2. faults["db"] > 0 => faults'["db"] > 0
        BY <1>2, <2>2, FaultsGrow DEF IndInv, FaultKind
      <4>3. QED
        BY <3>1, <4>1, <4>2 DEF Same, KeptInv, Owing
    <3>4. QED
      BY <3>2, <3>3
  <2>3. QED
    BY <1>2, <2>1, <2>2 DEF Next, NameStep
<1>3. QED
  BY <1>1, <1>2, IndInvariant, TypeCorrect, PTL DEF Spec

(* However often creations of a name, its deletion and uploads interleave, *)
(* messages are delivered again and calls to MinIO fail without effect:    *)
(* only the failures of Abandons, and a failing statement of a creation    *)
(* whose bucket got a late upload, leave a bucket that nobody removes.     *)
THEOREM NoBucketOrphaned == Spec => []NothingOrphaned
<1>1. TypeOK /\ OrphanInv => NothingOrphaned
  BY OwingClaims DEF OrphanInv, KeptInv, NothingOrphaned
<1>2. QED
  BY <1>1, OrphanInvariant, TypeCorrect, PTL

=============================================================================
