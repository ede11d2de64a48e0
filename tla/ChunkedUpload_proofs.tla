----------------------- MODULE ChunkedUpload_proofs -----------------------
(***************************************************************************)
(* Theorems about ChunkedUpload, for every set of uploads, every number of *)
(* chunks and every bound on retries and failures.                         *)
(***************************************************************************)
EXTENDS ChunkedUpload, Sequences, FiniteSetTheorems, TLAPS

USE DEF NoFault

----------------------------------------------------------------------------
(* The places by name, so that the provers need not expand the sets.       *)
LEMMA PlaceMembers ==
  /\ "increment" \in Place /\ "mark" \in Place /\ "publish" \in Place
  /\ "revert" \in Place /\ "delete" \in Place /\ "cleanup" \in Place
  /\ "chunk_complete" \in Place /\ "compose_ok" \in Place
  /\ "compose_failed" \in Place /\ "set_failed" \in Place
  /\ "ack_failed" \in Place /\ "hash" \in Place /\ "create" \in Place
  /\ "requeue" \in Place /\ "set_completed" \in Place /\ "ack_ok" \in Place
BY DEF Place, HttpPlace, QueuePlace, ConsumerPlace

LEMMA PipelineMembers ==
  /\ Pipeline \subseteq Place
  /\ "increment" \notin Pipeline /\ "delete" \notin Pipeline
  /\ "cleanup" \notin Pipeline
  /\ "mark" \in Pipeline /\ "publish" \in Pipeline /\ "revert" \in Pipeline
  /\ "chunk_complete" \in Pipeline /\ "compose_ok" \in Pipeline
  /\ "compose_failed" \in Pipeline /\ "set_failed" \in Pipeline
  /\ "ack_failed" \in Pipeline /\ "hash" \in Pipeline
  /\ "create" \in Pipeline /\ "requeue" \in Pipeline
  /\ "set_completed" \in Pipeline /\ "ack_ok" \in Pipeline
BY DEF Pipeline, Place, HttpPlace, QueuePlace, ConsumerPlace

LEMMA CountsAreNat ==
  ASSUME TypeOK, NEW u \in Uploads
  PROVE  /\ \A p \in Place : at[u][p] \in Nat
         /\ at[u]["mark"] \in Nat /\ at[u]["publish"] \in Nat
         /\ at[u]["chunk_complete"] \in Nat /\ at[u]["compose_ok"] \in Nat
         /\ at[u]["hash"] \in Nat /\ at[u]["create"] \in Nat
         /\ at[u]["requeue"] \in Nat /\ at[u]["set_completed"] \in Nat
         /\ at[u]["ack_ok"] \in Nat /\ at[u]["increment"] \in Nat
         /\ created[u] \in Nat /\ completes[u] \in Nat /\ stores[u] \in Nat
         /\ uploaded[u] \in Nat /\ faults["redelivery"] \in Nat
BY PlaceMembers DEF TypeOK, FaultKind

(* What a token's step does to the counts.                                 *)

LEMMA MoveCounts ==
  ASSUME TypeOK, NEW u \in Uploads, NEW p \in Place, NEW q \in Place, p # q,
         Move(u, p, q)
  PROVE  /\ at' \in [Uploads -> [Place -> Nat]]
         /\ at[u][p] > 0
         /\ at'[u][p] = at[u][p] - 1 /\ at'[u][q] = at[u][q] + 1
         /\ \A r \in Place : r # p /\ r # q => at'[u][r] = at[u][r]
         /\ \A v \in Uploads : v # u => at'[v] = at[v]
BY DEF Move, TypeOK

LEMMA EnterCounts ==
  ASSUME TypeOK, NEW u \in Uploads, NEW q \in Place, Enter(u, q)
  PROVE  /\ at' \in [Uploads -> [Place -> Nat]]
         /\ at'[u][q] = at[u][q] + 1
         /\ \A r \in Place : r # q => at'[u][r] = at[u][r]
         /\ \A v \in Uploads : v # u => at'[v] = at[v]
BY DEF TypeOK, Enter

LEMMA LeaveCounts ==
  ASSUME TypeOK, NEW u \in Uploads, NEW p \in Place, Leave(u, p)
  PROVE  /\ at' \in [Uploads -> [Place -> Nat]]
         /\ at[u][p] > 0
         /\ at'[u][p] = at[u][p] - 1
         /\ \A r \in Place : r # p => at'[u][r] = at[u][r]
         /\ \A v \in Uploads : v # u => at'[v] = at[v]
BY DEF TypeOK, Leave

LEMMA FaultCounts ==
  ASSUME TypeOK, NEW k \in FaultKind, Fault(k)
  PROVE  /\ faults' \in [FaultKind -> Nat]
         /\ faults'[k] = faults[k] + 1
         /\ \A j \in FaultKind : j # k => faults'[j] = faults[j]
BY DEF TypeOK, Fault

(* The SQL statements keep the types of the columns. *)
LEMMA StatementTypes ==
  ASSUME TypeOK, NEW u \in Uploads,
         \/ \E s \in Status : UpdateStatus(u, s)
         \/ UpdateFileHash(u)
         \/ IncrementUploadedChunks(u)
         \/ \E rows \in SUBSET Uploads : DeleteRows(rows)
         \/ UNCHANGED session
  PROVE  /\ status' \in [Uploads -> Status \cup NoRowStatus]
         /\ uploaded' \in [Uploads -> Nat]
         /\ hash' \in [Uploads -> BOOLEAN]
<1>1. CASE \E s \in Status : UpdateStatus(u, s)
  BY <1>1 DEF TypeOK, UpdateStatus
<1>2. CASE UpdateFileHash(u)
  BY <1>2 DEF TypeOK, UpdateFileHash
<1>3. CASE IncrementUploadedChunks(u)
  BY <1>3 DEF TypeOK, IncrementUploadedChunks, Status
<1>4. CASE \E rows \in SUBSET Uploads : DeleteRows(rows)
  <2> PICK rows \in SUBSET Uploads : DeleteRows(rows)
    BY <1>4
  <2> DEFINE gone == {v \in rows : Exists(v)}
  <2>1. /\ status' = [v \in Uploads |-> IF v \in gone THEN "gone" ELSE status[v]]
        /\ uploaded' = [v \in Uploads |-> IF v \in gone THEN 0 ELSE uploaded[v]]
        /\ hash' = [v \in Uploads |-> IF v \in gone THEN FALSE ELSE hash[v]]
    BY DEF DeleteRows
  <2> HIDE DEF gone
  <2>2. status' \in [Uploads -> Status \cup NoRowStatus]
    BY <2>1 DEF TypeOK, NoRowStatus
  <2>3. uploaded' \in [Uploads -> Nat]
    BY <2>1 DEF TypeOK
  <2>4. hash' \in [Uploads -> BOOLEAN]
    BY <2>1 DEF TypeOK
  <2>5. QED
    BY <2>2, <2>3, <2>4
<1>5. CASE UNCHANGED session
  BY <1>5 DEF TypeOK, session
<1>6. QED
  BY <1>1, <1>2, <1>3, <1>4, <1>5

----------------------------------------------------------------------------
(* Type correctness.                                                       *)

(* Initially every variable has its type. *)
LEMMA InitTypeOK == Init => TypeOK
BY DEF Init, TypeOK, NoRowStatus

(* The client's steps keep the types. *)
LEMMA ClientTypeOK ==
  ASSUME TypeOK, NEW u \in Uploads, ClientStep(u)
  PROVE  TypeOK'
<1>1. CASE InitChunkedUpload(u)
  BY <1>1 DEF InitChunkedUpload, TypeOK, history, Status
<1>2. ASSUME NEW c \in ChunkIndex, UploadChunk(u, c)
      PROVE  TypeOK'
  BY <1>2 DEF UploadChunk, TypeOK, session
<1>3. CASE CompleteChunkedUpload(u)
  <2>1. "mark" \in Place
    BY DEF Place, HttpPlace
  <2>2. at' \in [Uploads -> [Place -> Nat]]
    BY <1>3, <2>1, EnterCounts DEF CompleteChunkedUpload
  <2>3. completes' \in [Uploads -> Nat]
    BY <1>3 DEF CompleteChunkedUpload, TypeOK
  <2>4. QED
    BY <1>3, <2>2, <2>3 DEF CompleteChunkedUpload, TypeOK, session
<1>4. CASE AbortChunkedUpload(u)
  BY <1>4 DEF AbortChunkedUpload, TypeOK, session, history
<1>5. QED
  BY <1>1, <1>2, <1>3, <1>4 DEF ClientStep

(* A token's step, and a failure counted or not, keep the types.           *)
LEMMA TokenTypes ==
  ASSUME TypeOK, NEW u \in Uploads, NEW p \in Place, NEW q \in Place, p # q,
         Move(u, p, q) \/ Enter(u, q) \/ Leave(u, p)
  PROVE  at' \in [Uploads -> [Place -> Nat]]
<1>1. CASE Move(u, p, q)
  BY <1>1, MoveCounts
<1>2. CASE Enter(u, q)
  BY <1>2, EnterCounts
<1>3. CASE Leave(u, p)
  BY <1>3, LeaveCounts
<1>4. QED
  BY <1>1, <1>2, <1>3

LEMMA FaultTypes ==
  ASSUME TypeOK, NoFault \/ \E k \in FaultKind : Fault(k)
  PROVE  faults' \in [FaultKind -> Nat]
BY FaultCounts DEF TypeOK

(* StatusLogged is an UPDATE or, after a failure, nothing. *)
LEMMA StatusLoggedTypes ==
  ASSUME TypeOK, NEW u \in Uploads, NEW s \in Status, StatusLogged(u, s)
  PROVE  /\ status' \in [Uploads -> Status \cup NoRowStatus]
         /\ uploaded' \in [Uploads -> Nat]
         /\ hash' \in [Uploads -> BOOLEAN]
         /\ faults' \in [FaultKind -> Nat]
BY StatementTypes, FaultTypes DEF StatusLogged, FaultKind

(* The steps of the HTTP handlers keep the types. *)
LEMMA HttpTypeOK ==
  ASSUME TypeOK, NEW u \in Uploads, HttpStep(u)
  PROVE  TypeOK'
<1> USE DEF Place, HttpPlace, QueuePlace, FaultKind
<1>1. ASSUME NEW c \in ChunkIndex, StoreChunk(u, c)
      PROVE  TypeOK'
  <2>1. at' \in [Uploads -> [Place -> Nat]]
    BY <1>1, EnterCounts DEF StoreChunk, TypeOK
  <2>2. faults' \in [FaultKind -> Nat]
    BY <1>1, FaultTypes DEF StoreChunk
  <2>3. stored' \in [Uploads -> SUBSET ChunkIndex]
    <3>1. \E kept \in {stored[u] \cup {c}, stored[u], stored[u] \ {c}} :
            stored' = [stored EXCEPT ![u] = kept]
      BY <1>1 DEF StoreChunk
    <3>2. /\ stored \in [Uploads -> SUBSET ChunkIndex]
          /\ \A kept \in {stored[u] \cup {c}, stored[u], stored[u] \ {c}} :
               kept \in SUBSET ChunkIndex
      BY DEF TypeOK
    <3>3. QED
      BY <3>1, <3>2
  <2>4. /\ storing' \in [Uploads -> [ChunkIndex -> Nat]]
        /\ stores' \in [Uploads -> Nat]
    <3>1. /\ storing[u][c] > 0
          /\ storing' = [storing EXCEPT ![u][c] = @ - 1]
          /\ stores' = [stores EXCEPT ![u] = @ + 1] \/ stores' = stores
      BY <1>1 DEF StoreChunk
    <3>2. /\ storing \in [Uploads -> [ChunkIndex -> Nat]]
          /\ storing[u] \in [ChunkIndex -> Nat]
          /\ storing[u][c] - 1 \in Nat
          /\ stores \in [Uploads -> Nat]
      BY <3>1 DEF TypeOK
    <3>3. QED
      BY <3>1, <3>2
  <2>5. QED
    BY <1>1, <2>1, <2>2, <2>3, <2>4 DEF StoreChunk, TypeOK, session
<1>2. CASE CountChunk(u)
  <2>1. at' \in [Uploads -> [Place -> Nat]]
    BY <1>2, LeaveCounts DEF CountChunk
  <2>2. faults' \in [FaultKind -> Nat]
    BY <1>2, FaultTypes DEF CountChunk
  <2>3. QED
    BY <1>2, <2>1, <2>2, StatementTypes DEF CountChunk, TypeOK, history
<1>3. CASE MarkProcessing(u)
  BY <1>3, MoveCounts, StatusLoggedTypes
  DEF MarkProcessing, TypeOK, history, Status
<1>4. CASE PublishChunkComplete(u)
  <2>1. at' \in [Uploads -> [Place -> Nat]]
    BY <1>4, MoveCounts, LeaveCounts DEF PublishChunkComplete
  <2>2. faults' \in [FaultKind -> Nat]
    BY <1>4, FaultTypes DEF PublishChunkComplete
  <2>3. QED
    BY <1>4, <2>1, <2>2 DEF PublishChunkComplete, TypeOK, history, session
<1>5. CASE RevertStatus(u)
  BY <1>5, LeaveCounts, StatusLoggedTypes
  DEF RevertStatus, TypeOK, history, Status
<1>6. CASE DeleteSession(u)
  <2>1. at' \in [Uploads -> [Place -> Nat]]
    BY <1>6, LeaveCounts DEF DeleteSession
  <2>2. faults' \in [FaultKind -> Nat]
    BY <1>6, FaultTypes DEF DeleteSession
  <2>3. QED
    BY <1>6, <2>1, <2>2, StatementTypes DEF DeleteSession, TypeOK, history
<1>7. CASE CleanupChunks(u)
  <2>1. at' \in [Uploads -> [Place -> Nat]]
    BY <1>7, LeaveCounts DEF CleanupChunks
  <2>2. stored' \in [Uploads -> SUBSET ChunkIndex]
    BY <1>7 DEF CleanupChunks, TypeOK
  <2>3. QED
    BY <1>7, <2>1, <2>2 DEF CleanupChunks, TypeOK, history, session
<1>8. QED
  BY <1>1, <1>2, <1>3, <1>4, <1>5, <1>6, <1>7 DEF HttpStep

(* The upload-service and the consumer keep the types. *)
LEMMA ConsumerTypeOK ==
  ASSUME TypeOK, NEW u \in Uploads, Compose(u) \/ ConsumerStep(u)
  PROVE  TypeOK'
<1> USE DEF Place, QueuePlace, ConsumerPlace, FaultKind
<1>1. CASE Compose(u)
  <2>1. at' \in [Uploads -> [Place -> Nat]]
    BY <1>1, MoveCounts, EnterCounts DEF Compose
  <2>2. faults' \in [FaultKind -> Nat]
    BY <1>1, FaultTypes DEF Compose
  <2>3. QED
    BY <1>1, <2>1, <2>2 DEF Compose, TypeOK, history, session
<1>2. CASE ReceiveFailed(u)
  BY <1>2, MoveCounts DEF ReceiveFailed, TypeOK, history, session
<1>3. CASE SetFailed(u)
  BY <1>3, MoveCounts, StatusLoggedTypes DEF SetFailed, TypeOK, history, Status
<1>4. CASE ReceiveCompleted(u)
  BY <1>4, MoveCounts DEF ReceiveCompleted, TypeOK, history, session
<1>5. CASE RecordHash(u)
  <2>1. at' \in [Uploads -> [Place -> Nat]]
    BY <1>5, MoveCounts DEF RecordHash
  <2>2. faults' \in [FaultKind -> Nat]
    BY <1>5, FaultTypes DEF RecordHash
  <2>3. QED
    BY <1>5, <2>1, <2>2, StatementTypes DEF RecordHash, TypeOK, history
<1>6. CASE CreateObject(u)
  <2>1. at' \in [Uploads -> [Place -> Nat]]
    BY <1>6, MoveCounts DEF CreateObject
  <2>2. faults' \in [FaultKind -> Nat]
    BY <1>6, FaultTypes DEF CreateObject
  <2>3. created' = created \/ created' = [created EXCEPT ![u] = @ + 1]
    BY <1>6 DEF CreateObject
  <2>4. created' \in [Uploads -> Nat]
    <3>1. created \in [Uploads -> Nat]
      BY DEF TypeOK
    <3>2. QED
      BY ONLY <2>3, <3>1, u \in Uploads
  <2>5. QED
    BY <1>6, <2>1, <2>2, <2>4 DEF CreateObject, TypeOK, history, session
<1>7. CASE RequeueFailed(u)
  BY <1>7, MoveCounts, StatusLoggedTypes
  DEF RequeueFailed, TypeOK, history, Status
<1>8. CASE SetCompleted(u)
  BY <1>8, MoveCounts, StatusLoggedTypes
  DEF SetCompleted, TypeOK, history, Status
<1>9. CASE Ack(u)
  BY <1>9, LeaveCounts DEF Ack, TypeOK, history, session
<1>10. QED
  BY <1>1, <1>2, <1>3, <1>4, <1>5, <1>6, <1>7, <1>8, <1>9 DEF ConsumerStep

(* Crashes, the clock and the deletion of the bucket keep the types. *)
LEMMA EnvironmentTypeOK ==
  ASSUME TypeOK, NEW u \in Uploads,
         HttpCrash(u) \/ ConsumerCrash(u) \/ Expire(u) \/ DeleteBucket
  PROVE  TypeOK'
<1> USE DEF Place, HttpPlace, QueuePlace, ConsumerPlace, FaultKind
<1>1. CASE HttpCrash(u)
  <2>1. /\ at' \in [Uploads -> [Place -> Nat]]
        /\ storing' \in [Uploads -> [ChunkIndex -> Nat]]
    <3>1. ASSUME NEW p \in HttpPlace, Leave(u, p), UNCHANGED storing
          PROVE  <2>1!:
      BY <3>1, LeaveCounts DEF TypeOK
    <3>2. ASSUME NEW c \in ChunkIndex, storing[u][c] > 0, UNCHANGED at,
                 storing' = [storing EXCEPT ![u][c] = @ - 1]
          PROVE  <2>1!:
      BY <3>2 DEF TypeOK
    <3>3. QED
      BY <1>1, <3>1, <3>2 DEF HttpCrash
  <2>2. faults' \in [FaultKind -> Nat]
    BY <1>1, FaultTypes DEF HttpCrash
  <2>3. QED
    BY <1>1, <2>1, <2>2 DEF HttpCrash, TypeOK, history, session
<1>2. CASE ConsumerCrash(u)
  <2>1. at' \in [Uploads -> [Place -> Nat]]
    BY <1>2, MoveCounts DEF ConsumerCrash
  <2>2. faults' \in [FaultKind -> Nat]
    BY <1>2, FaultTypes DEF ConsumerCrash
  <2>3. QED
    BY <1>2, <2>1, <2>2 DEF ConsumerCrash, TypeOK, history, session
<1>3. CASE Expire(u)
  BY <1>3 DEF Expire, TypeOK, history, session
<1>4. CASE DeleteBucket
  BY <1>4, StatementTypes DEF DeleteBucket, TypeOK, history
<1>5. QED
  BY <1>1, <1>2, <1>3, <1>4

(* Every step keeps the types. *)
LEMMA TypeStep == TypeOK /\ [Next]_vars => TypeOK'
<1> SUFFICES ASSUME TypeOK, [Next]_vars PROVE TypeOK'
  OBVIOUS
<1>1. CASE UNCHANGED vars
  BY <1>1 DEF TypeOK, vars
<1>2. ASSUME NEW u \in Uploads,
             \/ ClientStep(u) \/ HttpStep(u) \/ Compose(u) \/ ConsumerStep(u)
             \/ HttpCrash(u) \/ ConsumerCrash(u) \/ Expire(u)
      PROVE  TypeOK'
  BY <1>2, ClientTypeOK, HttpTypeOK, ConsumerTypeOK, EnvironmentTypeOK
<1>3. CASE DeleteBucket
  <2>1. CASE Uploads = {}
    BY <1>3, <2>1 DEF DeleteBucket, DeleteRows, TypeOK, history
  <2>2. CASE Uploads # {}
    BY <1>3, <2>2, EnvironmentTypeOK
  <2>3. QED
    BY <2>1, <2>2
<1>4. QED
  BY <1>1, <1>2, <1>3 DEF Next

(* Every variable keeps its type; in particular no counter of requests,    *)
(* messages or chunks is ever decremented below zero.                      *)
THEOREM TypeCorrect == Spec => []TypeOK
BY InitTypeOK, TypeStep, PTL DEF Spec

----------------------------------------------------------------------------
(* The inductive invariant.                                                *)

(* The invariant of an upload depends on these values alone. *)
LEMMA Frame ==
  ASSUME TypeOK, TypeOK', NEW v \in Uploads, UploadInv(v),
         at'[v] = at[v], storing'[v] = storing[v],
         status'[v] = status[v], uploaded'[v] = uploaded[v],
         created'[v] = created[v], stores'[v] = stores[v],
         completes'[v] = completes[v],
         faults'["redelivery"] >= faults["redelivery"]
  PROVE  UploadInv(v)'
<1>1. UntouchedBeforeInit(v)'
  BY DEF UploadInv, UntouchedBeforeInit
<1>2. NeverOverstates(v)'
  BY DEF UploadInv, NeverOverstates, Exists
<1>3. RequestedWhenCounted(v)'
  BY DEF UploadInv, RequestedWhenCounted, Exists, PipelineQuiet
<1>4. ObjectBeforeCompleted(v)'
  BY DEF UploadInv, ObjectBeforeCompleted
<1>5. ObjectBound(v)'
  <2>1. at[v] \in [Place -> Nat] /\ created[v] \in Nat /\ completes[v] \in Nat
        /\ faults["redelivery"] \in Nat /\ faults'["redelivery"] \in Nat
    BY DEF TypeOK, FaultKind
  <2>2. QED
    BY <2>1 DEF UploadInv, ObjectBound, Place, HttpPlace, QueuePlace,
                ConsumerPlace
<1>6. QED
  BY <1>1, <1>2, <1>3, <1>4, <1>5 DEF UploadInv

LEMMA InitInd == Init => IndInv
<1> SUFFICES ASSUME Init, NEW u \in Uploads PROVE UploadInv(u)
  BY InitTypeOK DEF IndInv
<1>1. /\ at[u] = [p \in Place |-> 0] /\ status[u] = "none"
      /\ storing[u] = [c \in ChunkIndex |-> 0]
      /\ created[u] = 0 /\ completes[u] = 0 /\ faults["redelivery"] = 0
  BY DEF Init, FaultKind
<1>2. /\ ~Exists(u) /\ PipelineQuiet(u)
      /\ \A p \in Place : at[u][p] = 0
  BY <1>1 DEF Exists, Status, PipelineQuiet, Pipeline, Place, HttpPlace
<1>3. QED
  BY <1>1, <1>2 DEF UploadInv, UntouchedBeforeInit, NeverOverstates,
     RequestedWhenCounted, ObjectBeforeCompleted, ObjectBound, Place,
     HttpPlace, QueuePlace, ConsumerPlace

(* An UPDATE of the status writes the given one, or nothing. *)
LEMMA StatusLoggedEffect ==
  ASSUME TypeOK, NEW u \in Uploads, NEW s \in Status, StatusLogged(u, s)
  PROVE  /\ status'[u] \in {status[u], s}
         /\ ~Exists(u) => status'[u] = status[u]
         /\ \A v \in Uploads : v # u => status'[v] = status[v]
         /\ UNCHANGED <<uploaded, hash>>
         /\ faults'["redelivery"] = faults["redelivery"]
<1>1. CASE UpdateStatus(u, s) /\ NoFault
  BY <1>1 DEF UpdateStatus, TypeOK
<1>2. CASE Fault("db") /\ UNCHANGED session
  BY <1>2, FaultCounts DEF session, FaultKind
<1>3. QED
  BY <1>1, <1>2 DEF StatusLogged

(* A failure of another kind is not a redelivery. *)
LEMMA RedeliveriesGrow ==
  ASSUME TypeOK, NoFault \/ \E k \in FaultKind : Fault(k)
  PROVE  /\ faults'["redelivery"] >= faults["redelivery"]
         /\ faults["redelivery"] \in Nat
BY FaultCounts DEF FaultKind, TypeOK

(* A step of an upload changes nothing of another one. *)
LEMMA OthersUntouched ==
  ASSUME TypeOK, TypeOK', NEW u \in Uploads, NEW v \in Uploads, v # u,
         \/ ClientStep(u) \/ HttpStep(u) \/ Compose(u) \/ ConsumerStep(u)
         \/ HttpCrash(u) \/ ConsumerCrash(u) \/ Expire(u),
         UploadInv(v)
  PROVE  UploadInv(v)'
<1> USE DEF FaultKind
<1> DEFINE Same == /\ at'[v] = at[v] /\ storing'[v] = storing[v]
                   /\ status'[v] = status[v] /\ uploaded'[v] = uploaded[v]
                   /\ created'[v] = created[v] /\ stores'[v] = stores[v]
                   /\ completes'[v] = completes[v]
                   /\ faults'["redelivery"] >= faults["redelivery"]
<1>1. CASE ClientStep(u)
  <2>1. ASSUME InitChunkedUpload(u) PROVE Same
    BY <2>1, RedeliveriesGrow DEF InitChunkedUpload, history, TypeOK
  <2>2. ASSUME NEW c \in ChunkIndex, UploadChunk(u, c) PROVE Same
    BY <2>2, RedeliveriesGrow DEF UploadChunk, session, TypeOK
  <2>3. ASSUME CompleteChunkedUpload(u) PROVE Same
    BY <2>3, RedeliveriesGrow DEF CompleteChunkedUpload, Enter, session, TypeOK
  <2>4. ASSUME AbortChunkedUpload(u) PROVE Same
    BY <2>4, RedeliveriesGrow DEF AbortChunkedUpload, session, history, TypeOK
  <2>5. QED
    BY <1>1, <2>1, <2>2, <2>3, <2>4, Frame DEF ClientStep
<1>2. CASE HttpStep(u)
  <2>1. ASSUME NEW c \in ChunkIndex, StoreChunk(u, c) PROVE Same
    <3>1. at'[v] = at[v] /\ stores'[v] = stores[v]
      BY <2>1 DEF StoreChunk, Enter, TypeOK
    <3>2. QED
      BY <2>1, <3>1, RedeliveriesGrow DEF StoreChunk, session, TypeOK
  <2>2. ASSUME CountChunk(u) PROVE Same
    <3>1. status'[v] = status[v] /\ uploaded'[v] = uploaded[v]
      BY <2>2 DEF CountChunk, IncrementUploadedChunks, session, TypeOK
    <3>2. QED
      BY <2>2, <3>1, RedeliveriesGrow DEF CountChunk, Leave, history, TypeOK
  <2>3. ASSUME MarkProcessing(u) PROVE Same
    BY <2>3, StatusLoggedEffect, RedeliveriesGrow
    DEF MarkProcessing, Move, history, TypeOK, Status
  <2>4. ASSUME PublishChunkComplete(u) PROVE Same
    <3>1. at'[v] = at[v]
      BY <2>4 DEF PublishChunkComplete, Move, Leave, TypeOK
    <3>2. QED
      BY <2>4, <3>1, RedeliveriesGrow DEF PublishChunkComplete, session, history
  <2>5. ASSUME RevertStatus(u) PROVE Same
    BY <2>5, StatusLoggedEffect, RedeliveriesGrow
    DEF RevertStatus, Leave, history, TypeOK, Status
  <2>6. ASSUME DeleteSession(u) PROVE Same
    <3>1. status'[v] = status[v] /\ uploaded'[v] = uploaded[v]
      BY <2>6 DEF DeleteSession, DeleteRows, session, TypeOK
    <3>2. QED
      BY <2>6, <3>1, RedeliveriesGrow DEF DeleteSession, Leave, history, TypeOK
  <2>7. ASSUME CleanupChunks(u) PROVE Same
    BY <2>7, RedeliveriesGrow DEF CleanupChunks, Leave, session, history, TypeOK
  <2>8. QED
    BY <1>2, <2>1, <2>2, <2>3, <2>4, <2>5, <2>6, <2>7, Frame DEF HttpStep
<1>3. CASE Compose(u) \/ ConsumerStep(u)
  <2>1. CASE Compose(u)
    <3>1. at'[v] = at[v]
      BY <2>1 DEF Compose, Move, Enter, TypeOK
    <3>2. QED
      BY <2>1, <3>1, RedeliveriesGrow, Frame DEF Compose, session, history
  <2>2. CASE ReceiveFailed(u) \/ ReceiveCompleted(u)
    BY <2>2, RedeliveriesGrow, Frame
    DEF ReceiveFailed, ReceiveCompleted, Move, session, history, TypeOK
  <2>3. CASE SetFailed(u) \/ RequeueFailed(u) \/ SetCompleted(u)
    BY <2>3, StatusLoggedEffect, RedeliveriesGrow, Frame
    DEF SetFailed, RequeueFailed, SetCompleted, Move, history, TypeOK, Status
  <2>4. CASE RecordHash(u)
    <3>1. status'[v] = status[v] /\ uploaded'[v] = uploaded[v]
      BY <2>4 DEF RecordHash, UpdateFileHash, session
    <3>2. QED
      BY <2>4, <3>1, RedeliveriesGrow, Frame DEF RecordHash, Move, history, TypeOK
  <2>5. CASE CreateObject(u)
    <3>1. at'[v] = at[v] /\ created'[v] = created[v]
      BY <2>5 DEF CreateObject, Move, TypeOK
    <3>2. QED
      BY <2>5, <3>1, RedeliveriesGrow, Frame DEF CreateObject, session, history
  <2>6. CASE Ack(u)
    BY <2>6, RedeliveriesGrow, Frame DEF Ack, Leave, session, history, TypeOK
  <2>7. QED
    BY <1>3, <2>1, <2>2, <2>3, <2>4, <2>5, <2>6 DEF ConsumerStep
<1>4. CASE HttpCrash(u)
  <2>1. at'[v] = at[v] /\ storing'[v] = storing[v]
    BY <1>4 DEF HttpCrash, Leave, TypeOK
  <2>2. QED
    BY <1>4, <2>1, RedeliveriesGrow, Frame DEF HttpCrash, session, history
<1>5. CASE ConsumerCrash(u)
  <2>1. at'[v] = at[v]
    BY <1>5 DEF ConsumerCrash, Move, TypeOK
  <2>2. QED
    BY <1>5, <2>1, RedeliveriesGrow, Frame DEF ConsumerCrash, session, history
<1>6. CASE Expire(u)
  BY <1>6, RedeliveriesGrow, Frame DEF Expire, session, history
<1>7. QED
  BY <1>1, <1>2, <1>3, <1>4, <1>5, <1>6

(* Moves inside the pipeline: the upload was already in it, its counters    *)
(* stay, and the bound on objects holds again, so the invariant does when   *)
(* the status and the objects agree.                                       *)
LEMMA PipelineStep ==
  ASSUME TypeOK, TypeOK', NEW u \in Uploads, UploadInv(u),
         \E p \in Pipeline : at[u][p] > 0,
         at'[u]["increment"] = at[u]["increment"],
         storing'[u] = storing[u], stores'[u] = stores[u],
         uploaded'[u] = uploaded[u],
         status'[u] # status[u] => Exists(u) /\ status'[u] \in Status,
         ObjectBeforeCompleted(u)', ObjectBound(u)'
  PROVE  UploadInv(u)'
<1>1. ~PipelineQuiet(u) /\ stores[u] >= TotalChunks
  BY PipelineMembers, CountsAreNat DEF PipelineQuiet, UploadInv,
     RequestedWhenCounted
<1>2. status[u] # "none"
  BY <1>1, PipelineMembers DEF UploadInv, UntouchedBeforeInit, PipelineQuiet
<1>3. Exists(u)' <=> Exists(u)
  BY DEF Exists
<1>4. UntouchedBeforeInit(u)'
  BY <1>2 DEF UntouchedBeforeInit, Status
<1>5. NeverOverstates(u)'
  BY <1>3 DEF UploadInv, NeverOverstates
<1>6. RequestedWhenCounted(u)'
  BY <1>1, <1>3 DEF UploadInv, RequestedWhenCounted
<1>7. QED
  BY <1>4, <1>5, <1>6 DEF UploadInv

(* The bound on objects, after a step that moves a message without         *)
(* inserting one: it still owes an object, or owes none any more, or was   *)
(* redelivered.                                                            *)
LEMMA BoundKept ==
  ASSUME TypeOK, TypeOK', NEW u \in Uploads, ObjectBound(u),
         NEW p \in Pipeline, NEW q \in Pipeline, p # q, Move(u, p, q),
         created'[u] = created[u], completes'[u] = completes[u],
         faults'["redelivery"] >= faults["redelivery"],
         \/ q \in {"revert", "compose_failed", "set_failed", "ack_failed",
                   "set_completed", "ack_ok"}
         \/ p \in {"mark", "publish", "chunk_complete", "compose_ok", "hash",
                   "create", "requeue"}
         \/ faults'["redelivery"] = faults["redelivery"] + 1
  PROVE  ObjectBound(u)'
<1> DEFINE d(r) == IF r = p THEN -1 ELSE IF r = q THEN 1 ELSE 0
<1>1. p \in Place /\ q \in Place
  BY PipelineMembers
<1>2. \A r \in Place : at'[u][r] = at[u][r] + d(r)
  BY <1>1, MoveCounts, CountsAreNat
<1>3. d("mark") + d("publish") + d("chunk_complete") + d("compose_ok")
        + d("hash") + d("create") + d("requeue")
      <= faults'["redelivery"] - faults["redelivery"]
  <2>1. faults["redelivery"] \in Nat /\ faults'["redelivery"] \in Nat
    BY DEF TypeOK, FaultKind
  <2>2. CASE q \in {"revert", "compose_failed", "set_failed", "ack_failed",
                   "set_completed", "ack_ok"}
    BY <2>1, <2>2
  <2>3. CASE p \in {"mark", "publish", "chunk_complete", "compose_ok", "hash",
                   "create", "requeue"}
    BY <2>1, <2>3
  <2>4. CASE faults'["redelivery"] = faults["redelivery"] + 1
    BY <2>1, <2>4
  <2>5. QED
    BY <2>2, <2>3, <2>4
<1>4. /\ at'[u]["mark"] = at[u]["mark"] + d("mark")
      /\ at'[u]["publish"] = at[u]["publish"] + d("publish")
      /\ at'[u]["chunk_complete"] = at[u]["chunk_complete"] + d("chunk_complete")
      /\ at'[u]["compose_ok"] = at[u]["compose_ok"] + d("compose_ok")
      /\ at'[u]["hash"] = at[u]["hash"] + d("hash")
      /\ at'[u]["create"] = at[u]["create"] + d("create")
      /\ at'[u]["requeue"] = at[u]["requeue"] + d("requeue")
  BY <1>2, PlaceMembers
<1>5. /\ d("mark") \in Int /\ d("publish") \in Int /\ d("create") \in Int
      /\ d("chunk_complete") \in Int /\ d("compose_ok") \in Int
      /\ d("hash") \in Int /\ d("requeue") \in Int
  OBVIOUS
<1> HIDE DEF d
<1>6. /\ faults["redelivery"] \in Nat /\ faults'["redelivery"] \in Nat
  BY DEF TypeOK, FaultKind
<1>7. QED
  BY <1>3, <1>4, <1>5, <1>6, CountsAreNat DEF ObjectBound

(* A message that moves along the pipeline without inserting an object     *)
(* keeps the invariant of its upload.                                      *)
LEMMA MoveStep ==
  ASSUME TypeOK, TypeOK', NEW u \in Uploads, UploadInv(u),
         NEW p \in Pipeline, NEW q \in Pipeline, p # q, Move(u, p, q),
         UNCHANGED <<uploaded, storing, created, stores, completes>>,
         faults'["redelivery"] >= faults["redelivery"],
         \/ q \in {"revert", "compose_failed", "set_failed", "ack_failed",
                   "set_completed", "ack_ok"}
         \/ p \in {"mark", "publish", "chunk_complete", "compose_ok", "hash",
                   "create", "requeue"}
         \/ faults'["redelivery"] = faults["redelivery"] + 1,
         status'[u] # status[u] => Exists(u) /\ status'[u] \in Status,
         \/ q \in {"set_completed", "ack_ok"}
         \/ status'[u] = "COMPLETED" /\ status[u] # "COMPLETED"
         => p \in {"set_completed", "ack_ok"}
  PROVE  UploadInv(u)'
<1>1. /\ at[u][p] > 0
      /\ at'[u]["increment"] = at[u]["increment"]
      /\ \A r \in Place : r # q => at'[u][r] <= at[u][r]
  <2>1. /\ p \in Place /\ q \in Place /\ "increment" \in Place
        /\ p # "increment" /\ q # "increment"
    BY PipelineMembers, PlaceMembers
  <2>2. /\ at[u][p] > 0 /\ at'[u][p] = at[u][p] - 1
        /\ \A r \in Place : r # p /\ r # q => at'[u][r] = at[u][r]
    BY <2>1, MoveCounts
  <2>3. \A r \in Place : at[u][r] \in Nat
    BY CountsAreNat
  <2>4. QED
    BY <2>1, <2>2, <2>3
<1>2. ObjectBound(u)'
  BY BoundKept DEF UploadInv
<1>3. ObjectBeforeCompleted(u)'
  <2>1. p \in {"set_completed", "ack_ok"} => created[u] > 0
    BY <1>1 DEF UploadInv, ObjectBeforeCompleted
  <2>2. CASE p \in {"set_completed", "ack_ok"}
    BY <2>1, <2>2 DEF ObjectBeforeCompleted
  <2>3. CASE /\ q \notin {"set_completed", "ack_ok"}
             /\ status'[u] = "COMPLETED" => status[u] = "COMPLETED"
    <3>1. /\ at'[u]["set_completed"] <= at[u]["set_completed"]
          /\ at'[u]["ack_ok"] <= at[u]["ack_ok"]
      BY <1>1, <2>3, PlaceMembers
    <3>2. /\ at'[u]["set_completed"] \in Nat /\ at'[u]["ack_ok"] \in Nat
          /\ at[u]["set_completed"] \in Nat /\ at[u]["ack_ok"] \in Nat
      BY PlaceMembers DEF TypeOK
    <3>3. QED
      BY <2>3, <3>1, <3>2 DEF UploadInv, ObjectBeforeCompleted
  <2>4. QED
    BY <2>2, <2>3
<1>4. /\ \E r \in Pipeline : at[u][r] > 0
      /\ storing'[u] = storing[u] /\ stores'[u] = stores[u]
      /\ uploaded'[u] = uploaded[u]
      /\ status'[u] # status[u] => Exists(u) /\ status'[u] \in Status
  BY <1>1
<1>5. QED
  BY <1>1, <1>2, <1>3, <1>4, PipelineStep

(* A message that is acknowledged or dropped, or a request that crashed.   *)
LEMMA LeaveStep ==
  ASSUME TypeOK, TypeOK', NEW u \in Uploads, UploadInv(u),
         NEW p \in Pipeline, Leave(u, p),
         UNCHANGED <<uploaded, storing, created, stores, completes>>,
         faults'["redelivery"] >= faults["redelivery"],
         status'[u] # status[u] =>
           Exists(u) /\ status'[u] \in Status \ {"COMPLETED"}
  PROVE  UploadInv(u)'
<1>1. /\ at[u][p] > 0
      /\ at'[u]["increment"] = at[u]["increment"]
      /\ \A r \in Place : at'[u][r] <= at[u][r]
      /\ \A r \in Place : at'[u][r] \in Nat /\ at[u][r] \in Nat
  <2>1. p \in Place /\ "increment" \in Place /\ p # "increment"
    BY PipelineMembers, PlaceMembers
  <2>2. /\ at[u][p] > 0 /\ at'[u][p] = at[u][p] - 1
        /\ \A r \in Place : r # p => at'[u][r] = at[u][r]
    BY <2>1, LeaveCounts
  <2>3. \A r \in Place : at[u][r] \in Nat /\ at'[u][r] \in Nat
    BY DEF TypeOK
  <2>4. QED
    BY <2>1, <2>2, <2>3
<1>2. ObjectBound(u)'
  <2>1. faults["redelivery"] \in Nat /\ faults'["redelivery"] \in Nat
    BY DEF TypeOK, FaultKind
  <2>2. QED
    BY <1>1, <2>1, PlaceMembers, CountsAreNat DEF UploadInv, ObjectBound
<1>3. ObjectBeforeCompleted(u)'
  BY <1>1, PlaceMembers, CountsAreNat DEF UploadInv, ObjectBeforeCompleted
<1>4. /\ \E r \in Pipeline : at[u][r] > 0
      /\ storing'[u] = storing[u] /\ stores'[u] = stores[u]
      /\ uploaded'[u] = uploaded[u]
      /\ status'[u] # status[u] => Exists(u) /\ status'[u] \in Status
  BY <1>1
<1>5. QED
  BY <1>1, <1>2, <1>3, <1>4, PipelineStep

(* The steps of the upload-service and of the consumer. *)
LEMMA ConsumerKeepsInv ==
  ASSUME TypeOK, TypeOK', NEW u \in Uploads, UploadInv(u),
         Compose(u) \/ ConsumerStep(u) \/ ConsumerCrash(u)
  PROVE  UploadInv(u)'
<1> USE PipelineMembers
<1>1. CASE Compose(u)
  <2>1. ASSUME NEW result \in {"compose_ok", "compose_failed"},
               Move(u, "chunk_complete", result), NoFault
        PROVE  UploadInv(u)'
    BY <1>1, <2>1, MoveStep, CountsAreNat DEF Compose, session, history
  <2>2. ASSUME NEW result \in {"compose_ok", "compose_failed"},
               at[u]["chunk_complete"] > 0, Enter(u, result),
               Fault("redelivery")
        PROVE  UploadInv(u)'
    <3>1. /\ result \in Place /\ at'[u][result] = at[u][result] + 1
          /\ \A r \in Place : r # result => at'[u][r] = at[u][r]
          /\ faults'["redelivery"] = faults["redelivery"] + 1
      BY <2>2, EnterCounts, FaultCounts DEF FaultKind
    <3>2. UNCHANGED <<status, uploaded, storing, created, stores, completes>>
      BY <1>1 DEF Compose, session, history
    <3>3. ObjectBound(u)'
      BY <2>2, <3>1, <3>2, CountsAreNat, PlaceMembers DEF UploadInv, ObjectBound
    <3>4. ObjectBeforeCompleted(u)'
      BY <2>2, <3>1, <3>2, PlaceMembers DEF UploadInv, ObjectBeforeCompleted
    <3>5. /\ \E p \in Pipeline : at[u][p] > 0
          /\ at'[u]["increment"] = at[u]["increment"]
      BY <2>2, <3>1, PlaceMembers
    <3>6. QED
      BY <3>2, <3>3, <3>4, <3>5, PipelineStep
  <2>3. QED
    BY <1>1, <2>1, <2>2 DEF Compose
<1>2. CASE ReceiveFailed(u)
  BY <1>2, MoveStep, CountsAreNat DEF ReceiveFailed, session, history
<1>3. CASE SetFailed(u)
  <2>1. /\ status'[u] \in {status[u], "FAILED"}
        /\ ~Exists(u) => status'[u] = status[u]
        /\ UNCHANGED uploaded /\ faults'["redelivery"] = faults["redelivery"]
    BY <1>3, StatusLoggedEffect DEF SetFailed, Status
  <2>2. QED
    BY <1>3, <2>1, MoveStep, CountsAreNat DEF SetFailed, history, Status
<1>4. CASE ReceiveCompleted(u)
  BY <1>4, MoveStep, CountsAreNat DEF ReceiveCompleted, session, history
<1>5. CASE RecordHash(u)
  <2>1. /\ UNCHANGED <<status, uploaded>>
        /\ faults'["redelivery"] = faults["redelivery"]
    BY <1>5, FaultCounts DEF RecordHash, UpdateFileHash, session, FaultKind
  <2>2. QED
    BY <1>5, <2>1, MoveStep, CountsAreNat DEF RecordHash, history
<1>6. CASE CreateObject(u)
  <2>1. CASE Move(u, "create", "requeue") /\ UNCHANGED created
    <3>1. faults'["redelivery"] >= faults["redelivery"]
      BY <1>6, RedeliveriesGrow DEF CreateObject, FaultKind
    <3>2. QED
      BY <1>6, <2>1, <3>1, MoveStep DEF CreateObject, session, history
  <2>2. CASE /\ Move(u, "create", "set_completed") /\ NoFault
             /\ created' = [created EXCEPT ![u] = @ + 1]
    <3>1. created'[u] = created[u] + 1
      BY <2>2 DEF TypeOK
    <3>2. /\ at'[u]["create"] = at[u]["create"] - 1
          /\ at'[u]["set_completed"] = at[u]["set_completed"] + 1
          /\ \A r \in Place : r # "create" /\ r # "set_completed"
                              => at'[u][r] = at[u][r]
          /\ at[u]["create"] > 0
      BY <2>2, MoveCounts, PlaceMembers
    <3>3. UNCHANGED <<status, uploaded, storing, stores, completes, faults>>
      BY <1>6, <2>2 DEF CreateObject, session, history
    <3>4. ObjectBound(u)'
      BY <3>1, <3>2, <3>3, CountsAreNat, PlaceMembers DEF UploadInv, ObjectBound
    <3>5. ObjectBeforeCompleted(u)'
      BY <3>1, CountsAreNat DEF ObjectBeforeCompleted
    <3>6. /\ \E p \in Pipeline : at[u][p] > 0
          /\ at'[u]["increment"] = at[u]["increment"]
      BY <3>2, PlaceMembers
    <3>7. QED
      BY <3>3, <3>4, <3>5, <3>6, PipelineStep
  <2>3. QED
    BY <1>6, <2>1, <2>2 DEF CreateObject
<1>7. CASE RequeueFailed(u)
  <2>1. /\ status'[u] \in {status[u], "FAILED"}
        /\ ~Exists(u) => status'[u] = status[u]
        /\ UNCHANGED uploaded /\ faults'["redelivery"] = faults["redelivery"]
    BY <1>7, StatusLoggedEffect DEF RequeueFailed, Status
  <2>2. QED
    BY <1>7, <2>1, MoveStep, CountsAreNat DEF RequeueFailed, history, Status
<1>8. CASE SetCompleted(u)
  <2>1. /\ status'[u] \in {status[u], "COMPLETED"}
        /\ ~Exists(u) => status'[u] = status[u]
        /\ UNCHANGED uploaded /\ faults'["redelivery"] = faults["redelivery"]
    BY <1>8, StatusLoggedEffect DEF SetCompleted, Status
  <2>2. QED
    BY <1>8, <2>1, MoveStep, CountsAreNat DEF SetCompleted, history, Status
<1>9. CASE Ack(u)
  <2>1. PICK p \in {"ack_ok", "ack_failed"} : Leave(u, p)
    BY <1>9 DEF Ack
  <2>2. QED
    BY <1>9, <2>1, LeaveStep, CountsAreNat DEF Ack, session, history
<1>10. CASE ConsumerCrash(u)
  <2>1. /\ faults'["redelivery"] = faults["redelivery"] + 1
        /\ faults["redelivery"] \in Nat
    BY <1>10, FaultCounts, CountsAreNat DEF ConsumerCrash, FaultKind
  <2>2. ConsumerPlace \subseteq Pipeline /\ "compose_ok" \notin ConsumerPlace
        /\ "compose_failed" \notin ConsumerPlace
    BY DEF Pipeline, ConsumerPlace
  <2>3. ASSUME NEW p \in ConsumerPlace, NEW q \in {"compose_ok", "compose_failed"},
               Move(u, p, q)
        PROVE  UploadInv(u)'
    BY <1>10, <2>1, <2>2, <2>3, MoveStep DEF ConsumerCrash, session, history
  <2>4. "set_failed" \in ConsumerPlace /\ "ack_failed" \in ConsumerPlace
    BY DEF ConsumerPlace
  <2>5. QED
    BY <1>10, <2>3, <2>4 DEF ConsumerCrash
<1>11. QED
  BY <1>1, <1>2, <1>3, <1>4, <1>5, <1>6, <1>7, <1>8, <1>9, <1>10
  DEF ConsumerStep

(* A step beside the pipeline: no message of it moves, the counter and the *)
(* confirmed stores do not go down, and the status is not completed.       *)
LEMMA BesideStep ==
  ASSUME TypeOK, TypeOK', NEW u \in Uploads, UploadInv(u), status'[u] # "none",
         \A r \in Pipeline : at'[u][r] = at[u][r],
         created'[u] = created[u], completes'[u] = completes[u],
         stores'[u] >= stores[u],
         faults'["redelivery"] >= faults["redelivery"],
         Exists(u)' => /\ uploaded'[u] >= uploaded[u] /\ Exists(u)
                       /\ status'[u] \in {status[u], "UPLOADING"}
                       /\ NeverOverstates(u)'
  PROVE  UploadInv(u)'
<1>1. /\ \A r \in Pipeline : at[u][r] \in Nat
      /\ stores'[u] \in Nat /\ uploaded'[u] \in Nat
      /\ faults'["redelivery"] \in Nat /\ TotalChunks \in Nat
  BY PipelineMembers, TotalChunksAssumption DEF TypeOK, FaultKind
<1>2. UntouchedBeforeInit(u)'
  BY DEF UntouchedBeforeInit
<1>3. NeverOverstates(u)'
  BY DEF NeverOverstates
<1>4. RequestedWhenCounted(u)'
  <2>1. PipelineQuiet(u)' <=> PipelineQuiet(u)
    BY DEF PipelineQuiet
  <2>2. (~PipelineQuiet(u) => stores'[u] >= TotalChunks)
    BY <1>1, CountsAreNat DEF UploadInv, RequestedWhenCounted
  <2>3. ASSUME Exists(u)', \/ ~PipelineQuiet(u)
                           \/ status'[u] \in {"PROCESSING", "COMPLETED", "FAILED"}
        PROVE  uploaded'[u] >= TotalChunks
    BY <1>1, <2>3, CountsAreNat DEF UploadInv, RequestedWhenCounted
  <2>4. QED
    BY <2>1, <2>2, <2>3 DEF RequestedWhenCounted
<1>5. ObjectBeforeCompleted(u)'
  BY PipelineMembers DEF UploadInv, ObjectBeforeCompleted, Exists, Status
<1>6. ObjectBound(u)'
  BY <1>1, PipelineMembers, CountsAreNat DEF UploadInv, ObjectBound
<1>7. QED
  BY <1>2, <1>3, <1>4, <1>5, <1>6 DEF UploadInv

(* The client's steps. *)
LEMMA ClientKeepsInv ==
  ASSUME TypeOK, TypeOK', NEW u \in Uploads, UploadInv(u), ClientStep(u)
  PROVE  UploadInv(u)'
<1> USE PipelineMembers, CountsAreNat, PlaceMembers
<1>1. CASE InitChunkedUpload(u)
  <2>1. /\ status[u] = "none" /\ status'[u] = "INIT" /\ uploaded'[u] = 0
        /\ UNCHANGED <<at, storing, created, stores, completes, faults>>
    BY <1>1 DEF InitChunkedUpload, history, TypeOK
  <2>2. /\ \A p \in Place : at[u][p] = 0
        /\ ObjectBeforeCompleted(u) /\ ObjectBound(u)
    BY <2>1 DEF UploadInv, UntouchedBeforeInit
  <2>3. PipelineQuiet(u)'
    BY <2>1, <2>2 DEF PipelineQuiet
  <2>4. /\ UntouchedBeforeInit(u)' /\ NeverOverstates(u)'
        /\ RequestedWhenCounted(u)' /\ ObjectBeforeCompleted(u)'
    BY <2>1, <2>2, <2>3 DEF UntouchedBeforeInit, NeverOverstates,
       RequestedWhenCounted, ObjectBeforeCompleted
  <2>5. ObjectBound(u)'
    BY <2>1, <2>2 DEF ObjectBound
  <2>6. QED
    BY <2>4, <2>5 DEF UploadInv
<1>2. ASSUME NEW c \in ChunkIndex, UploadChunk(u, c)
      PROVE  UploadInv(u)'
  <2>1. /\ UNCHANGED <<status, uploaded, at, created, stores, completes, faults>>
        /\ status[u] \in {"INIT", "UPLOADING"}
    BY <1>2 DEF UploadChunk, session, Active
  <2>2. Exists(u)' => Exists(u) /\ NeverOverstates(u)'
    BY <2>1 DEF Exists, UploadInv, NeverOverstates
  <2>3. QED
    BY <2>1, <2>2, BesideStep
<1>3. CASE CompleteChunkedUpload(u)
  <2>1. /\ UNCHANGED <<status, uploaded, storing, created, stores, faults>>
        /\ uploaded[u] = TotalChunks /\ status[u] \in {"INIT", "UPLOADING"}
        /\ completes'[u] = completes[u] + 1
    BY <1>3 DEF CompleteChunkedUpload, session, Active, TypeOK
  <2>2. /\ at'[u]["mark"] = at[u]["mark"] + 1
        /\ \A r \in Place : r # "mark" => at'[u][r] = at[u][r]
    BY <1>3, EnterCounts DEF CompleteChunkedUpload
  <2>3. Exists(u) /\ Exists(u)' /\ uploaded[u] <= stores[u]
    BY <2>1 DEF Exists, Status, UploadInv, NeverOverstates
  <2>4. UntouchedBeforeInit(u)' /\ NeverOverstates(u)'
    BY <2>1, <2>2, <2>3 DEF UploadInv, UntouchedBeforeInit, NeverOverstates
  <2>5. RequestedWhenCounted(u)'
    BY <2>1, <2>3, TotalChunksAssumption DEF RequestedWhenCounted
  <2>6. ObjectBeforeCompleted(u)'
    BY <2>1, <2>2 DEF UploadInv, ObjectBeforeCompleted
  <2>7. ObjectBound(u)'
    BY <2>1, <2>2 DEF UploadInv, ObjectBound
  <2>8. QED
    BY <2>4, <2>5, <2>6, <2>7 DEF UploadInv
<1>4. CASE AbortChunkedUpload(u)
  <2>1. /\ UNCHANGED <<status, uploaded, created, stores, completes, faults>>
        /\ Exists(u)
    BY <1>4 DEF AbortChunkedUpload, session, history
  <2>2. \A r \in Place : r \notin {"delete", "cleanup"} => at'[u][r] = at[u][r]
    BY <1>4 DEF AbortChunkedUpload, TypeOK
  <2>3. NeverOverstates(u)'
    BY <2>1, <2>2 DEF UploadInv, NeverOverstates, Exists
  <2>4. status'[u] # "none"
    BY <2>1 DEF Exists, Status
  <2>5. QED
    BY <2>1, <2>2, <2>3, <2>4, BesideStep
<1>5. QED
  BY <1>1, <1>2, <1>3, <1>4 DEF ClientStep

(* The steps of the accepted requests. *)
LEMMA HttpKeepsInv ==
  ASSUME TypeOK, TypeOK', NEW u \in Uploads, UploadInv(u), HttpStep(u)
  PROVE  UploadInv(u)'
<1> USE PipelineMembers, CountsAreNat, PlaceMembers
<1>1. ASSUME NEW c \in ChunkIndex, StoreChunk(u, c)
      PROVE  UploadInv(u)'
  <2>1. /\ UNCHANGED <<status, uploaded, created, completes>>
        /\ storing[u][c] > 0
    BY <1>1 DEF StoreChunk, session
  <2>2. \/ /\ Enter(u, "increment") /\ NoFault
           /\ stores' = [stores EXCEPT ![u] = @ + 1]
        \/ Fault("store") /\ UNCHANGED <<at, stores>>
    BY <1>1 DEF StoreChunk
  <2>3. /\ \A r \in Place : r # "increment" => at'[u][r] = at[u][r]
        /\ stores'[u] >= stores[u]
        /\ at'[u]["increment"] - at[u]["increment"] = stores'[u] - stores[u]
    <3>1. CASE /\ Enter(u, "increment")
               /\ stores' = [stores EXCEPT ![u] = @ + 1]
      <4>1. stores'[u] = stores[u] + 1
        BY <3>1 DEF TypeOK
      <4>2. QED
        BY <3>1, <4>1, EnterCounts
    <3>2. CASE UNCHANGED <<at, stores>>
      BY <3>2
    <3>3. QED
      BY <2>2, <3>1, <3>2
  <2>4. faults'["redelivery"] >= faults["redelivery"]
    BY <2>2, RedeliveriesGrow DEF FaultKind
  <2>5. status[u] # "none"
    BY <2>1 DEF UploadInv, UntouchedBeforeInit, TypeOK
  <2>6. at'[u]["increment"] \in Nat /\ stores'[u] \in Nat
    BY DEF TypeOK
  <2>7. Exists(u)' => Exists(u) /\ NeverOverstates(u)'
    BY <2>1, <2>3, <2>6 DEF Exists, UploadInv, NeverOverstates
  <2>8. QED
    BY <2>1, <2>3, <2>4, <2>5, <2>7, BesideStep
<1>2. CASE CountChunk(u)
  <2>1. /\ UNCHANGED <<created, stores, completes>>
        /\ Leave(u, "increment")
    BY <1>2 DEF CountChunk, history
  <2>2. /\ at[u]["increment"] > 0
        /\ at'[u]["increment"] = at[u]["increment"] - 1
        /\ \A r \in Place : r # "increment" => at'[u][r] = at[u][r]
    BY <2>1, LeaveCounts
  <2>3. status[u] # "none"
    BY <2>2 DEF UploadInv, UntouchedBeforeInit
  <2>4. faults'["redelivery"] >= faults["redelivery"]
    BY <1>2, RedeliveriesGrow DEF CountChunk, FaultKind
  <2>5. \/ Exists(u) /\ status'[u] = "UPLOADING" /\ uploaded'[u] = uploaded[u] + 1
        \/ status'[u] = status[u] /\ uploaded'[u] = uploaded[u]
    BY <1>2 DEF CountChunk, IncrementUploadedChunks, session, TypeOK
  <2>6. Exists(u)' => Exists(u) /\ NeverOverstates(u)'
    BY <2>1, <2>2, <2>5 DEF Exists, UploadInv, NeverOverstates
  <2>7. status'[u] # "none"
    BY <2>3, <2>5
  <2>8. QED
    BY <2>1, <2>2, <2>4, <2>5, <2>6, <2>7, BesideStep
<1>3. CASE MarkProcessing(u)
  <2>1. /\ status'[u] \in {status[u], "PROCESSING"}
        /\ ~Exists(u) => status'[u] = status[u]
        /\ UNCHANGED uploaded /\ faults'["redelivery"] = faults["redelivery"]
    BY <1>3, StatusLoggedEffect DEF MarkProcessing, Status
  <2>2. QED
    BY <1>3, <2>1, MoveStep DEF MarkProcessing, history, Status
<1>4. CASE PublishChunkComplete(u)
  <2>1. /\ UNCHANGED <<status, uploaded, storing, created, stores, completes>>
        /\ \/ Move(u, "publish", "chunk_complete")
           \/ Move(u, "publish", "revert")
           \/ Leave(u, "publish")
    BY <1>4 DEF PublishChunkComplete, session, history
  <2>2. faults'["redelivery"] >= faults["redelivery"]
    BY <1>4, RedeliveriesGrow DEF PublishChunkComplete, FaultKind
  <2>3. CASE Move(u, "publish", "chunk_complete") \/ Move(u, "publish", "revert")
    BY <2>1, <2>2, <2>3, MoveStep
  <2>4. CASE Leave(u, "publish")
    BY <2>1, <2>2, <2>4, LeaveStep
  <2>5. QED
    BY <2>1, <2>3, <2>4
<1>5. CASE RevertStatus(u)
  <2>1. /\ status'[u] \in {status[u], "UPLOADING"}
        /\ ~Exists(u) => status'[u] = status[u]
        /\ UNCHANGED uploaded /\ faults'["redelivery"] = faults["redelivery"]
    BY <1>5, StatusLoggedEffect DEF RevertStatus, Status
  <2>2. QED
    BY <1>5, <2>1, LeaveStep DEF RevertStatus, history, Status
<1>6. CASE DeleteSession(u) \/ CleanupChunks(u)
  <2>1. /\ UNCHANGED <<storing, created, stores, completes>>
        /\ Leave(u, "delete") \/ Leave(u, "cleanup")
    BY <1>6 DEF DeleteSession, CleanupChunks, history
  <2>2. /\ \E p \in {"delete", "cleanup"} : at[u][p] > 0
        /\ \A r \in Place : r \notin {"delete", "cleanup"}
                            => at'[u][r] = at[u][r]
    BY <2>1, LeaveCounts
  <2>3. faults'["redelivery"] >= faults["redelivery"]
    BY <1>6, RedeliveriesGrow DEF DeleteSession, CleanupChunks, FaultKind
  <2>4. status[u] # "none"
    BY <2>2 DEF UploadInv, UntouchedBeforeInit
  <2>5. \/ status'[u] = "gone"
        \/ status'[u] = status[u] /\ uploaded'[u] = uploaded[u]
    BY <1>6 DEF DeleteSession, DeleteRows, CleanupChunks, session, TypeOK
  <2>6. Exists(u)' => /\ Exists(u) /\ NeverOverstates(u)'
                      /\ status'[u] = status[u] /\ uploaded'[u] = uploaded[u]
    BY <2>1, <2>2, <2>5 DEF Exists, Status, UploadInv, NeverOverstates
  <2>7. QED
    BY <2>1, <2>2, <2>3, <2>4, <2>5, <2>6, BesideStep
<1>7. QED
  BY <1>1, <1>2, <1>3, <1>4, <1>5, <1>6 DEF HttpStep

(* Crashes of a replica, the clock, and the deletion of the bucket. *)
LEMMA EnvironmentKeepsInv ==
  ASSUME TypeOK, TypeOK', NEW u \in Uploads, UploadInv(u),
         HttpCrash(u) \/ Expire(u) \/ DeleteBucket
  PROVE  UploadInv(u)'
<1> USE PipelineMembers, CountsAreNat, PlaceMembers
<1>1. CASE HttpCrash(u)
  <2>1. /\ UNCHANGED <<status, uploaded, created, stores, completes>>
        /\ faults'["redelivery"] >= faults["redelivery"]
    BY <1>1, RedeliveriesGrow DEF HttpCrash, session, history, FaultKind
  <2>2. ASSUME NEW p \in HttpPlace, Leave(u, p), UNCHANGED storing
        PROVE  UploadInv(u)'
    <3>1. CASE p \in Pipeline
      BY <2>1, <2>2, <3>1, LeaveStep
    <3>2. CASE p \notin Pipeline
      <4>1. /\ at[u][p] > 0 /\ at'[u][p] = at[u][p] - 1 /\ p \in Place
            /\ \A r \in Place : r # p => at'[u][r] = at[u][r]
        BY <2>2, LeaveCounts DEF Place
      <4>2. at'[u]["increment"] <= at[u]["increment"]
        BY <4>1
      <4>3. status[u] # "none"
        BY <4>1 DEF UploadInv, UntouchedBeforeInit
      <4>4. at'[u]["increment"] \in Nat
        BY DEF TypeOK
      <4>5. Exists(u)' => Exists(u) /\ NeverOverstates(u)'
        BY <2>1, <4>2, <4>4 DEF Exists, UploadInv, NeverOverstates
      <4>6. QED
        BY <2>1, <3>2, <4>1, <4>3, <4>5, BesideStep
    <3>3. QED
      BY <3>1, <3>2
  <2>3. ASSUME NEW c \in ChunkIndex, storing[u][c] > 0, UNCHANGED at
        PROVE  UploadInv(u)'
    <3>1. status[u] # "none"
      BY <2>3 DEF UploadInv, UntouchedBeforeInit, TypeOK
    <3>2. Exists(u)' => Exists(u) /\ NeverOverstates(u)'
      BY <2>1, <2>3 DEF Exists, UploadInv, NeverOverstates
    <3>3. QED
      BY <2>1, <2>3, <3>1, <3>2, BesideStep
  <2>4. QED
    BY <1>1, <2>2, <2>3 DEF HttpCrash
<1>2. CASE Expire(u)
  BY <1>2, Frame DEF Expire, session, history
<1>3. CASE DeleteBucket
  <2>1. /\ UNCHANGED <<at, storing, created, stores, completes, faults>>
        /\ \/ ~Exists(u) /\ status'[u] = status[u] /\ uploaded'[u] = uploaded[u]
           \/ Exists(u) /\ status'[u] = "gone"
    BY <1>3 DEF DeleteBucket, DeleteRows, history
  <2>2. CASE ~Exists(u) /\ status'[u] = status[u] /\ uploaded'[u] = uploaded[u]
    BY <2>1, <2>2, Frame
  <2>3. CASE Exists(u) /\ status'[u] = "gone"
    <3>1. ~Exists(u)'
      BY <2>3 DEF Exists, Status
    <3>2. QED
      BY <2>1, <2>3, <3>1, BesideStep
  <2>4. QED
    BY <2>1, <2>2, <2>3
<1>4. QED
  BY <1>1, <1>2, <1>3

(* The invariant holds in every reachable state. *)
THEOREM IndInvariant == Spec => []IndInv
<1>1. IndInv /\ [Next]_vars => IndInv'
  <2> SUFFICES ASSUME IndInv, [Next]_vars, TypeOK' PROVE IndInv'
    <3>1. IndInv /\ [Next]_vars => TypeOK'
      BY TypeStep DEF IndInv
    <3>2. QED
      BY <3>1
  <2> SUFFICES ASSUME NEW v \in Uploads PROVE UploadInv(v)'
    BY DEF IndInv
  <2>1. TypeOK /\ UploadInv(v)
    BY DEF IndInv
  <2>2. CASE UNCHANGED vars
    BY <2>1, <2>2, Frame, CountsAreNat DEF vars
  <2>3. ASSUME NEW u \in Uploads,
               \/ ClientStep(u) \/ HttpStep(u) \/ Compose(u) \/ ConsumerStep(u)
               \/ HttpCrash(u) \/ ConsumerCrash(u) \/ Expire(u)
        PROVE  UploadInv(v)'
    <3>1. CASE u = v
      BY <2>1, <2>3, <3>1, ClientKeepsInv, HttpKeepsInv, ConsumerKeepsInv,
         EnvironmentKeepsInv
    <3>2. CASE u # v
      BY <2>1, <2>3, <3>2, OthersUntouched
    <3>3. QED
      BY <3>1, <3>2
  <2>4. CASE DeleteBucket
    BY <2>1, <2>4, EnvironmentKeepsInv
  <2>5. QED
    BY <2>2, <2>3, <2>4 DEF Next
<1>2. QED
  BY InitInd, <1>1, PTL DEF Spec

(* The counter of CompleteChunkedUpload never runs ahead of the chunks the *)
(* upload-service confirmed.                                               *)
THEOREM CounterSafe == Spec => []CounterNeverOverstates
<1>1. IndInv => CounterNeverOverstates
  BY DEF IndInv, UploadInv, CounterNeverOverstates
<1>2. QED
  BY IndInvariant, <1>1, PTL

(* A message to compose, or a status past UPLOADING, only ever belongs to  *)
(* an upload with as many confirmed stores as it has chunks.               *)
THEOREM ComposeCounted == Spec => []ComposeOnlyWhenCounted
<1>1. IndInv => ComposeOnlyWhenCounted
  BY DEF IndInv, UploadInv, ComposeOnlyWhenCounted
<1>2. QED
  BY IndInvariant, <1>1, PTL

(* COMPLETED is never shown for an upload without an object. *)
THEOREM CompletedSafe == Spec => []CompletedHasObject
<1>1. IndInv => CompletedHasObject
  BY DEF IndInv, UploadInv, ObjectBeforeCompleted, CompletedHasObject
<1>2. QED
  BY IndInvariant, <1>1, PTL

(* An upload never ends as more objects than it had accepted Complete      *)
(* requests and redelivered messages.                                      *)
THEOREM ObjectsSafe == Spec => []ObjectsBounded
<1>1. IndInv => ObjectsBounded
  BY DEF IndInv, UploadInv, ObjectsBounded
<1>2. QED
  BY IndInvariant, <1>1, PTL

----------------------------------------------------------------------------
(* Uploads none of whose chunks was sent twice.                            *)

(* The clean-up of an abort looks where no chunk is. *)
LEMMA CleanupFindsNothing ==
  ASSUME NEW u \in Uploads, CleanupChunks(u)
  PROVE  stored' = stored
<1>1. Len(TempLocation(u)[2]) = 2 /\ Len(ChunkLocation(u)[2]) = 1
  BY DEF TempLocation, ChunkLocation
<1>2. TempLocation(u) # ChunkLocation(u)
  BY <1>1
<1>3. QED
  BY <1>2 DEF CleanupChunks

(* The chunk counters change in three places only; the clean-up of an      *)
(* abort is not one, since it works on another location.                   *)
LEMMA ChunkVariables ==
  ASSUME TypeOK, [Next]_vars
  PROVE  \/ UNCHANGED <<sends, stores, stored, storing>>
         \/ \E u \in Uploads, c \in ChunkIndex :
              UploadChunk(u, c) \/ StoreChunk(u, c)
         \/ \E u \in Uploads : HttpCrash(u)
<1> DEFINE Same == UNCHANGED <<sends, stores, stored, storing>>
<1> USE DEF history
<1>1. CASE UNCHANGED vars
  BY <1>1 DEF vars
<1>2. CASE DeleteBucket
  BY <1>2 DEF DeleteBucket
<1>3. ASSUME NEW u \in Uploads, ClientStep(u)
      PROVE  Same \/ \E c \in ChunkIndex : UploadChunk(u, c)
  BY <1>3 DEF ClientStep, InitChunkedUpload, CompleteChunkedUpload,
     AbortChunkedUpload
<1>4. ASSUME NEW u \in Uploads, HttpStep(u)
      PROVE  Same \/ \E c \in ChunkIndex : StoreChunk(u, c)
  <2>1. CASE CleanupChunks(u)
    BY <2>1, CleanupFindsNothing DEF CleanupChunks
  <2>2. CASE \/ CountChunk(u) \/ MarkProcessing(u) \/ PublishChunkComplete(u)
             \/ RevertStatus(u) \/ DeleteSession(u)
    BY <2>2 DEF CountChunk, MarkProcessing, PublishChunkComplete, RevertStatus,
       DeleteSession
  <2>3. QED
    BY <1>4, <2>1, <2>2 DEF HttpStep
<1>5. ASSUME NEW u \in Uploads,
             Compose(u) \/ ConsumerStep(u) \/ ConsumerCrash(u) \/ Expire(u)
      PROVE  Same
  BY <1>5 DEF Compose, ConsumerCrash, Expire, ConsumerStep, ReceiveFailed,
     SetFailed, ReceiveCompleted, RecordHash, CreateObject, RequeueFailed,
     SetCompleted, Ack
<1>6. QED
  BY <1>1, <1>2, <1>3, <1>4, <1>5 DEF Next

(* A set of chunks is finite, and has as many members as the file has      *)
(* chunks only when it is all of them.                                     *)
LEMMA ChunkSets ==
  ASSUME NEW S \in SUBSET ChunkIndex
  PROVE  /\ IsFiniteSet(S) /\ Cardinality(S) \in Nat
         /\ Cardinality(S) <= TotalChunks
         /\ Cardinality(S) = TotalChunks => S = ChunkIndex
<1>1. IsFiniteSet(ChunkIndex) /\ Cardinality(ChunkIndex) = TotalChunks
  BY FS_Interval, TotalChunksAssumption DEF ChunkIndex
<1>2. QED
  BY <1>1, FS_Subset, FS_CardinalityType

(* What was sent stays sent. *)
LEMMA SendsGrow ==
  ASSUME TypeOK, [Next]_vars, NEW v \in Uploads, NEW c \in ChunkIndex
  PROVE  sends[v][c] <= sends'[v][c]
<1>1. sends \in [Uploads -> [ChunkIndex -> Nat]]
  BY DEF TypeOK
<1>2. CASE UNCHANGED sends
  BY <1>1, <1>2
<1>3. ASSUME NEW u \in Uploads, NEW d \in ChunkIndex, UploadChunk(u, d)
      PROVE  sends[v][c] <= sends'[v][c]
  <2>1. sends' = [sends EXCEPT ![u][d] = @ + 1]
    BY <1>3 DEF UploadChunk
  <2>2. sends'[v][c] \in {sends[v][c], sends[v][c] + 1}
    BY <1>1, <2>1
  <2>3. QED
    BY <1>1, <2>2
<1>4. ASSUME NEW u \in Uploads,
             (\E d \in ChunkIndex : StoreChunk(u, d)) \/ HttpCrash(u)
      PROVE  UNCHANGED sends
  BY <1>4 DEF StoreChunk, HttpCrash, history
<1>5. QED
  BY <1>2, <1>3, <1>4, ChunkVariables

LEMMA SentOnceBefore ==
  ASSUME TypeOK, TypeOK', [Next]_vars, NEW v \in Uploads, SentOnce(v)'
  PROVE  SentOnce(v)
<1> SUFFICES ASSUME NEW c \in ChunkIndex PROVE sends[v][c] <= 1
  BY DEF SentOnce
<1>1. sends'[v][c] <= 1 /\ sends[v][c] \in Nat /\ sends'[v][c] \in Nat
  BY DEF SentOnce, TypeOK
<1>2. QED
  BY <1>1, SendsGrow

(* A step keeps each confirmed store on a chunk of its own. *)
LEMMA StoresStayDistinct ==
  ASSUME TypeOK, TypeOK', [Next]_vars, NEW v \in Uploads, SentOnce(v)',
         StoresAreDistinct(v)
  PROVE  StoresAreDistinct(v)'
<1>1. /\ stores[v] \in Nat /\ stored[v] \in SUBSET ChunkIndex
      /\ storing[v] \in [ChunkIndex -> Nat] /\ sends[v] \in [ChunkIndex -> Nat]
      /\ storing'[v] \in [ChunkIndex -> Nat] /\ sends'[v] \in [ChunkIndex -> Nat]
  BY DEF TypeOK
<1>2. CASE /\ stores'[v] = stores[v] /\ stored'[v] = stored[v]
           /\ sends'[v] = sends[v]
           /\ \A c \in ChunkIndex : storing'[v][c] <= storing[v][c]
  BY <1>1, <1>2 DEF StoresAreDistinct
<1>3. CASE UNCHANGED <<sends, stores, stored, storing>>
  BY <1>1, <1>2, <1>3
<1>4. ASSUME NEW u \in Uploads, HttpCrash(u)
      PROVE  StoresAreDistinct(v)'
  <2>1. UNCHANGED <<sends, stores, stored>>
    BY <1>4 DEF HttpCrash, history
  <2>2. CASE UNCHANGED storing
    BY <1>3, <2>1, <2>2
  <2>3. ASSUME NEW c \in ChunkIndex,
               storing' = [storing EXCEPT ![u][c] = @ - 1]
        PROVE  StoresAreDistinct(v)'
    <3>1. \A d \in ChunkIndex :
            \/ storing'[v][d] = storing[v][d]
            \/ storing'[v][d] = storing[v][d] - 1
      BY <2>3 DEF TypeOK
    <3>2. \A d \in ChunkIndex : storing'[v][d] <= storing[v][d]
      BY <1>1, <3>1
    <3>3. QED
      BY <1>2, <2>1, <3>2
  <2>4. QED
    BY <1>4, <2>2, <2>3 DEF HttpCrash
<1>5. ASSUME NEW u \in Uploads, NEW c \in ChunkIndex, UploadChunk(u, c)
      PROVE  StoresAreDistinct(v)'
  <2>1. /\ UNCHANGED <<stores, stored>>
        /\ sends' = [sends EXCEPT ![u][c] = @ + 1]
        /\ storing' = [storing EXCEPT ![u][c] = @ + 1]
    BY <1>5 DEF UploadChunk
  <2>2. CASE u # v
    BY <1>1, <1>2, <2>1, <2>2 DEF TypeOK
  <2>3. CASE u = v
    <3>1. /\ sends'[v][c] = sends[v][c] + 1
          /\ storing'[v][c] = storing[v][c] + 1
          /\ \A d \in ChunkIndex : d # c => /\ sends'[v][d] = sends[v][d]
                                            /\ storing'[v][d] = storing[v][d]
      BY <1>1, <2>1, <2>3 DEF TypeOK
    <3>2. QED
      BY <1>1, <2>1, <3>1 DEF StoresAreDistinct
  <2>4. QED
    BY <2>2, <2>3
<1>6. ASSUME NEW u \in Uploads, NEW c \in ChunkIndex, StoreChunk(u, c)
      PROVE  StoresAreDistinct(v)'
  <2>1. /\ UNCHANGED sends
        /\ storing[u][c] > 0
        /\ storing' = [storing EXCEPT ![u][c] = @ - 1]
        /\ \/ /\ stored' = [stored EXCEPT ![u] = @ \cup {c}]
              /\ stores' = [stores EXCEPT ![u] = @ + 1]
           \/ /\ \E kept \in {stored[u] \cup {c}, stored[u], stored[u] \ {c}} :
                   stored' = [stored EXCEPT ![u] = kept]
              /\ UNCHANGED stores
    BY <1>6 DEF StoreChunk
  <2>2. CASE u # v
    BY <1>1, <1>2, <2>1, <2>2 DEF TypeOK
  <2>3. CASE u = v
    <3>1. /\ storing'[v][c] = storing[v][c] - 1
          /\ \A d \in ChunkIndex : d # c => storing'[v][d] = storing[v][d]
      BY <1>1, <2>1, <2>3 DEF TypeOK
    <3>2. c \notin stored[v] /\ storing[v][c] = 1
      <4>1. /\ storing[v][c] + (IF c \in stored[v] THEN 1 ELSE 0) <= sends[v][c]
            /\ sends[v][c] <= 1 /\ storing[v][c] > 0
        BY <2>1, <2>3, SentOnceBefore DEF StoresAreDistinct, SentOnce
      <4>2. QED
        BY <1>1, <4>1
    <3>3. Cardinality(stored[v] \cup {c}) = Cardinality(stored[v]) + 1
      BY <1>1, <3>2, FS_AddElement, ChunkSets
    <3>4. /\ stored'[v] \in {stored[v], stored[v] \cup {c}}
          /\ stores'[v] <= Cardinality(stored'[v])
      <4>1. stores[v] <= Cardinality(stored[v]) /\ Cardinality(stored[v]) \in Nat
        BY <1>1, ChunkSets DEF StoresAreDistinct
      <4>2. \/ stored'[v] = stored[v] \cup {c} /\ stores'[v] = stores[v] + 1
            \/ stored'[v] = stored[v] \cup {c} /\ stores'[v] = stores[v]
            \/ stored'[v] = stored[v] /\ stores'[v] = stores[v]
        <5>1. stored[v] \ {c} = stored[v]
          BY <3>2
        <5>2. stored \in [Uploads -> SUBSET ChunkIndex] /\ stores \in [Uploads -> Nat]
          BY <1>1 DEF TypeOK
        <5>3. CASE /\ stored' = [stored EXCEPT ![v] = @ \cup {c}]
                   /\ stores' = [stores EXCEPT ![v] = @ + 1]
          BY ONLY <5>2, <5>3, v \in Uploads
        <5>4. ASSUME NEW kept \in {stored[v] \cup {c}, stored[v], stored[v] \ {c}},
                     stored' = [stored EXCEPT ![v] = kept], UNCHANGED stores
              PROVE  \/ stored'[v] = stored[v] \cup {c} /\ stores'[v] = stores[v]
                     \/ stored'[v] = stored[v] /\ stores'[v] = stores[v]
          <6>1. stored'[v] = kept /\ stores'[v] = stores[v]
            BY ONLY <5>2, <5>4, v \in Uploads
          <6>2. QED
            BY <6>1, <5>1
        <5>5. QED
          BY <2>1, <2>3, <5>3, <5>4
      <4>3. CASE stored'[v] = stored[v] /\ stores'[v] = stores[v]
        BY <4>1, <4>3
      <4>4. CASE /\ stored'[v] = stored[v] \cup {c}
                 /\ stores'[v] \in {stores[v], stores[v] + 1}
        <5>1. stores'[v] <= Cardinality(stored[v]) + 1
          BY <1>1, <4>1, <4>4
        <5>2. QED
          BY <3>3, <4>4, <5>1
      <4>5. QED
        BY <4>2, <4>3, <4>4
    <3>5. \A d \in ChunkIndex :
            storing'[v][d] + (IF d \in stored'[v] THEN 1 ELSE 0) <= sends'[v][d]
      <4> SUFFICES ASSUME NEW d \in ChunkIndex
                   PROVE  storing'[v][d] + (IF d \in stored'[v] THEN 1 ELSE 0)
                            <= sends'[v][d]
        OBVIOUS
      <4>1. /\ sends'[v][d] = sends[v][d] /\ sends[v][d] \in Nat
            /\ storing[v][d] \in Nat
            /\ storing[v][d] + (IF d \in stored[v] THEN 1 ELSE 0) <= sends[v][d]
        BY <1>1, <2>1 DEF StoresAreDistinct
      <4>2. CASE d = c
        BY <3>1, <3>2, <3>4, <4>1, <4>2
      <4>3. CASE d # c
        <5>1. d \in stored'[v] <=> d \in stored[v]
          BY <3>4, <4>3
        <5>2. QED
          BY <3>1, <4>1, <4>3, <5>1
      <4>4. QED
        BY <4>2, <4>3
    <3>6. QED
      BY <2>1, <3>4, <3>5 DEF StoresAreDistinct
  <2>4. QED
    BY <2>2, <2>3
<1>7. QED
  BY <1>3, <1>4, <1>5, <1>6, ChunkVariables

LEMMA SingleSendInvariant == Spec => []SingleSendInv
<1>1. Init => SingleSendInv
  <2> SUFFICES ASSUME Init, NEW u \in Uploads PROVE StoresAreDistinct(u)
    BY DEF SingleSendInv
  <2>1. /\ stores[u] = 0 /\ stored[u] = {}
        /\ \A c \in ChunkIndex : storing[u][c] = 0 /\ sends[u][c] = 0
    BY DEF Init
  <2>2. QED
    BY <2>1, FS_EmptySet DEF StoresAreDistinct
<1>2. TypeOK /\ TypeOK' /\ SingleSendInv /\ [Next]_vars => SingleSendInv'
  <2> SUFFICES ASSUME TypeOK, TypeOK', SingleSendInv, [Next]_vars,
                      NEW v \in Uploads, SentOnce(v)'
               PROVE  StoresAreDistinct(v)'
    BY DEF SingleSendInv
  <2>1. QED
    BY StoresStayDistinct, SentOnceBefore DEF SingleSendInv
<1>3. QED
  BY <1>1, <1>2, TypeCorrect, PTL DEF Spec

(* What was handed over is whole, and nothing is being stored to it.       *)
LEMMA HandedOverIsWhole ==
  ASSUME IndInv, SingleSendInv, NEW u \in Uploads, SentOnce(u),
         ~PipelineQuiet(u) \/ status[u] \in {"PROCESSING", "COMPLETED", "FAILED"}
  PROVE  stored[u] = ChunkIndex /\ \A c \in ChunkIndex : storing[u][c] = 0
<1>1. TypeOK /\ UploadInv(u) /\ StoresAreDistinct(u)
  BY DEF IndInv, SingleSendInv
<1>2. /\ stored[u] \in SUBSET ChunkIndex /\ stores[u] \in Nat
      /\ uploaded[u] \in Nat /\ at[u]["increment"] \in Nat
      /\ \A c \in ChunkIndex : storing[u][c] \in Nat /\ sends[u][c] \in Nat
  BY <1>1, CountsAreNat DEF TypeOK
<1>3. stores[u] >= TotalChunks
  <2>1. CASE ~PipelineQuiet(u)
    BY <1>1, <2>1 DEF UploadInv, RequestedWhenCounted
  <2>2. CASE status[u] \in {"PROCESSING", "COMPLETED", "FAILED"}
    <3>1. uploaded[u] >= TotalChunks /\ uploaded[u] + at[u]["increment"] <= stores[u]
      BY <1>1, <2>2 DEF UploadInv, RequestedWhenCounted, NeverOverstates,
         Exists, Status
    <3>2. QED
      BY <1>2, <3>1, TotalChunksAssumption
  <2>3. QED
    BY <2>1, <2>2
<1>4. stored[u] = ChunkIndex
  BY <1>1, <1>2, <1>3, ChunkSets, TotalChunksAssumption DEF StoresAreDistinct
<1>5. ASSUME NEW c \in ChunkIndex PROVE storing[u][c] = 0
  <2>1. storing[u][c] + 1 <= sends[u][c] /\ sends[u][c] <= 1
    BY <1>1, <1>4 DEF StoresAreDistinct, SentOnce
  <2>2. QED
    BY <1>2, <2>1
<1>6. QED
  BY <1>4, <1>5

(* With a client that sends every chunk once, what is on its way to the    *)
(* upload-service or back always belongs to a completely stored file: then *)
(* the comparison of two counters does verify the chunks.                  *)
THEOREM ComposeComplete == MaxSends = 1 => (Spec => []ComposeHasAllChunks)
<1> SUFFICES ASSUME MaxSends = 1 PROVE Spec => []ComposeHasAllChunks
  OBVIOUS
<1> DEFINE AllOnce == \A u \in Uploads : SentOnce(u)
<1>1. Init => AllOnce
  BY DEF Init, SentOnce
<1>2. TypeOK /\ AllOnce /\ [Next]_vars => AllOnce'
  <2> SUFFICES ASSUME TypeOK, AllOnce, [Next]_vars, NEW v \in Uploads,
                      NEW c \in ChunkIndex
               PROVE  sends'[v][c] <= 1
    BY DEF SentOnce
  <2>1. sends \in [Uploads -> [ChunkIndex -> Nat]] /\ sends[v][c] <= 1
    BY DEF TypeOK, SentOnce
  <2>2. ASSUME NEW u \in Uploads, NEW d \in ChunkIndex, UploadChunk(u, d)
        PROVE  sends'[v][c] <= 1
    <3>1. sends[u][d] < 1 /\ sends' = [sends EXCEPT ![u][d] = @ + 1]
      BY <2>2 DEF UploadChunk
    <3>2. QED
      BY <2>1, <3>1
  <2>3. ASSUME NEW u \in Uploads,
               (\E d \in ChunkIndex : StoreChunk(u, d)) \/ HttpCrash(u)
        PROVE  UNCHANGED sends
    BY <2>3 DEF StoreChunk, HttpCrash, history
  <2>4. QED
    BY <2>1, <2>2, <2>3, ChunkVariables
<1>3. IndInv /\ SingleSendInv /\ AllOnce => ComposeHasAllChunks
  BY HandedOverIsWhole DEF ComposeHasAllChunks
<1>4. QED
  BY <1>1, <1>2, <1>3, TypeCorrect, IndInvariant, SingleSendInvariant, PTL
     DEF Spec

(* Two statements write UPLOADING: the increment and the revert. *)
LEMMA WritersOfUploading ==
  ASSUME TypeOK, [Next]_vars, NEW v \in Uploads,
         status[v] # "UPLOADING", status'[v] = "UPLOADING"
  PROVE  CountChunk(v) \/ RevertStatus(v)
<1>1. ~UNCHANGED status
  OBVIOUS
<1>2. ~DeleteBucket
  <2>1. DeleteBucket => status'[v] \in {status[v], "gone"}
    BY DEF DeleteBucket, DeleteRows
  <2>2. QED
    BY <2>1
<1>3. ASSUME NEW u \in Uploads, NEW s \in Status, StatusLogged(u, s)
      PROVE  s = "UPLOADING" /\ u = v
  BY <1>3, StatusLoggedEffect
<1>4. ASSUME NEW u \in Uploads, ClientStep(u)
      PROVE  FALSE
  <2>1. InitChunkedUpload(u) => status'[v] \in {status[v], "INIT"}
    BY DEF InitChunkedUpload, TypeOK
  <2>2. QED
    BY <1>1, <1>4, <2>1 DEF ClientStep, UploadChunk, CompleteChunkedUpload,
       AbortChunkedUpload, session
<1>5. ASSUME NEW u \in Uploads, HttpStep(u)
      PROVE  CountChunk(v) \/ RevertStatus(v)
  <2>1. CASE CountChunk(u)
    <3>1. status'[v] = status[v] \/ u = v
      BY <2>1 DEF CountChunk, IncrementUploadedChunks, session, TypeOK
    <3>2. QED
      BY <2>1, <3>1
  <2>2. CASE MarkProcessing(u)
    BY <1>3, <2>2 DEF MarkProcessing, Status
  <2>3. CASE RevertStatus(u)
    BY <1>3, <2>3 DEF RevertStatus, Status
  <2>4. CASE DeleteSession(u)
    <3>1. status'[v] \in {status[v], "gone"}
      BY <2>4 DEF DeleteSession, DeleteRows, session
    <3>2. QED
      BY <3>1
  <2>5. CASE \/ \E c \in ChunkIndex : StoreChunk(u, c)
             \/ PublishChunkComplete(u) \/ CleanupChunks(u)
    BY <1>1, <2>5 DEF StoreChunk, PublishChunkComplete, CleanupChunks, session
  <2>6. QED
    BY <1>5, <2>1, <2>2, <2>3, <2>4, <2>5 DEF HttpStep
<1>6. ASSUME NEW u \in Uploads,
             \/ Compose(u) \/ ConsumerStep(u) \/ HttpCrash(u)
             \/ ConsumerCrash(u) \/ Expire(u)
      PROVE  FALSE
  <2>1. CASE SetFailed(u) \/ RequeueFailed(u) \/ SetCompleted(u)
    BY <1>3, <2>1 DEF SetFailed, RequeueFailed, SetCompleted, Status
  <2>2. RecordHash(u) => UNCHANGED status
    BY DEF RecordHash, UpdateFileHash, session
  <2>3. QED
    BY <1>1, <1>6, <2>1, <2>2 DEF Compose, ConsumerStep, HttpCrash,
       ConsumerCrash, Expire, ReceiveFailed, ReceiveCompleted, CreateObject,
       Ack, session
<1>7. QED
  BY <1>1, <1>2, <1>4, <1>5, <1>6 DEF Next, vars

(* When every chunk was sent once, no request to count a chunk is left of  *)
(* a session that is past UPLOADING.                                       *)
LEMMA NothingLeftToCount ==
  ASSUME IndInv, SingleSendInv, NEW u \in Uploads, SentOnce(u),
         status[u] \in {"PROCESSING", "COMPLETED", "FAILED"}
  PROVE  at[u]["increment"] = 0 /\ ~CountChunk(u)
<1>1. TypeOK /\ UploadInv(u) /\ StoresAreDistinct(u) /\ Exists(u)
  BY DEF IndInv, SingleSendInv, Exists, Status
<1>2. /\ stored[u] \in SUBSET ChunkIndex
      /\ at[u]["increment"] \in Nat /\ stores[u] \in Nat /\ uploaded[u] \in Nat
  BY <1>1, CountsAreNat DEF TypeOK
<1>3. /\ uploaded[u] >= TotalChunks
      /\ uploaded[u] + at[u]["increment"] <= stores[u]
      /\ stores[u] <= Cardinality(stored[u])
  BY <1>1 DEF UploadInv, RequestedWhenCounted, NeverOverstates,
     StoresAreDistinct
<1>4. at[u]["increment"] = 0
  BY <1>2, <1>3, ChunkSets, TotalChunksAssumption
<1>5. QED
  BY <1>4 DEF CountChunk, Leave

(* A session past UPLOADING is reopened by the revert of                   *)
(* CompleteChunkedUpload, or some chunk of the upload was sent twice: of   *)
(* chunks that were sent once no increment is left when the counter has    *)
(* reached the total.  The client may retry other uploads as it likes.     *)
THEOREM ReopenedSafe == Spec => OnceSentStaysClosed
<1>1. IndInv /\ SingleSendInv /\ [Next]_vars =>
        [\A u \in Uploads :
           /\ SentOnce(u)
           /\ status[u] \in {"PROCESSING", "COMPLETED", "FAILED"}
           /\ status'[u] = "UPLOADING"
           => at'[u]["revert"] < at[u]["revert"]]_vars
  <2> SUFFICES ASSUME IndInv, SingleSendInv, [Next]_vars, NEW u \in Uploads,
                      SentOnce(u),
                      status[u] \in {"PROCESSING", "COMPLETED", "FAILED"},
                      status'[u] = "UPLOADING"
               PROVE  at'[u]["revert"] < at[u]["revert"]
    OBVIOUS
  <2>1. TypeOK /\ UploadInv(u) /\ StoresAreDistinct(u) /\ Exists(u)
    BY DEF IndInv, SingleSendInv, Exists, Status
  <2>2. ~CountChunk(u)
    BY NothingLeftToCount
  <2>3. RevertStatus(u)
    BY <2>1, <2>2, WritersOfUploading
  <2>4. QED
    BY <2>1, <2>3, LeaveCounts, PlaceMembers, CountsAreNat DEF RevertStatus
<1>2. QED
  BY <1>1, IndInvariant, SingleSendInvariant, PTL DEF Spec, OnceSentStaysClosed

----------------------------------------------------------------------------
(* What a step leaves alone.                                               *)

(* A step adds to the counts of failures and never takes any back. *)
LEMMA FaultsGrow ==
  ASSUME TypeOK, NoFault \/ \E k \in FaultKind : Fault(k)
  PROVE  \A k \in FaultKind : faults'[k] >= faults[k] /\ faults[k] \in Nat
<1>1. \A k \in FaultKind : faults[k] \in Nat
  BY DEF TypeOK
<1>2. CASE NoFault
  BY <1>1, <1>2
<1>3. ASSUME NEW j \in FaultKind, Fault(j)
      PROVE  \A k \in FaultKind : faults'[k] >= faults[k]
  BY <1>1, <1>3, FaultCounts
<1>4. QED
  BY <1>1, <1>2, <1>3

(* Whatever fails in a step is one of the known failures. *)
LEMMA StepFaults ==
  ASSUME [Next]_vars
  PROVE  NoFault \/ \E k \in FaultKind : Fault(k)
<1> USE DEF FaultKind
<1>1. ASSUME NEW u \in Uploads, ClientStep(u)
      PROVE  NoFault
  BY <1>1 DEF ClientStep, InitChunkedUpload, UploadChunk,
     CompleteChunkedUpload, AbortChunkedUpload
<1>2. ASSUME NEW u \in Uploads, HttpStep(u)
      PROVE  NoFault \/ \E k \in FaultKind : Fault(k)
  BY <1>2 DEF HttpStep, StoreChunk, CountChunk, MarkProcessing,
     PublishChunkComplete, RevertStatus, DeleteSession, CleanupChunks,
     StatusLogged
<1>3. ASSUME NEW u \in Uploads, Compose(u) \/ ConsumerStep(u)
      PROVE  NoFault \/ \E k \in FaultKind : Fault(k)
  BY <1>3 DEF Compose, ConsumerStep, ReceiveFailed, SetFailed,
     ReceiveCompleted, RecordHash, CreateObject, RequeueFailed, SetCompleted,
     Ack, StatusLogged
<1>4. ASSUME NEW u \in Uploads, HttpCrash(u) \/ ConsumerCrash(u) \/ Expire(u)
      PROVE  NoFault \/ \E k \in FaultKind : Fault(k)
  BY <1>4 DEF HttpCrash, ConsumerCrash, Expire
<1>5. CASE DeleteBucket
  BY <1>5 DEF DeleteBucket
<1>6. CASE UNCHANGED vars
  BY <1>6 DEF vars
<1>7. QED
  BY <1>1, <1>2, <1>3, <1>4, <1>5, <1>6 DEF Next

(* What the properties of a session's outcome look at. *)
Untouched(v) ==
  /\ bucket' = bucket /\ at'[v] = at[v]
  /\ status'[v] = status[v] /\ hash'[v] = hash[v]
  /\ created'[v] = created[v] /\ completes'[v] = completes[v]

LEMMA SessionOthers ==
  ASSUME TypeOK, NEW u \in Uploads, NEW v \in Uploads, v # u,
         \/ \E s \in Status : StatusLogged(u, s)
         \/ UpdateFileHash(u)
         \/ IncrementUploadedChunks(u)
         \/ DeleteRows({u})
         \/ UNCHANGED session
  PROVE  status'[v] = status[v] /\ hash'[v] = hash[v]
<1>1. ASSUME NEW s \in Status, StatusLogged(u, s)
      PROVE  status'[v] = status[v] /\ hash'[v] = hash[v]
  BY <1>1, StatusLoggedEffect
<1>2. UpdateFileHash(u) => status'[v] = status[v] /\ hash'[v] = hash[v]
  BY DEF UpdateFileHash, TypeOK
<1>3. IncrementUploadedChunks(u) => status'[v] = status[v] /\ hash'[v] = hash[v]
  BY DEF IncrementUploadedChunks, TypeOK
<1>4. DeleteRows({u}) => status'[v] = status[v] /\ hash'[v] = hash[v]
  BY DEF DeleteRows
<1>5. UNCHANGED session => status'[v] = status[v] /\ hash'[v] = hash[v]
  BY DEF session
<1>6. QED
  BY <1>1, <1>2, <1>3, <1>4, <1>5

(* A step of one upload leaves the others as they are. *)
LEMMA OthersStep ==
  ASSUME TypeOK, NEW u \in Uploads, NEW v \in Uploads, v # u,
         \/ ClientStep(u) \/ HttpStep(u) \/ Compose(u) \/ ConsumerStep(u)
         \/ HttpCrash(u) \/ ConsumerCrash(u) \/ Expire(u)
  PROVE  Untouched(v)
<1> USE DEF Untouched, history
<1>1. ASSUME ClientStep(u) PROVE Untouched(v)
  <2>1. CASE InitChunkedUpload(u)
    BY <2>1 DEF InitChunkedUpload, TypeOK
  <2>2. ASSUME NEW c \in ChunkIndex, UploadChunk(u, c) PROVE Untouched(v)
    BY <2>2 DEF UploadChunk, session
  <2>3. CASE CompleteChunkedUpload(u)
    BY <2>3, EnterCounts, PlaceMembers
    DEF CompleteChunkedUpload, session, TypeOK
  <2>4. CASE AbortChunkedUpload(u)
    BY <2>4 DEF AbortChunkedUpload, session, TypeOK
  <2>5. QED
    BY <1>1, <2>1, <2>2, <2>3, <2>4 DEF ClientStep
<1>2. ASSUME HttpStep(u) PROVE Untouched(v)
  <2>1. ASSUME NEW c \in ChunkIndex, StoreChunk(u, c) PROVE Untouched(v)
    <3>1. at'[v] = at[v]
      BY <2>1, EnterCounts, PlaceMembers DEF StoreChunk
    <3>2. QED
      BY <2>1, <3>1 DEF StoreChunk, session
  <2>2. CASE CountChunk(u)
    BY <2>2, LeaveCounts, SessionOthers, PlaceMembers DEF CountChunk
  <2>3. CASE MarkProcessing(u)
    BY <2>3, MoveCounts, SessionOthers, PlaceMembers DEF MarkProcessing, Status
  <2>4. CASE PublishChunkComplete(u)
    <3>1. at'[v] = at[v]
      BY <2>4, MoveCounts, LeaveCounts, PlaceMembers DEF PublishChunkComplete
    <3>2. QED
      BY <2>4, <3>1 DEF PublishChunkComplete, session
  <2>5. CASE RevertStatus(u)
    BY <2>5, LeaveCounts, SessionOthers, PlaceMembers DEF RevertStatus, Status
  <2>6. CASE DeleteSession(u)
    BY <2>6, LeaveCounts, SessionOthers, PlaceMembers DEF DeleteSession
  <2>7. CASE CleanupChunks(u)
    BY <2>7, LeaveCounts, PlaceMembers DEF CleanupChunks, session
  <2>8. QED
    BY <1>2, <2>1, <2>2, <2>3, <2>4, <2>5, <2>6, <2>7 DEF HttpStep
<1>3. ASSUME Compose(u) \/ ConsumerStep(u) PROVE Untouched(v)
  <2>1. CASE Compose(u)
    <3>1. at'[v] = at[v]
      BY <2>1, MoveCounts, EnterCounts, PlaceMembers DEF Compose
    <3>2. QED
      BY <2>1, <3>1 DEF Compose, session
  <2>2. CASE ReceiveFailed(u) \/ ReceiveCompleted(u)
    BY <2>2, MoveCounts, PlaceMembers DEF ReceiveFailed, ReceiveCompleted, session
  <2>3. CASE SetFailed(u) \/ RequeueFailed(u) \/ SetCompleted(u)
    <3>1. status'[v] = status[v] /\ hash'[v] = hash[v]
      BY <2>3, SessionOthers DEF SetFailed, RequeueFailed, SetCompleted, Status
    <3>2. at'[v] = at[v]
      BY <2>3, MoveCounts, PlaceMembers
      DEF SetFailed, RequeueFailed, SetCompleted
    <3>3. QED
      BY <2>3, <3>1, <3>2 DEF SetFailed, RequeueFailed, SetCompleted
  <2>4. CASE RecordHash(u)
    BY <2>4, MoveCounts, SessionOthers, PlaceMembers DEF RecordHash
  <2>5. CASE CreateObject(u)
    <3>1. at'[v] = at[v] /\ created'[v] = created[v]
      BY <2>5, MoveCounts, PlaceMembers DEF CreateObject, TypeOK
    <3>2. QED
      BY <2>5, <3>1 DEF CreateObject, session
  <2>6. CASE Ack(u)
    BY <2>6, LeaveCounts, PlaceMembers DEF Ack, session
  <2>7. QED
    BY <1>3, <2>1, <2>2, <2>3, <2>4, <2>5, <2>6 DEF ConsumerStep
<1>4. ASSUME HttpCrash(u) PROVE Untouched(v)
  <2>1. at'[v] = at[v]
    BY <1>4 DEF HttpCrash, Leave, TypeOK
  <2>2. QED
    BY <1>4, <2>1 DEF HttpCrash, session
<1>5. ASSUME ConsumerCrash(u) PROVE Untouched(v)
  <2>1. at'[v] = at[v]
    BY <1>5 DEF ConsumerCrash, Move, TypeOK
  <2>2. QED
    BY <1>5, <2>1 DEF ConsumerCrash, session
<1>6. ASSUME Expire(u) PROVE Untouched(v)
  BY <1>6 DEF Expire, session
<1>7. QED
  BY <1>1, <1>2, <1>3, <1>4, <1>5, <1>6

(* The deletion of the bucket leaves a session that is there without its   *)
(* row, and touches nothing else of an upload.                             *)
LEMMA BucketStep ==
  ASSUME DeleteBucket, NEW v \in Uploads
  PROVE  /\ ~bucket' /\ ~Exists(v)'
         /\ status'[v] = status[v] \/ status'[v] = "gone"
         /\ UNCHANGED <<at, created, completes>>
<1>1. status'[v] = IF Exists(v) THEN "gone" ELSE status[v]
  BY DEF DeleteBucket, DeleteRows
<1>2. QED
  BY <1>1 DEF DeleteBucket, history, Exists, Status

----------------------------------------------------------------------------
(* The hash of a completed session.                                        *)

(* Nobody comes nearer to COMPLETED, and the hash stays. *)
LEMMA HashStays ==
  ASSUME TypeOK, TypeOK', NEW v \in Uploads, HashBeforeCompleted(v),
         NoFault \/ \E k \in FaultKind : Fault(k),
         Exists(v)' => Exists(v) /\ hash'[v] = hash[v],
         status'[v] = "COMPLETED" =>
           status[v] = "COMPLETED" \/ at[v]["set_completed"] > 0,
         \/ \A p \in {"create", "set_completed", "ack_ok"} : at'[v][p] <= at[v][p]
         \/ \E p \in {"create", "set_completed", "ack_ok"} : at[v][p] > 0
  PROVE  HashBeforeCompleted(v)'
<1>1. faults'["db"] >= faults["db"] /\ faults["db"] \in Nat /\ faults'["db"] \in Nat
  BY FaultsGrow DEF FaultKind, TypeOK
<1>2. \A p \in {"create", "set_completed", "ack_ok"} :
        at[v][p] \in Nat /\ at'[v][p] \in Nat
  BY PlaceMembers DEF TypeOK
<1>3. SUFFICES ASSUME faults'["db"] = 0, Exists(v)',
                      \/ status'[v] = "COMPLETED"
                      \/ \E p \in {"create", "set_completed", "ack_ok"} :
                           at'[v][p] > 0
               PROVE  hash'[v]
  BY DEF HashBeforeCompleted
<1>4. \/ status[v] = "COMPLETED"
      \/ \E p \in {"create", "set_completed", "ack_ok"} : at[v][p] > 0
  BY <1>2, <1>3
<1>5. QED
  BY <1>1, <1>3, <1>4 DEF HashBeforeCompleted

(* What a session's own steps do to the three facts about it. *)
LEMMA SessionClient ==
  ASSUME TypeOK, TypeOK', NEW v \in Uploads, ClientStep(v), UploadInv(v),
         RowNeedsBucket(v), UnacceptedBeforeInit(v), HashBeforeCompleted(v)
  PROVE  /\ RowNeedsBucket(v)' /\ UnacceptedBeforeInit(v)'
         /\ HashBeforeCompleted(v)'
<1> USE DEF RowNeedsBucket, UnacceptedBeforeInit, history
<1>1. CASE InitChunkedUpload(v)
  <2>1. /\ bucket /\ bucket' = bucket /\ status[v] = "none" /\ status'[v] = "INIT"
        /\ UNCHANGED at
    BY <1>1 DEF InitChunkedUpload, TypeOK
  <2>2. \A p \in {"create", "set_completed", "ack_ok"} : at'[v][p] = 0
    BY <2>1, PlaceMembers DEF UploadInv, UntouchedBeforeInit
  <2>3. QED
    BY <2>1, <2>2 DEF HashBeforeCompleted
<1>2. CASE (\E c \in ChunkIndex : UploadChunk(v, c)) \/ AbortChunkedUpload(v)
  <2>1. /\ UNCHANGED <<bucket, session, completes>> /\ NoFault
        /\ \A p \in {"create", "set_completed", "ack_ok"} : at'[v][p] = at[v][p]
    BY <1>2, PlaceMembers DEF UploadChunk, AbortChunkedUpload, TypeOK
  <2>2. HashBeforeCompleted(v)'
    BY <2>1 DEF HashBeforeCompleted, session, Exists
  <2>3. QED
    BY <2>1, <2>2 DEF session, Exists
<1>3. CASE CompleteChunkedUpload(v)
  <2>1. /\ UNCHANGED <<bucket, session>> /\ NoFault /\ status[v] # "none"
        /\ \A p \in {"create", "set_completed", "ack_ok"} : at'[v][p] = at[v][p]
    BY <1>3, EnterCounts, PlaceMembers DEF CompleteChunkedUpload, Active
  <2>2. HashBeforeCompleted(v)'
    BY <2>1 DEF HashBeforeCompleted, session, Exists
  <2>3. QED
    BY <2>1, <2>2 DEF session, Exists
<1>4. QED
  BY <1>1, <1>2, <1>3 DEF ClientStep

LEMMA SessionHttp ==
  ASSUME TypeOK, TypeOK', NEW v \in Uploads, HttpStep(v), UploadInv(v),
         RowNeedsBucket(v), UnacceptedBeforeInit(v), HashBeforeCompleted(v)
  PROVE  /\ RowNeedsBucket(v)' /\ UnacceptedBeforeInit(v)'
         /\ HashBeforeCompleted(v)'
<1> USE PlaceMembers DEF history
<1> DEFINE After == {"create", "set_completed", "ack_ok"}
<1>1. /\ bucket' = bucket /\ completes' = completes
      /\ NoFault \/ \E k \in FaultKind : Fault(k)
  <2>1. [Next]_vars
    BY DEF Next
  <2>2. QED
    BY <2>1, StepFaults DEF HttpStep, StoreChunk, CountChunk, MarkProcessing,
       PublishChunkComplete, RevertStatus, DeleteSession, CleanupChunks
<1>2. /\ Exists(v)' => Exists(v) /\ hash'[v] = hash[v]
      /\ status'[v] = "COMPLETED" => status[v] = "COMPLETED"
      /\ status'[v] = "none" => status[v] = "none"
  <2>1. ASSUME NEW s \in {"PROCESSING", "UPLOADING"}, StatusLogged(v, s)
        PROVE  <1>2!:
    BY <2>1, StatusLoggedEffect DEF Exists, Status
  <2>2. IncrementUploadedChunks(v) => <1>2!:
    BY DEF IncrementUploadedChunks, Exists, Status, TypeOK
  <2>3. DeleteRows({v}) => <1>2!:
    BY DEF DeleteRows, Exists, Status, TypeOK
  <2>4. UNCHANGED session => <1>2!:
    BY DEF session, Exists
  <2>5. QED
    BY <2>1, <2>2, <2>3, <2>4 DEF HttpStep, StoreChunk, CountChunk,
       MarkProcessing, PublishChunkComplete, RevertStatus, DeleteSession,
       CleanupChunks
<1>3. \A p \in After : at'[v][p] <= at[v][p]
  <2>1. \A p \in After : at[v][p] \in Nat
    BY DEF TypeOK
  <2>2. ASSUME NEW q \in Place \ After, Enter(v, q)
        PROVE  \A p \in After : at'[v][p] <= at[v][p]
    BY <2>1, <2>2, EnterCounts
  <2>3. ASSUME NEW q \in Place \ After, Leave(v, q)
        PROVE  \A p \in After : at'[v][p] <= at[v][p]
    BY <2>1, <2>3, LeaveCounts
  <2>4. ASSUME NEW p \in Place \ After, NEW q \in Place \ After, p # q, Move(v, p, q)
        PROVE  \A r \in After : at'[v][r] <= at[v][r]
    BY <2>1, <2>4, MoveCounts
  <2>5. ASSUME NEW c \in ChunkIndex, StoreChunk(v, c)
        PROVE  <1>3!:
    BY <2>1, <2>2, <2>5 DEF StoreChunk
  <2>6. CASE \/ CountChunk(v) \/ RevertStatus(v)
             \/ DeleteSession(v) \/ CleanupChunks(v)
    BY <2>3, <2>6 DEF CountChunk, RevertStatus, DeleteSession, CleanupChunks
  <2>7. CASE MarkProcessing(v) \/ PublishChunkComplete(v)
    BY <2>3, <2>4, <2>7 DEF MarkProcessing, PublishChunkComplete
  <2>8. QED
    BY <2>5, <2>6, <2>7 DEF HttpStep
<1>4. HashBeforeCompleted(v)'
  BY <1>1, <1>2, <1>3, HashStays
<1>5. QED
  BY <1>1, <1>2, <1>4 DEF RowNeedsBucket, UnacceptedBeforeInit

LEMMA SessionConsumer ==
  ASSUME TypeOK, TypeOK', NEW v \in Uploads, Compose(v) \/ ConsumerStep(v),
         UploadInv(v),
         RowNeedsBucket(v), UnacceptedBeforeInit(v), HashBeforeCompleted(v)
  PROVE  /\ RowNeedsBucket(v)' /\ UnacceptedBeforeInit(v)'
         /\ HashBeforeCompleted(v)'
<1> USE PlaceMembers DEF history
<1> DEFINE After == {"create", "set_completed", "ack_ok"}
<1>1. /\ bucket' = bucket /\ completes' = completes
      /\ NoFault \/ \E k \in FaultKind : Fault(k)
  <2>1. [Next]_vars
    BY DEF Next
  <2>2. QED
    BY <2>1, StepFaults DEF Compose, ConsumerStep, ReceiveFailed, SetFailed,
       ReceiveCompleted, RecordHash, CreateObject, RequeueFailed,
       SetCompleted, Ack
<1>2. /\ Exists(v)' => Exists(v)
      /\ status'[v] = "none" => status[v] = "none"
      /\ status'[v] = "COMPLETED" =>
           status[v] = "COMPLETED" \/ at[v]["set_completed"] > 0
  <2>1. CASE SetFailed(v) \/ RequeueFailed(v)
    <3>1. StatusLogged(v, "FAILED")
      BY <2>1 DEF SetFailed, RequeueFailed
    <3>2. QED
      BY <3>1, StatusLoggedEffect DEF Exists, Status
  <2>2. CASE SetCompleted(v)
    BY <2>2, StatusLoggedEffect, MoveCounts DEF SetCompleted, Exists, Status
  <2>3. CASE RecordHash(v)
    BY <2>3 DEF RecordHash, UpdateFileHash, Exists, session
  <2>4. CASE UNCHANGED session
    BY <2>4 DEF session, Exists
  <2>5. QED
    BY <2>1, <2>2, <2>3, <2>4 DEF Compose, ConsumerStep, ReceiveFailed,
       ReceiveCompleted, CreateObject, Ack
<1>3. CASE RecordHash(v)
  <2>1. faults'["db"] = 0 /\ Exists(v)' => hash'[v]
    <3>1. CASE UpdateFileHash(v)
      BY <1>2, <3>1 DEF UpdateFileHash, TypeOK
    <3>2. CASE Fault("db")
      BY <3>2, FaultCounts DEF FaultKind, TypeOK
    <3>3. QED
      BY <1>3, <3>1, <3>2 DEF RecordHash
  <2>2. QED
    BY <1>1, <1>2, <2>1 DEF RowNeedsBucket, UnacceptedBeforeInit,
       HashBeforeCompleted
<1>4. CASE ~RecordHash(v)
  <2>1. hash' = hash
    <3>1. \A s : StatusLogged(v, s) => UNCHANGED hash
      BY DEF StatusLogged, UpdateStatus, session
    <3>2. QED
      BY <1>4, <3>1 DEF Compose, ConsumerStep, ReceiveFailed, SetFailed,
         ReceiveCompleted, CreateObject, RequeueFailed, SetCompleted, Ack,
         session
  <2>2. \/ \A p \in After : at'[v][p] <= at[v][p]
        \/ \E p \in After : at[v][p] > 0
    <3>1. \A p \in After : at[v][p] \in Nat
      BY DEF TypeOK
    <3>2. ASSUME NEW q \in Place \ After, Enter(v, q)
          PROVE  <2>2!:
      BY <3>1, <3>2, EnterCounts
    <3>3. ASSUME NEW q \in Place, Leave(v, q)
          PROVE  <2>2!:
      BY <3>1, <3>3, LeaveCounts
    <3>4. ASSUME NEW p \in Place, NEW q \in Place \ After, p # q, Move(v, p, q)
          PROVE  <2>2!:
      BY <3>1, <3>4, MoveCounts
    <3>5. ASSUME NEW p \in After, NEW q \in Place, p # q, Move(v, p, q)
          PROVE  <2>2!:
      BY <3>1, <3>5, MoveCounts
    <3>6. CASE Compose(v)
      BY <3>2, <3>4, <3>6 DEF Compose
    <3>7. CASE ReceiveFailed(v) \/ SetFailed(v) \/ ReceiveCompleted(v)
               \/ RequeueFailed(v)
      BY <3>4, <3>7 DEF ReceiveFailed, SetFailed, ReceiveCompleted,
         RequeueFailed
    <3>8. CASE CreateObject(v) \/ SetCompleted(v)
      BY <3>5, <3>8 DEF CreateObject, SetCompleted
    <3>9. CASE Ack(v)
      BY <3>3, <3>9 DEF Ack
    <3>10. QED
      BY <1>4, <3>6, <3>7, <3>8, <3>9 DEF ConsumerStep
  <2>3. HashBeforeCompleted(v)'
    BY <1>1, <1>2, <2>1, <2>2, HashStays
  <2>4. QED
    BY <1>1, <1>2, <2>3 DEF RowNeedsBucket, UnacceptedBeforeInit
<1>5. QED
  BY <1>3, <1>4

LEMMA SessionEnvironment ==
  ASSUME TypeOK, TypeOK', NEW v \in Uploads,
         HttpCrash(v) \/ ConsumerCrash(v) \/ Expire(v), UploadInv(v),
         RowNeedsBucket(v), UnacceptedBeforeInit(v), HashBeforeCompleted(v)
  PROVE  /\ RowNeedsBucket(v)' /\ UnacceptedBeforeInit(v)'
         /\ HashBeforeCompleted(v)'
<1> USE PlaceMembers DEF history
<1> DEFINE After == {"create", "set_completed", "ack_ok"}
<1>1. /\ UNCHANGED <<bucket, session, completes>>
      /\ NoFault \/ \E k \in FaultKind : Fault(k)
  BY DEF HttpCrash, ConsumerCrash, Expire, FaultKind
<1>2. \/ \A p \in After : at'[v][p] <= at[v][p]
      \/ \E p \in After : at[v][p] > 0
  <2>1. \A p \in Place : at[v][p] \in Nat
    BY DEF TypeOK
  <2>2. ASSUME NEW q \in Place, Leave(v, q)
        PROVE  <1>2!:
    BY <2>1, <2>2, LeaveCounts
  <2>3. ASSUME NEW p \in ConsumerPlace,
               NEW q \in {"compose_ok", "compose_failed"}, Move(v, p, q)
        PROVE  <1>2!:
    <3>1. p \in Place /\ q \in Place \ After /\ p # q
      BY DEF Place, ConsumerPlace
    <3>2. QED
      BY <2>1, <2>3, <3>1, MoveCounts
  <2>4. CASE HttpCrash(v)
    <3>1. HttpPlace \subseteq Place
      BY DEF Place
    <3>2. QED
      BY <2>1, <2>2, <2>4, <3>1 DEF HttpCrash
  <2>5. CASE ConsumerCrash(v)
    <3>1. {"set_failed", "ack_failed"} \subseteq ConsumerPlace
      BY DEF ConsumerPlace
    <3>2. QED
      BY <2>3, <2>5, <3>1 DEF ConsumerCrash
  <2>6. CASE Expire(v)
    BY <2>1, <2>6 DEF Expire
  <2>7. QED
    BY <2>4, <2>5, <2>6
<1>3. HashBeforeCompleted(v)'
  BY <1>1, <1>2, HashStays DEF session, Exists
<1>4. QED
  BY <1>1, <1>3 DEF RowNeedsBucket, UnacceptedBeforeInit, session, Exists

LEMMA SessionInvariant == Spec => []SessionInv
<1>1. Init => SessionInv
  BY DEF Init, SessionInv, RowNeedsBucket, UnacceptedBeforeInit,
     HashBeforeCompleted, Exists, Status
<1>2. IndInv /\ IndInv' /\ SessionInv /\ [Next]_vars => SessionInv'
  <2> SUFFICES ASSUME IndInv, IndInv', SessionInv, [Next]_vars, NEW v \in Uploads
               PROVE  /\ RowNeedsBucket(v)' /\ UnacceptedBeforeInit(v)'
                      /\ HashBeforeCompleted(v)'
    BY DEF SessionInv
  <2>1. /\ TypeOK /\ TypeOK' /\ UploadInv(v) /\ RowNeedsBucket(v)
        /\ UnacceptedBeforeInit(v) /\ HashBeforeCompleted(v)
    BY DEF IndInv, SessionInv
  <2>2. NoFault \/ \E k \in FaultKind : Fault(k)
    BY StepFaults
  <2>3. CASE Untouched(v)
    <3>0. \A p \in {"create", "set_completed", "ack_ok"} : at'[v][p] <= at[v][p]
      BY <2>1, <2>3, CountsAreNat DEF Untouched
    <3>1. HashBeforeCompleted(v)'
      <4>1. Exists(v)' => Exists(v) /\ hash'[v] = hash[v]
        BY <2>3 DEF Untouched, Exists
      <4>2. status'[v] = status[v]
        BY <2>3 DEF Untouched
      <4>3. QED
        BY <2>1, <2>2, <3>0, <4>1, <4>2, HashStays
    <3>2. QED
      BY <2>1, <2>3, <3>1 DEF Untouched, RowNeedsBucket, UnacceptedBeforeInit,
         Exists
  <2>4. ASSUME NEW u \in Uploads,
               \/ ClientStep(u) \/ HttpStep(u) \/ Compose(u) \/ ConsumerStep(u)
               \/ HttpCrash(u) \/ ConsumerCrash(u) \/ Expire(u)
        PROVE  /\ RowNeedsBucket(v)' /\ UnacceptedBeforeInit(v)'
               /\ HashBeforeCompleted(v)'
    <3>1. CASE u = v
      BY <2>1, <2>4, <3>1, SessionClient, SessionHttp, SessionConsumer,
         SessionEnvironment
    <3>2. CASE u # v
      BY <2>1, <2>3, <2>4, <3>2, OthersStep
    <3>3. QED
      BY <3>1, <3>2
  <2>5. CASE DeleteBucket
    BY <2>1, <2>5, BucketStep DEF RowNeedsBucket, UnacceptedBeforeInit,
       HashBeforeCompleted
  <2>6. CASE UNCHANGED vars
    BY <2>3, <2>6 DEF vars, Untouched
  <2>7. QED
    BY <2>4, <2>5, <2>6 DEF Next
<1>3. QED
  BY <1>1, <1>2, IndInvariant, PTL DEF Spec

(* A session that reads COMPLETED has its hash, whatever is redelivered or *)
(* asked for twice, as long as no statement failed.                        *)
THEOREM CompletedHashed == Spec => []CompletedHasHash
<1>1. SessionInv => CompletedHasHash
  BY DEF SessionInv, HashBeforeCompleted, CompletedHasHash, Exists, Status
<1>2. QED
  BY <1>1, SessionInvariant, PTL

----------------------------------------------------------------------------
(* The outcome of one undisturbed request to complete.                     *)

LEMMA UndecidedMembers ==
  /\ Undecided \subseteq Pipeline
  /\ "set_completed" \notin Undecided /\ "ack_ok" \notin Undecided
  /\ "ack_failed" \notin Undecided
  /\ "mark" \in Undecided /\ "publish" \in Undecided /\ "revert" \in Undecided
  /\ "chunk_complete" \in Undecided /\ "compose_ok" \in Undecided
  /\ "compose_failed" \in Undecided /\ "set_failed" \in Undecided
  /\ "hash" \in Undecided /\ "create" \in Undecided /\ "requeue" \in Undecided
  /\ Pipeline = Undecided \cup {"set_completed", "ack_ok", "ack_failed"}
BY PipelineMembers DEF Undecided

(* Requests to complete are counted when they are accepted.                *)
LEMMA CompletesStay ==
  ASSUME [Next]_vars
  PROVE  completes' = completes \/ \E u \in Uploads : CompleteChunkedUpload(u)
<1>1. ASSUME NEW u \in Uploads, ClientStep(u), ~CompleteChunkedUpload(u)
      PROVE  completes' = completes
  BY <1>1 DEF ClientStep, InitChunkedUpload, UploadChunk, AbortChunkedUpload,
     history
<1>2. ASSUME NEW u \in Uploads, HttpStep(u)
      PROVE  completes' = completes
  BY <1>2 DEF HttpStep, StoreChunk, CountChunk, MarkProcessing,
     PublishChunkComplete, RevertStatus, DeleteSession, CleanupChunks, history
<1>3. ASSUME NEW u \in Uploads,
             \/ Compose(u) \/ ConsumerStep(u) \/ HttpCrash(u)
             \/ ConsumerCrash(u) \/ Expire(u)
      PROVE  completes' = completes
  BY <1>3 DEF Compose, ConsumerStep, ReceiveFailed, SetFailed,
     ReceiveCompleted, RecordHash, CreateObject, RequeueFailed,
     SetCompleted, Ack, HttpCrash, ConsumerCrash, Expire, history
<1>4. DeleteBucket \/ UNCHANGED vars => completes' = completes
  BY DEF DeleteBucket, history, vars
<1>5. QED
  BY <1>1, <1>2, <1>3, <1>4 DEF Next

(* No statement fails in this step and no message goes back to its queue.  *)
Orderly == ~Fault("db") /\ ~Fault("redelivery")

(* An upload that is undisturbed after a step was so before, and the step  *)
(* was orderly.                                                            *)
LEMMA StaysUndisturbed ==
  ASSUME TypeOK, TypeOK', [Next]_vars, NEW v \in Uploads, Undisturbed(v)'
  PROVE  Undisturbed(v) /\ SentOnce(v) /\ Orderly
<1>1. NoFault \/ \E k \in FaultKind : Fault(k)
  BY StepFaults
<1>2. \A k \in {"db", "redelivery"} : faults[k] = 0 /\ faults'[k] = 0
  <2>1. \A k \in {"db", "redelivery"} : k \in FaultKind /\ faults'[k] = 0
    BY DEF Undisturbed, SentOnce, FaultKind
  <2>2. QED
    BY <1>1, <2>1, FaultsGrow DEF TypeOK
<1>3. completes[v] <= completes'[v] /\ completes[v] \in Nat /\ completes'[v] \in Nat
  <2>1. completes[v] \in Nat /\ completes'[v] \in Nat
    BY DEF TypeOK
  <2>2. ASSUME NEW u \in Uploads, CompleteChunkedUpload(u)
        PROVE  completes[v] <= completes'[v]
    BY <2>1, <2>2 DEF CompleteChunkedUpload, TypeOK
  <2>3. QED
    BY <2>1, <2>2, CompletesStay
<1>4. SentOnce(v)
  <2>1. SentOnce(v)'
    BY DEF Undisturbed, SentOnce
  <2>2. QED
    BY <2>1, SentOnceBefore
<1>5. Undisturbed(v)
  <2>1. completes'[v] <= 1
    BY DEF Undisturbed, SentOnce
  <2>2. QED
    BY <1>2, <1>3, <1>4, <2>1 DEF Undisturbed
<1>6. Orderly
  BY <1>2, FaultCounts DEF Orderly, FaultKind
<1>7. QED
  BY <1>4, <1>5, <1>6

(* The one request or message moves on, or ends. *)
LEMMA TokenMoves ==
  ASSUME TypeOK, TypeOK', NEW u \in Uploads, OneInPipeline(u),
         NEW p \in Pipeline, NEW q \in Pipeline, p # q, Move(u, p, q),
         completes'[u] = completes[u]
  PROVE  /\ at[u][p] > 0 /\ at'[u][q] > 0
         /\ \A r \in Pipeline : r # q => at'[u][r] = 0
         /\ OneInPipeline(u)' /\ completes[u] # 0
<1>1. \A r \in Pipeline : r \in Place /\ at[u][r] \in Nat /\ at'[u][r] \in Nat
  BY PipelineMembers DEF TypeOK
<1>2. /\ at[u][p] > 0 /\ at'[u][p] = at[u][p] - 1 /\ at'[u][q] = at[u][q] + 1
      /\ \A r \in Pipeline : r # p /\ r # q => at'[u][r] = at[u][r]
  BY <1>1, MoveCounts
<1>3. at[u][p] = 1 /\ \A r \in Pipeline : r # p => at[u][r] = 0
  BY <1>1, <1>2 DEF OneInPipeline
<1>4. at'[u][q] = 1 /\ \A r \in Pipeline : r # q => at'[u][r] = 0
  BY <1>1, <1>2, <1>3
<1>5. completes[u] # 0
  BY <1>2 DEF OneInPipeline, PipelineQuiet
<1>6. OneInPipeline(u)'
  BY <1>4, <1>5 DEF OneInPipeline
<1>7. QED
  BY <1>2, <1>4, <1>5, <1>6

LEMMA TokenLeaves ==
  ASSUME TypeOK, TypeOK', NEW u \in Uploads, OneInPipeline(u),
         NEW p \in Pipeline, Leave(u, p), completes'[u] = completes[u]
  PROVE  /\ at[u][p] > 0 /\ PipelineQuiet(u)' /\ OneInPipeline(u)'
         /\ completes[u] # 0
<1>1. \A r \in Pipeline : r \in Place /\ at[u][r] \in Nat /\ at'[u][r] \in Nat
  BY PipelineMembers DEF TypeOK
<1>2. /\ at[u][p] > 0 /\ at'[u][p] = at[u][p] - 1
      /\ \A r \in Pipeline : r # p => at'[u][r] = at[u][r]
  BY <1>1, LeaveCounts
<1>3. at[u][p] = 1 /\ \A r \in Pipeline : r # p => at[u][r] = 0
  BY <1>1, <1>2 DEF OneInPipeline
<1>4. \A r \in Pipeline : at'[u][r] = 0
  BY <1>1, <1>2, <1>3
<1>5. QED
  BY <1>2, <1>4 DEF OneInPipeline, PipelineQuiet

(* What has to hold where the request or message has come to. *)
LEMMA PlacedAt ==
  ASSUME TypeOK', NEW u \in Uploads, NEW q \in Pipeline, at'[u][q] > 0,
         \A r \in Pipeline : r # q => at'[u][r] = 0, completes'[u] # 0,
         q \in Undecided => /\ created'[u] = 0
                            /\ status'[u] \notin {"COMPLETED", "FAILED"},
         q = "requeue" => ~bucket',
         q = "set_completed" => /\ created'[u] > 0
                                /\ status'[u] \notin {"COMPLETED", "FAILED"},
         q = "ack_ok" => /\ created'[u] > 0
                         /\ Exists(u)' => status'[u] = "COMPLETED",
         q = "ack_failed" => /\ created'[u] = 0
                             /\ Exists(u)' => status'[u] = "FAILED"
  PROVE  OutcomeByPlace(u)'
<1>1. \A r \in Pipeline : at'[u][r] > 0 => r = q
  OBVIOUS
<1>2. ~PipelineQuiet(u)'
  BY DEF PipelineQuiet
<1>3. (\E p \in Undecided : at'[u][p] > 0) => q \in Undecided
  BY <1>1, UndecidedMembers
<1>4. QED
  BY <1>1, <1>2, <1>3, PipelineMembers DEF OutcomeByPlace

(* A step that moves nothing in the pipeline, and leaves a session that is *)
(* final as it is unless it deletes it.                                    *)
LEMMA PlacesStay ==
  ASSUME TypeOK, TypeOK', NEW u \in Uploads,
         OneInPipeline(u), OutcomeByPlace(u),
         \A r \in Pipeline : at'[u][r] = at[u][r],
         created'[u] = created[u], completes'[u] = completes[u],
         ~bucket => ~bucket',
         \/ status'[u] = status[u]
         \/ ~Exists(u)' /\ status'[u] \notin {"COMPLETED", "FAILED"}
         \/ /\ status[u] \notin {"COMPLETED", "FAILED"}
            /\ status'[u] \notin {"COMPLETED", "FAILED"}
            /\ Exists(u) \/ completes[u] = 0
  PROVE  OneInPipeline(u)' /\ OutcomeByPlace(u)'
<1>1. PipelineQuiet(u)' <=> PipelineQuiet(u)
  BY DEF PipelineQuiet
<1>2. OneInPipeline(u)'
  BY <1>1 DEF OneInPipeline
<1>3. /\ (\E p \in Undecided : at'[u][p] > 0) <=> (\E p \in Undecided : at[u][p] > 0)
      /\ at'[u]["ack_ok"] = at[u]["ack_ok"]
      /\ at'[u]["ack_failed"] = at[u]["ack_failed"]
      /\ at'[u]["requeue"] = at[u]["requeue"]
      /\ at'[u]["set_completed"] = at[u]["set_completed"]
  <2>1. \A p \in Undecided : at'[u][p] = at[u][p]
    BY UndecidedMembers
  <2>2. QED
    BY <2>1, PipelineMembers
<1>4. CASE status'[u] = status[u]
  <2>1. Exists(u)' <=> Exists(u)
    BY <1>4 DEF Exists
  <2>2. created'[u] = created[u] /\ completes'[u] = completes[u]
    OBVIOUS
  <2>3. QED
    BY <1>1, <1>2, <1>3, <1>4, <2>1, <2>2 DEF OutcomeByPlace
<1>5. CASE ~Exists(u)' /\ status'[u] \notin {"COMPLETED", "FAILED"}
  BY <1>1, <1>2, <1>3, <1>5 DEF OutcomeByPlace
<1>6. CASE /\ status[u] \notin {"COMPLETED", "FAILED"}
           /\ status'[u] \notin {"COMPLETED", "FAILED"}
           /\ Exists(u) \/ completes[u] = 0
  <2>1. completes[u] = 0 => PipelineQuiet(u) /\ created[u] = 0
    BY DEF OutcomeByPlace, OneInPipeline
  <2>2. /\ at[u]["ack_ok"] > 0 => FALSE
        /\ at[u]["ack_failed"] > 0 => FALSE
    BY <1>6, <2>1, PipelineMembers DEF OutcomeByPlace, PipelineQuiet
  <2>3. PipelineQuiet(u) => created[u] = 0
    BY <1>6, <2>1, CountsAreNat DEF OutcomeByPlace
  <2>4. created'[u] = created[u] /\ completes'[u] = completes[u]
    OBVIOUS
  <2>5. QED
    BY <1>1, <1>2, <1>3, <1>6, <2>2, <2>3, <2>4, CountsAreNat DEF OutcomeByPlace
<1>7. QED
  BY <1>2, <1>4, <1>5, <1>6

OutcomeKept(v) == OneInPipeline(v)' /\ OutcomeByPlace(v)'

(* A status is written when the database does not fail and there is a row. *)
LEMMA StatusWritten ==
  ASSUME TypeOK, NEW u \in Uploads, NEW s \in Status, StatusLogged(u, s),
         ~Fault("db")
  PROVE  status'[u] = IF Exists(u) THEN s ELSE status[u]
BY DEF StatusLogged, UpdateStatus, TypeOK

(* The client's steps. *)
LEMMA OutcomeClient ==
  ASSUME TypeOK, TypeOK', NEW v \in Uploads, ClientStep(v), Undisturbed(v)',
         UnacceptedBeforeInit(v), OneInPipeline(v), OutcomeByPlace(v)
  PROVE  OutcomeKept(v)
<1> USE DEF history
<1>1. CASE InitChunkedUpload(v)
  <2>1. /\ status[v] = "none" /\ status'[v] = "INIT" /\ completes[v] = 0
        /\ UNCHANGED <<bucket, at, created, completes>>
    BY <1>1 DEF InitChunkedUpload, UnacceptedBeforeInit, TypeOK
  <2>2. QED
    BY <2>1, PlacesStay DEF OutcomeKept
<1>2. CASE (\E c \in ChunkIndex : UploadChunk(v, c)) \/ AbortChunkedUpload(v)
  <2>1. UNCHANGED <<bucket, status, created, completes>>
    BY <1>2 DEF UploadChunk, AbortChunkedUpload, session
  <2>2. \A r \in Pipeline : at'[v][r] = at[v][r]
    BY <1>2, PipelineMembers DEF UploadChunk, AbortChunkedUpload, TypeOK
  <2>3. QED
    BY <2>1, <2>2, PlacesStay DEF OutcomeKept
<1>3. CASE CompleteChunkedUpload(v)
  <2>1. /\ UNCHANGED <<bucket, status, created>>
        /\ status[v] \in {"INIT", "UPLOADING"}
        /\ completes'[v] = completes[v] + 1 /\ completes'[v] <= 1
    BY <1>3 DEF CompleteChunkedUpload, session, Active, Undisturbed, SentOnce,
       TypeOK
  <2>2. completes[v] = 0 /\ completes'[v] = 1
    BY <2>1, CountsAreNat
  <2>3. PipelineQuiet(v) /\ created[v] = 0
    BY <2>2 DEF OneInPipeline, OutcomeByPlace
  <2>4. /\ at'[v]["mark"] = at[v]["mark"] + 1
        /\ \A r \in Place : r # "mark" => at'[v][r] = at[v][r]
    BY <1>3, EnterCounts, PlaceMembers DEF CompleteChunkedUpload
  <2>5. at'[v]["mark"] = 1 /\ \A r \in Pipeline : r # "mark" => at'[v][r] = 0
    BY <2>3, <2>4, PipelineMembers DEF PipelineQuiet
  <2>6. OneInPipeline(v)'
    BY <2>2, <2>5 DEF OneInPipeline
  <2>7. OutcomeByPlace(v)'
    BY <2>1, <2>2, <2>3, <2>5, PlacedAt, PipelineMembers
  <2>8. QED
    BY <2>1, <2>6, <2>7 DEF OutcomeKept
<1>4. QED
  BY <1>1, <1>2, <1>3 DEF ClientStep

(* The request to complete ends before the upload-service hears of it.     *)
LEMMA OutcomeEnds ==
  ASSUME TypeOK, TypeOK', NEW v \in Uploads, NEW p \in {"mark", "publish", "revert"},
         Leave(v, p), UNCHANGED <<status, created, completes>>,
         OneInPipeline(v), OutcomeByPlace(v)
  PROVE  OutcomeKept(v)
<1> USE PipelineMembers, UndecidedMembers
<1>1. /\ at[v][p] > 0 /\ PipelineQuiet(v)' /\ OneInPipeline(v)'
      /\ completes[v] # 0
  BY TokenLeaves
<1>2. created[v] = 0 /\ status[v] \notin {"COMPLETED", "FAILED"}
  BY <1>1 DEF OutcomeByPlace
<1>3. OutcomeByPlace(v)'
  BY <1>1, <1>2 DEF OutcomeByPlace, PipelineQuiet
<1>4. QED
  BY <1>1, <1>2, <1>3 DEF OutcomeKept

(* A replica stops: a request is gone, and nothing that was written is.    *)
LEMMA OutcomeCrash ==
  ASSUME TypeOK, TypeOK', NEW v \in Uploads, HttpCrash(v),
         OneInPipeline(v), OutcomeByPlace(v)
  PROVE  OutcomeKept(v)
<1>1. UNCHANGED <<bucket, status, created, completes>>
  BY DEF HttpCrash, session, history
<1>2. ASSUME \A r \in Pipeline : at'[v][r] = at[v][r]
      PROVE  OutcomeKept(v)
  BY <1>1, <1>2, PlacesStay DEF OutcomeKept
<1>3. CASE UNCHANGED at
  BY <1>2, <1>3
<1>4. ASSUME NEW p \in HttpPlace, Leave(v, p)
      PROVE  OutcomeKept(v)
  <2>1. CASE p \in {"mark", "publish", "revert"}
    BY <1>1, <1>4, <2>1, OutcomeEnds
  <2>2. CASE p \notin Pipeline
    <3>1. \A r \in Pipeline : at'[v][r] = at[v][r]
      BY <1>4, <2>2, LeaveCounts, PipelineMembers DEF Place
    <3>2. QED
      BY <1>2, <3>1
  <2>3. QED
    BY <2>1, <2>2 DEF HttpPlace, Pipeline, QueuePlace, ConsumerPlace
<1>5. QED
  BY <1>3, <1>4 DEF HttpCrash

(* The steps of the accepted requests. *)
LEMMA OutcomeHttp ==
  ASSUME TypeOK, TypeOK', NEW v \in Uploads, HttpStep(v), Orderly,
         status[v] \in {"PROCESSING", "COMPLETED", "FAILED"} => ~CountChunk(v),
         OneInPipeline(v), OutcomeByPlace(v)
  PROVE  OutcomeKept(v)
<1> USE PipelineMembers, UndecidedMembers DEF history
<1>1. ~Fault("db")
  BY DEF Orderly
<1>2. /\ UNCHANGED <<bucket, created, completes>>
  BY DEF HttpStep, StoreChunk, CountChunk, MarkProcessing,
     PublishChunkComplete, RevertStatus, DeleteSession, CleanupChunks
<1>3. ASSUME NEW c \in ChunkIndex, StoreChunk(v, c)
      PROVE  OutcomeKept(v)
  <2>1. UNCHANGED status /\ (Enter(v, "increment") \/ UNCHANGED at)
    BY <1>3 DEF StoreChunk, session
  <2>2. \A r \in Pipeline : at'[v][r] = at[v][r]
    BY <2>1, EnterCounts, PlaceMembers
  <2>3. QED
    BY <1>2, <2>1, <2>2, PlacesStay DEF OutcomeKept
<1>4. CASE CountChunk(v)
  <2>1. \A r \in Pipeline : at'[v][r] = at[v][r]
    BY <1>4, LeaveCounts, PlaceMembers DEF CountChunk
  <2>2. status'[v] = IF Exists(v) THEN "UPLOADING" ELSE status[v]
    BY <1>1, <1>4 DEF CountChunk, IncrementUploadedChunks, TypeOK
  <2>3. status[v] \notin {"COMPLETED", "FAILED"}
    BY <1>4
  <2>4. QED
    BY <1>2, <2>1, <2>2, <2>3, PlacesStay DEF OutcomeKept
<1>5. CASE MarkProcessing(v)
  <2>1. /\ at[v]["mark"] > 0 /\ at'[v]["publish"] > 0
        /\ \A r \in Pipeline : r # "publish" => at'[v][r] = 0
        /\ OneInPipeline(v)' /\ completes[v] # 0
    BY <1>2, <1>5, TokenMoves DEF MarkProcessing
  <2>2. created[v] = 0 /\ status[v] \notin {"COMPLETED", "FAILED"}
    BY <2>1 DEF OutcomeByPlace
  <2>3. status'[v] \in {status[v], "PROCESSING"}
    BY <1>5, StatusLoggedEffect DEF MarkProcessing, Status
  <2>4. OutcomeByPlace(v)'
    BY <1>2, <2>1, <2>2, <2>3, PlacedAt
  <2>5. QED
    BY <2>1, <2>2, <2>4 DEF OutcomeKept
<1>6. CASE PublishChunkComplete(v)
  <2>1. UNCHANGED status
    BY <1>6 DEF PublishChunkComplete, session
  <2>2. ASSUME NEW q \in {"chunk_complete", "revert"}, Move(v, "publish", q)
        PROVE  OutcomeKept(v)
    <3>1. /\ at[v]["publish"] > 0 /\ at'[v][q] > 0
          /\ \A r \in Pipeline : r # q => at'[v][r] = 0
          /\ OneInPipeline(v)' /\ completes[v] # 0
      BY <1>2, <2>2, TokenMoves
    <3>2. created[v] = 0 /\ status[v] \notin {"COMPLETED", "FAILED"}
      BY <3>1 DEF OutcomeByPlace
    <3>3. OutcomeByPlace(v)'
      BY <1>2, <2>1, <2>2, <3>1, <3>2, PlacedAt
    <3>4. QED
      BY <2>1, <3>1, <3>2, <3>3 DEF OutcomeKept
  <2>3. CASE Leave(v, "publish")
    BY <1>2, <2>1, <2>3, OutcomeEnds
  <2>4. QED
    BY <1>6, <2>2, <2>3 DEF PublishChunkComplete
<1>7. CASE RevertStatus(v)
  <2>1. /\ at[v]["revert"] > 0 /\ PipelineQuiet(v)' /\ OneInPipeline(v)'
        /\ completes[v] # 0
    BY <1>2, <1>7, TokenLeaves DEF RevertStatus
  <2>2. created[v] = 0 /\ status[v] \notin {"COMPLETED", "FAILED"}
    BY <2>1 DEF OutcomeByPlace
  <2>3. status'[v] \in {status[v], "UPLOADING"}
    BY <1>7, StatusLoggedEffect DEF RevertStatus, Status
  <2>4. OutcomeByPlace(v)'
    BY <1>2, <2>1, <2>2, <2>3 DEF OutcomeByPlace, PipelineQuiet
  <2>5. QED
    BY <2>1, <2>2, <2>4 DEF OutcomeKept
<1>8. CASE DeleteSession(v)
  <2>1. \A r \in Pipeline : at'[v][r] = at[v][r]
    BY <1>8, LeaveCounts, PlaceMembers DEF DeleteSession
  <2>2. status'[v] = IF Exists(v) THEN "gone" ELSE status[v]
    BY <1>1, <1>8 DEF DeleteSession, DeleteRows
  <2>3. ~Exists(v)' /\ status'[v] \notin {"COMPLETED", "FAILED"}
    BY <2>2 DEF Exists, Status
  <2>4. QED
    BY <1>2, <2>1, <2>3, PlacesStay DEF OutcomeKept
<1>9. CASE CleanupChunks(v)
  <2>1. \A r \in Pipeline : at'[v][r] = at[v][r]
    BY <1>9, LeaveCounts, PlaceMembers DEF CleanupChunks
  <2>2. UNCHANGED status
    BY <1>9 DEF CleanupChunks, session
  <2>3. QED
    BY <1>2, <2>1, <2>2, PlacesStay DEF OutcomeKept
<1>10. QED
  BY <1>3, <1>4, <1>5, <1>6, <1>7, <1>8, <1>9 DEF HttpStep

(* The upload-service and the consumer. *)
LEMMA OutcomeConsumer ==
  ASSUME TypeOK, TypeOK', NEW v \in Uploads, Compose(v) \/ ConsumerStep(v),
         Orderly, RowNeedsBucket(v), OneInPipeline(v), OutcomeByPlace(v)
  PROVE  OutcomeKept(v)
<1> USE PipelineMembers, UndecidedMembers DEF history
<1>1. ~Fault("redelivery") /\ ~Fault("db")
  BY DEF Orderly
<1>2. UNCHANGED <<bucket, completes>>
  BY DEF Compose, ConsumerStep, ReceiveFailed, SetFailed, ReceiveCompleted,
     RecordHash, CreateObject, RequeueFailed, SetCompleted, Ack
<1>3. ASSUME NEW p \in Undecided \ {"requeue"}, NEW q \in Undecided \ {"requeue"},
             p # q, Move(v, p, q), UNCHANGED <<created, status>>
      PROVE  OutcomeKept(v)
  <2>1. /\ at[v][p] > 0 /\ at'[v][q] > 0
        /\ \A r \in Pipeline : r # q => at'[v][r] = 0
        /\ OneInPipeline(v)' /\ completes[v] # 0
    BY <1>2, <1>3, TokenMoves
  <2>2. created[v] = 0 /\ status[v] \notin {"COMPLETED", "FAILED"}
    BY <2>1 DEF OutcomeByPlace
  <2>3. OutcomeByPlace(v)'
    BY <1>2, <1>3, <2>1, <2>2, PlacedAt
  <2>4. QED
    BY <1>3, <2>1, <2>3 DEF OutcomeKept
<1>4. CASE Compose(v)
  BY <1>1, <1>3, <1>4 DEF Compose, session
<1>5. CASE ReceiveFailed(v) \/ ReceiveCompleted(v)
  BY <1>3, <1>5 DEF ReceiveFailed, ReceiveCompleted, session
<1>6. CASE RecordHash(v)
  <2>1. UNCHANGED <<created, status>> /\ Move(v, "hash", "create")
    BY <1>6 DEF RecordHash, UpdateFileHash, session
  <2>2. QED
    BY <1>3, <2>1
<1>7. CASE SetFailed(v)
  <2>1. /\ at[v]["set_failed"] > 0 /\ at'[v]["ack_failed"] > 0
        /\ \A r \in Pipeline : r # "ack_failed" => at'[v][r] = 0
        /\ OneInPipeline(v)' /\ completes[v] # 0
    BY <1>2, <1>7, TokenMoves DEF SetFailed
  <2>2. created[v] = 0 /\ status[v] \notin {"COMPLETED", "FAILED"}
    BY <2>1 DEF OutcomeByPlace
  <2>3. status'[v] = IF Exists(v) THEN "FAILED" ELSE status[v]
    BY <1>1, <1>7, StatusWritten DEF SetFailed, Status
  <2>4. UNCHANGED created /\ (Exists(v)' => status'[v] = "FAILED")
    BY <1>7, <2>3 DEF SetFailed, Exists
  <2>5. OutcomeByPlace(v)'
    BY <1>2, <2>1, <2>2, <2>4, PlacedAt
  <2>6. QED
    BY <2>1, <2>2, <2>5 DEF OutcomeKept
<1>8. CASE CreateObject(v)
  <2>1. UNCHANGED status
    BY <1>8 DEF CreateObject, session
  <2>2. CASE Move(v, "create", "requeue")
    <3>1. /\ at[v]["create"] > 0 /\ at'[v]["requeue"] > 0
          /\ \A r \in Pipeline : r # "requeue" => at'[v][r] = 0
          /\ OneInPipeline(v)' /\ completes[v] # 0
      BY <1>2, <2>2, TokenMoves
    <3>2. at'[v]["set_completed"] = 0
      BY <3>1
    <3>3. ~Move(v, "create", "set_completed")
      BY <3>2, MoveCounts, PlaceMembers, CountsAreNat
    <3>4. ~bucket /\ UNCHANGED created
      BY <1>1, <1>8, <3>3 DEF CreateObject
    <3>5. created[v] = 0 /\ status[v] \notin {"COMPLETED", "FAILED"}
      BY <3>1 DEF OutcomeByPlace
    <3>6. OutcomeByPlace(v)'
      BY <1>2, <2>1, <3>1, <3>4, <3>5, PlacedAt
    <3>7. QED
      BY <2>1, <3>1, <3>6 DEF OutcomeKept
  <2>3. CASE /\ Move(v, "create", "set_completed")
             /\ created' = [created EXCEPT ![v] = @ + 1]
    <3>1. /\ at[v]["create"] > 0 /\ at'[v]["set_completed"] > 0
          /\ \A r \in Pipeline : r # "set_completed" => at'[v][r] = 0
          /\ OneInPipeline(v)' /\ completes[v] # 0
      BY <1>2, <2>3, TokenMoves
    <3>2. created'[v] > 0
      BY <2>3 DEF TypeOK
    <3>3. status[v] \notin {"COMPLETED", "FAILED"}
      BY <3>1 DEF OutcomeByPlace
    <3>4. OutcomeByPlace(v)'
      BY <1>2, <2>1, <3>1, <3>2, <3>3, PlacedAt
    <3>5. QED
      BY <2>1, <3>1, <3>4 DEF OutcomeKept
  <2>4. QED
    BY <1>8, <2>2, <2>3 DEF CreateObject
<1>9. CASE RequeueFailed(v)
  <2>1. /\ at[v]["requeue"] > 0 /\ at'[v]["compose_ok"] > 0
        /\ \A r \in Pipeline : r # "compose_ok" => at'[v][r] = 0
        /\ OneInPipeline(v)' /\ completes[v] # 0
    BY <1>2, <1>9, TokenMoves DEF RequeueFailed
  <2>2. /\ created[v] = 0 /\ status[v] \notin {"COMPLETED", "FAILED"}
        /\ ~Exists(v)
    BY <2>1 DEF OutcomeByPlace, RowNeedsBucket
  <2>3. status'[v] = status[v] /\ UNCHANGED created
    BY <1>9, <2>2, StatusLoggedEffect DEF RequeueFailed, Status
  <2>4. OutcomeByPlace(v)'
    BY <1>2, <2>1, <2>2, <2>3, PlacedAt
  <2>5. QED
    BY <2>1, <2>3, <2>4 DEF OutcomeKept
<1>10. CASE SetCompleted(v)
  <2>1. /\ at[v]["set_completed"] > 0 /\ at'[v]["ack_ok"] > 0
        /\ \A r \in Pipeline : r # "ack_ok" => at'[v][r] = 0
        /\ OneInPipeline(v)' /\ completes[v] # 0
    BY <1>2, <1>10, TokenMoves DEF SetCompleted
  <2>2. created[v] > 0 /\ status[v] \notin {"COMPLETED", "FAILED"}
    BY <2>1 DEF OutcomeByPlace
  <2>3. status'[v] = IF Exists(v) THEN "COMPLETED" ELSE status[v]
    BY <1>1, <1>10, StatusWritten DEF SetCompleted, Status
  <2>4. UNCHANGED created /\ (Exists(v)' => status'[v] = "COMPLETED")
    BY <1>10, <2>3 DEF SetCompleted, Exists
  <2>5. OutcomeByPlace(v)'
    BY <1>2, <2>1, <2>2, <2>4, PlacedAt
  <2>6. QED
    BY <2>1, <2>2, <2>5 DEF OutcomeKept
<1>11. CASE Ack(v)
  <2>1. PICK p \in {"ack_ok", "ack_failed"} : Leave(v, p)
    BY <1>11 DEF Ack
  <2>2. /\ at[v][p] > 0 /\ PipelineQuiet(v)' /\ OneInPipeline(v)'
        /\ completes[v] # 0
    BY <1>2, <2>1, TokenLeaves
  <2>3. UNCHANGED <<created, status>>
    BY <1>11 DEF Ack, session
  <2>4. Exists(v) => (status[v] = "COMPLETED" <=> created[v] > 0)
    BY <2>2, CountsAreNat DEF OutcomeByPlace
  <2>5. OutcomeByPlace(v)'
    BY <1>2, <2>2, <2>3, <2>4 DEF OutcomeByPlace, PipelineQuiet, Exists
  <2>6. QED
    BY <2>2, <2>3, <2>5 DEF OutcomeKept
<1>12. QED
  BY <1>4, <1>5, <1>6, <1>7, <1>8, <1>9, <1>10, <1>11 DEF ConsumerStep

(* Every step keeps the outcome of an upload that stays undisturbed. *)
LEMMA OutcomeStep ==
  ASSUME IndInv, IndInv', SingleSendInv, SessionInv, OutcomeInv,
         [Next]_vars, NEW v \in Uploads, Undisturbed(v)'
  PROVE  OutcomeKept(v)
<1>1. TypeOK /\ TypeOK' /\ RowNeedsBucket(v) /\ UnacceptedBeforeInit(v)
  BY DEF IndInv, SessionInv
<1>2. /\ Undisturbed(v) /\ SentOnce(v) /\ Orderly
      /\ status[v] \in {"PROCESSING", "COMPLETED", "FAILED"} => ~CountChunk(v)
  BY <1>1, StaysUndisturbed, NothingLeftToCount
<1>3. OneInPipeline(v) /\ OutcomeByPlace(v)
  BY <1>2 DEF OutcomeInv
<1>4. CASE Untouched(v)
  <2>1. \A r \in Pipeline : at'[v][r] = at[v][r]
    BY <1>4 DEF Untouched
  <2>2. OneInPipeline(v)' /\ OutcomeByPlace(v)'
    BY <1>1, <1>3, <1>4, <2>1, PlacesStay DEF Untouched
  <2>3. QED
    BY <1>4, <2>2 DEF OutcomeKept, Untouched
<1>5. ASSUME NEW u \in Uploads,
             \/ ClientStep(u) \/ HttpStep(u) \/ Compose(u) \/ ConsumerStep(u)
             \/ HttpCrash(u) \/ ConsumerCrash(u) \/ Expire(u)
      PROVE  OutcomeKept(v)
  <2>1. CASE u # v
    BY <1>1, <1>4, <1>5, <2>1, OthersStep
  <2>2. ~ConsumerCrash(u)
    BY <1>2 DEF ConsumerCrash, Orderly
  <2>3. CASE Expire(v)
    BY <1>4, <2>3 DEF Expire, session, history, Untouched
  <2>4. QED
    BY <1>1, <1>2, <1>3, <1>5, <2>1, <2>2, <2>3, OutcomeClient, OutcomeHttp,
       OutcomeConsumer, OutcomeCrash
<1>6. CASE DeleteBucket
  <2>1. /\ ~bucket' /\ ~Exists(v)'
        /\ status'[v] = status[v] \/ status'[v] = "gone"
        /\ UNCHANGED <<at, created, completes>>
    BY <1>6, BucketStep
  <2>2. OneInPipeline(v)' /\ OutcomeByPlace(v)'
    BY <1>1, <1>3, <2>1, PlacesStay
  <2>3. QED
    BY <2>1, <2>2 DEF OutcomeKept
<1>7. CASE UNCHANGED vars
  BY <1>4, <1>7 DEF vars, Untouched
<1>8. QED
  BY <1>5, <1>6, <1>7 DEF Next

LEMMA OutcomeInvariant == Spec => []OutcomeInv
<1>1. Init => OutcomeInv
  <2> SUFFICES ASSUME Init, NEW u \in Uploads
               PROVE  OneInPipeline(u) /\ OutcomeByPlace(u)
    BY DEF OutcomeInv
  <2>1. /\ status[u] = "none" /\ created[u] = 0
        /\ \A p \in Place : at[u][p] = 0
    BY DEF Init
  <2>2. \A p \in Pipeline : at[u][p] = 0
    BY <2>1, PipelineMembers
  <2>3. QED
    BY <2>1, <2>2, PipelineMembers, UndecidedMembers
    DEF OneInPipeline, OutcomeByPlace, PipelineQuiet, Exists, Status
<1>2. /\ IndInv /\ IndInv' /\ SingleSendInv /\ SessionInv /\ OutcomeInv
      /\ [Next]_vars
      => OutcomeInv'
  BY OutcomeStep DEF OutcomeInv, OutcomeKept
<1>3. QED
  BY <1>1, <1>2, IndInvariant, SingleSendInvariant, SessionInvariant, PTL
  DEF Spec

(* A session that has expired stays so. *)
LEMMA ClockRunsOn ==
  ASSUME TypeOK, [Next]_vars, NEW v \in Uploads, expired[v]
  PROVE  expired'[v]
<1>1. ASSUME NEW u \in Uploads, Expire(u)
      PROVE  expired'[v]
  BY <1>1 DEF Expire, TypeOK
<1>2. ASSUME NEW u \in Uploads, ClientStep(u) \/ HttpStep(u)
      PROVE  expired' = expired
  BY <1>2 DEF ClientStep, InitChunkedUpload, UploadChunk,
     CompleteChunkedUpload, AbortChunkedUpload, HttpStep, StoreChunk,
     CountChunk, MarkProcessing, PublishChunkComplete, RevertStatus,
     DeleteSession, CleanupChunks
<1>3. ASSUME NEW u \in Uploads,
             Compose(u) \/ ConsumerStep(u) \/ HttpCrash(u) \/ ConsumerCrash(u)
      PROVE  expired' = expired
  BY <1>3 DEF Compose, ConsumerStep, ReceiveFailed, SetFailed,
     ReceiveCompleted, RecordHash, CreateObject, RequeueFailed,
     SetCompleted, Ack, HttpCrash, ConsumerCrash
<1>4. DeleteBucket \/ UNCHANGED vars => expired' = expired
  BY DEF DeleteBucket, vars
<1>5. QED
  BY <1>1, <1>2, <1>3, <1>4 DEF Next

(* When nothing is left of an undisturbed upload's request to complete,    *)
(* clients see COMPLETED exactly when there is an object, and not when the *)
(* message was answered with a failure, the publication failed or got      *)
(* lost, a replica stopped, or the bucket went away in between.            *)
THEOREM OutcomeAgrees == Spec => []OutcomeMatchesObjects
<1>1. OutcomeInv => OutcomeMatchesObjects
  BY DEF OutcomeInv, OutcomeByPlace, OutcomeMatchesObjects
<1>2. QED
  BY <1>1, OutcomeInvariant, PTL

(* Objects are inserted from one place. *)
LEMMA ObjectsStay ==
  ASSUME TypeOK, [Next]_vars, NEW v \in Uploads
  PROVE  created'[v] = created[v] \/ at[v]["create"] > 0
<1>1. ASSUME NEW u \in Uploads, CreateObject(u)
      PROVE  created'[v] = created[v] \/ at[v]["create"] > 0
  BY <1>1 DEF CreateObject, Move, TypeOK
<1>2. ASSUME NEW u \in Uploads, ClientStep(u) \/ HttpStep(u) \/ Expire(u)
      PROVE  created' = created
  BY <1>2 DEF ClientStep, InitChunkedUpload, UploadChunk,
     CompleteChunkedUpload, AbortChunkedUpload, HttpStep, StoreChunk,
     CountChunk, MarkProcessing, PublishChunkComplete, RevertStatus,
     DeleteSession, CleanupChunks, Expire
<1>3. ASSUME NEW u \in Uploads,
             Compose(u) \/ ConsumerStep(u) \/ HttpCrash(u) \/ ConsumerCrash(u),
             ~CreateObject(u)
      PROVE  created' = created
  BY <1>3 DEF Compose, ConsumerStep, ReceiveFailed, SetFailed,
     ReceiveCompleted, RecordHash, RequeueFailed, SetCompleted, Ack,
     HttpCrash, ConsumerCrash
<1>4. DeleteBucket \/ UNCHANGED vars => created' = created
  BY DEF DeleteBucket, vars
<1>5. QED
  BY <1>1, <1>2, <1>3, <1>4 DEF Next

(* What is made of an upload before Complete has accepted it.              *)
LEMMA UnacceptedStep ==
  ASSUME TypeOK, TypeOK', [Next]_vars, NEW v \in Uploads, completes'[v] = 0,
         UnacceptedHasNothing(v)
  PROVE  /\ UnacceptedHasNothing(v)' /\ created'[v] = created[v]
         /\ status'[v] = "COMPLETED" => status[v] = "COMPLETED"
<1> DEFINE Kept == /\ \A r \in Pipeline : at'[v][r] = at[v][r]
                   /\ created'[v] = created[v]
                   /\ status'[v] = "COMPLETED" => status[v] = "COMPLETED"
                   /\ completes'[v] = completes[v]
<1> USE PipelineMembers DEF history
<1>1. Kept => /\ completes[v] = 0
              /\ UnacceptedHasNothing(v)' /\ created'[v] = created[v]
              /\ status'[v] = "COMPLETED" => status[v] = "COMPLETED"
  BY DEF UnacceptedHasNothing, PipelineQuiet
<1>2. completes[v] = 0 => \A r \in Pipeline : at[v][r] = 0
  BY DEF UnacceptedHasNothing, PipelineQuiet
<1>3. Untouched(v) => Kept
  BY DEF Untouched
<1>4. ASSUME NEW u \in Uploads,
             \/ ClientStep(u) \/ HttpStep(u) \/ Compose(u) \/ ConsumerStep(u)
             \/ HttpCrash(u) \/ ConsumerCrash(u) \/ Expire(u)
      PROVE  Kept
  <2>1. CASE u # v
    BY <1>3, <1>4, <2>1, OthersStep
  <2>2. CASE ClientStep(v)
    <3>1. CASE CompleteChunkedUpload(v)
      <4>1. completes'[v] = completes[v] + 1 /\ completes[v] \in Nat
        BY <3>1 DEF CompleteChunkedUpload, TypeOK
      <4>2. QED
        BY <4>1
    <3>2. CASE InitChunkedUpload(v)
      BY <3>2 DEF InitChunkedUpload, TypeOK
    <3>3. CASE (\E c \in ChunkIndex : UploadChunk(v, c)) \/ AbortChunkedUpload(v)
      <4>1. UNCHANGED <<status, created, completes>>
        BY <3>3 DEF UploadChunk, AbortChunkedUpload, session
      <4>2. \A r \in Pipeline : at'[v][r] = at[v][r]
        BY <3>3 DEF UploadChunk, AbortChunkedUpload, TypeOK
      <4>3. QED
        BY <4>1, <4>2
    <3>4. QED
      BY <2>2, <3>1, <3>2, <3>3 DEF ClientStep
  <2>3. CASE Compose(v) \/ ConsumerStep(v) \/ ConsumerCrash(v)
    <3>1. completes'[v] = completes[v]
      BY <2>3 DEF Compose, ConsumerStep, ReceiveFailed, SetFailed,
         ReceiveCompleted, RecordHash, CreateObject, RequeueFailed,
         SetCompleted, Ack, ConsumerCrash
    <3>2. \E p \in Pipeline : at[v][p] > 0
      BY <2>3 DEF Compose, ConsumerStep, ReceiveFailed, SetFailed,
         ReceiveCompleted, RecordHash, CreateObject, RequeueFailed,
         SetCompleted, Ack, ConsumerCrash, ConsumerPlace, Move, Leave, Pipeline
    <3>3. QED
      BY <1>2, <3>1, <3>2
  <2>4. CASE HttpStep(v) \/ HttpCrash(v)
    <3>1. completes' = completes /\ created' = created
      BY <2>4 DEF HttpStep, StoreChunk, CountChunk, MarkProcessing,
         PublishChunkComplete, RevertStatus, DeleteSession, CleanupChunks,
         HttpCrash
    <3>2. /\ ~MarkProcessing(v) /\ ~PublishChunkComplete(v) /\ ~RevertStatus(v)
          /\ \A p \in Pipeline : ~Leave(v, p)
      BY <1>2, <3>1 DEF MarkProcessing, PublishChunkComplete, RevertStatus,
         Move, Leave
    <3>3. /\ ~MarkProcessing(v) /\ ~PublishChunkComplete(v) /\ ~RevertStatus(v)
      BY <3>2
    <3>4. CASE (\E c \in ChunkIndex : StoreChunk(v, c)) \/ HttpCrash(v)
      <4>1. /\ status' = status
            /\ \/ Enter(v, "increment") \/ UNCHANGED at
               \/ \E p \in HttpPlace : Leave(v, p)
        BY <3>4 DEF StoreChunk, HttpCrash, session
      <4>2. \A r \in Pipeline : at'[v][r] = at[v][r]
        BY <3>2, <4>1, EnterCounts, LeaveCounts, PlaceMembers DEF Place
      <4>3. QED
        BY <3>1, <4>1, <4>2
    <3>5. CASE CountChunk(v)
      <4>1. \A r \in Pipeline : at'[v][r] = at[v][r]
        BY <3>5, LeaveCounts, PlaceMembers DEF CountChunk
      <4>2. status'[v] \in {status[v], "UPLOADING"}
        BY <3>5 DEF CountChunk, IncrementUploadedChunks, session, TypeOK
      <4>3. QED
        BY <3>1, <4>1, <4>2
    <3>6. CASE DeleteSession(v) \/ CleanupChunks(v)
      <4>1. \A r \in Pipeline : at'[v][r] = at[v][r]
        BY <3>6, LeaveCounts, PlaceMembers DEF DeleteSession, CleanupChunks
      <4>2. status'[v] \in {status[v], "gone"}
        BY <3>6 DEF DeleteSession, DeleteRows, CleanupChunks, session
      <4>3. QED
        BY <3>1, <4>1, <4>2
    <3>7. QED
      BY <2>4, <3>3, <3>4, <3>5, <3>6 DEF HttpStep
  <2>5. CASE Expire(v)
    BY <1>3, <2>5 DEF Expire, session, Untouched
  <2>6. QED
    BY <1>4, <2>1, <2>2, <2>3, <2>4, <2>5
<1>5. DeleteBucket => Kept
  BY BucketStep
<1>6. UNCHANGED vars => Kept
  BY <1>3 DEF vars, Untouched
<1>7. QED
  BY <1>1, <1>4, <1>5, <1>6 DEF Next

LEMMA UnacceptedInvariant == Spec => []UnacceptedInv
<1>1. Init => UnacceptedInv
  BY PipelineMembers DEF Init, UnacceptedInv, UnacceptedHasNothing, PipelineQuiet
<1>2. TypeOK /\ TypeOK' /\ UnacceptedInv /\ [Next]_vars => UnacceptedInv'
  <2> SUFFICES ASSUME TypeOK, TypeOK', UnacceptedInv, [Next]_vars,
                      NEW u \in Uploads
               PROVE  UnacceptedHasNothing(u)'
    BY DEF UnacceptedInv
  <2>1. UnacceptedHasNothing(u)
    BY DEF UnacceptedInv
  <2>2. CASE completes'[u] = 0
    BY <2>1, <2>2, UnacceptedStep
  <2>3. CASE completes'[u] # 0
    BY <2>3 DEF UnacceptedHasNothing
  <2>4. QED
    BY <2>2, <2>3
<1>3. QED
  BY <1>1, <1>2, TypeCorrect, PTL DEF Spec

(* Complete accepts no session that has expired, so a session that expired *)
(* before stays EXPIRED and without an object, whatever fails, is sent or  *)
(* is delivered again.                                                     *)
THEOREM ExpiredStaysEmpty == Spec => ExpiredUnlessAccepted
<1>1. TypeOK /\ TypeOK' /\ UnacceptedInv /\ [Next]_vars =>
        [\A u \in Uploads :
           (ReportedStatus(u) = "EXPIRED" /\ completes[u] = 0 /\ Exists(u)') =>
             /\ ReportedStatus(u)' = "EXPIRED"
             /\ completes'[u] = 0 /\ created'[u] = 0]_vars
  <2> SUFFICES ASSUME TypeOK, TypeOK', UnacceptedInv, [Next]_vars,
                      NEW u \in Uploads, ReportedStatus(u) = "EXPIRED",
                      completes[u] = 0
               PROVE  /\ ReportedStatus(u)' = "EXPIRED"
                      /\ completes'[u] = 0 /\ created'[u] = 0
    OBVIOUS
  <2>1. UnacceptedHasNothing(u) /\ created[u] = 0
    BY DEF UnacceptedInv, UnacceptedHasNothing
  <2>2. expired[u] /\ status[u] # "COMPLETED"
    BY DEF ReportedStatus, TypeOK, Status, NoRowStatus
  <2>3. completes'[u] = 0
    <3>1. ASSUME NEW v \in Uploads, CompleteChunkedUpload(v)
          PROVE  v # u /\ completes'[u] = completes[u]
      BY <2>2, <3>1 DEF CompleteChunkedUpload, Active, TypeOK
    <3>2. QED
      BY <3>1, CompletesStay
  <2>4. expired'[u]
    BY <2>2, ClockRunsOn
  <2>5. created'[u] = 0 /\ status'[u] # "COMPLETED"
    BY <2>1, <2>2, <2>3, UnacceptedStep
  <2>6. QED
    BY <2>3, <2>4, <2>5 DEF ReportedStatus
<1>2. QED
  BY <1>1, UnacceptedInvariant, TypeCorrect, PTL DEF Spec, ExpiredUnlessAccepted

----------------------------------------------------------------------------
(* The upload keeps the promise of UploadPromise.                          *)

(* A step that takes nothing past "mark" and opens no session.             *)
LEMMA MarkedStays ==
  ASSUME NEW v \in Uploads, MarkedBeforePublished(v),
         \A r \in Pipeline \ {"mark"} : at'[v][r] = at[v][r],
         status'[v] \in {"INIT", "UPLOADING"} => status[v] \in {"INIT", "UPLOADING"}
  PROVE  MarkedBeforePublished(v)'
BY DEF MarkedBeforePublished

LEMMA MarkedClient ==
  ASSUME TypeOK, NEW v \in Uploads, ClientStep(v), UntouchedBeforeInit(v),
         MarkedBeforePublished(v)
  PROVE  MarkedBeforePublished(v)'
<1>1. CASE InitChunkedUpload(v)
  <2>1. status[v] = "none" /\ at' = at
    BY <1>1 DEF InitChunkedUpload
  <2>2. \A r \in Pipeline : at'[v][r] = 0
    BY <2>1, PipelineMembers DEF UntouchedBeforeInit
  <2>3. QED
    BY <2>2 DEF MarkedBeforePublished
<1>2. CASE (\E c \in ChunkIndex : UploadChunk(v, c)) \/ AbortChunkedUpload(v)
  <2>1. status' = status
    BY <1>2 DEF UploadChunk, AbortChunkedUpload, session
  <2>2. \A r \in Pipeline : at'[v][r] = at[v][r]
    BY <1>2, PipelineMembers DEF UploadChunk, AbortChunkedUpload, TypeOK
  <2>3. QED
    BY <2>1, <2>2, MarkedStays
<1>3. CASE CompleteChunkedUpload(v)
  <2>1. status' = status /\ Enter(v, "mark")
    BY <1>3 DEF CompleteChunkedUpload, session
  <2>2. \A r \in Pipeline \ {"mark"} : at'[v][r] = at[v][r]
    BY <2>1, EnterCounts, PipelineMembers
  <2>3. QED
    BY <2>1, <2>2, MarkedStays
<1>4. QED
  BY <1>1, <1>2, <1>3 DEF ClientStep

(* A replica that stops takes a request with it.                           *)
LEMMA MarkedCrash ==
  ASSUME TypeOK, NEW v \in Uploads, HttpCrash(v), MarkedBeforePublished(v)
  PROVE  MarkedBeforePublished(v)'
<1>1. status' = status
  BY DEF HttpCrash, session
<1>2. \A r \in Pipeline : at'[v][r] > 0 => at[v][r] > 0
  <2>1. CASE UNCHANGED at
    BY <2>1
  <2>2. ASSUME NEW p \in HttpPlace, Leave(v, p)
        PROVE  \A r \in Pipeline : at'[v][r] > 0 => at[v][r] > 0
    <3>1. /\ at[v][p] > 0
          /\ \A r \in Place : r # p => at'[v][r] = at[v][r]
      BY <2>2, LeaveCounts DEF Place
    <3>2. QED
      BY <3>1, PipelineMembers
  <2>3. QED
    BY <2>1, <2>2 DEF HttpCrash
<1>3. QED
  BY <1>1, <1>2 DEF MarkedBeforePublished

LEMMA MarkedHttp ==
  ASSUME TypeOK, TypeOK', NEW v \in Uploads, HttpStep(v), Orderly,
         status[v] \in {"PROCESSING", "COMPLETED", "FAILED"} => ~CountChunk(v),
         OneInPipeline(v), MarkedBeforePublished(v)
  PROVE  MarkedBeforePublished(v)'
<1> USE PipelineMembers DEF history
<1>1. ~Fault("db")
  BY DEF Orderly
<1>2. UNCHANGED completes
  BY DEF HttpStep, StoreChunk, CountChunk, MarkProcessing,
     PublishChunkComplete, RevertStatus, DeleteSession, CleanupChunks
<1>3. CASE (\E c \in ChunkIndex : StoreChunk(v, c)) \/ CleanupChunks(v)
  <2>1. /\ status' = status
        /\ Enter(v, "increment") \/ Leave(v, "cleanup") \/ UNCHANGED at
    BY <1>3 DEF StoreChunk, CleanupChunks, session
  <2>2. \A r \in Pipeline : at'[v][r] = at[v][r]
    BY <2>1, EnterCounts, LeaveCounts, PlaceMembers
  <2>3. QED
    BY <2>1, <2>2, MarkedStays
<1>4. CASE CountChunk(v)
  <2>1. \A r \in Pipeline : at'[v][r] = at[v][r]
    BY <1>4, LeaveCounts, PlaceMembers DEF CountChunk
  <2>2. status'[v] = IF Exists(v) THEN "UPLOADING" ELSE status[v]
    BY <1>1, <1>4 DEF CountChunk, IncrementUploadedChunks, TypeOK
  <2>3. Exists(v) => status[v] \in {"INIT", "UPLOADING"}
    BY <1>4 DEF Exists, Status
  <2>4. QED
    BY <2>1, <2>2, <2>3, MarkedStays
<1>5. CASE MarkProcessing(v)
  <2>1. status'[v] = IF Exists(v) THEN "PROCESSING" ELSE status[v]
    BY <1>1, <1>5, StatusWritten DEF MarkProcessing, Status
  <2>2. status'[v] \notin {"INIT", "UPLOADING"}
    BY <2>1 DEF Exists, Status
  <2>3. QED
    BY <2>2 DEF MarkedBeforePublished
<1>6. CASE PublishChunkComplete(v)
  <2>1. at[v]["publish"] > 0 /\ status' = status
    BY <1>6 DEF PublishChunkComplete, Move, Leave, session
  <2>2. QED
    BY <2>1 DEF MarkedBeforePublished
<1>7. CASE RevertStatus(v)
  <2>1. PipelineQuiet(v)'
    BY <1>2, <1>7, TokenLeaves DEF RevertStatus
  <2>2. \A r \in Pipeline : at'[v][r] = 0
    BY <2>1 DEF PipelineQuiet
  <2>3. QED
    BY <2>2 DEF MarkedBeforePublished
<1>8. CASE DeleteSession(v)
  <2>1. \A r \in Pipeline : at'[v][r] = at[v][r]
    BY <1>8, LeaveCounts, PlaceMembers DEF DeleteSession
  <2>2. status'[v] = IF Exists(v) THEN "gone" ELSE status[v]
    BY <1>1, <1>8 DEF DeleteSession, DeleteRows
  <2>3. QED
    BY <2>1, <2>2, MarkedStays
<1>9. QED
  BY <1>3, <1>4, <1>5, <1>6, <1>7, <1>8 DEF HttpStep

(* Whatever the upload-service and the consumer work on was published.     *)
LEMMA MarkedConsumer ==
  ASSUME TypeOK, NEW v \in Uploads, Compose(v) \/ ConsumerStep(v),
         MarkedBeforePublished(v)
  PROVE  /\ status[v] \notin {"INIT", "UPLOADING"}
         /\ MarkedBeforePublished(v)'
<1>1. \E p \in Pipeline \ {"mark"} : at[v][p] > 0
  BY PipelineMembers DEF Compose, ConsumerStep, ReceiveFailed, SetFailed,
     ReceiveCompleted, RecordHash, CreateObject, RequeueFailed, SetCompleted,
     Ack, Move, Leave
<1>2. status[v] \notin {"INIT", "UPLOADING"}
  BY <1>1 DEF MarkedBeforePublished
<1>3. status'[v] \in {status[v], "FAILED", "COMPLETED"}
  <2>1. CASE SetFailed(v) \/ RequeueFailed(v) \/ SetCompleted(v)
    BY <2>1, StatusLoggedEffect DEF SetFailed, RequeueFailed, SetCompleted, Status
  <2>2. CASE RecordHash(v)
    BY <2>2 DEF RecordHash, UpdateFileHash, session
  <2>3. QED
    BY <2>1, <2>2 DEF Compose, ConsumerStep, ReceiveFailed, ReceiveCompleted,
       CreateObject, Ack, session
<1>4. QED
  BY <1>2, <1>3 DEF MarkedBeforePublished

LEMMA MarkedStep ==
  ASSUME IndInv, IndInv', SingleSendInv, OutcomeInv, MarkedInv,
         [Next]_vars, NEW v \in Uploads, Undisturbed(v)'
  PROVE  MarkedBeforePublished(v)'
<1>1. TypeOK /\ TypeOK' /\ UntouchedBeforeInit(v)
  BY DEF IndInv, UploadInv
<1>2. /\ Undisturbed(v) /\ SentOnce(v) /\ Orderly
      /\ status[v] \in {"PROCESSING", "COMPLETED", "FAILED"} => ~CountChunk(v)
  BY <1>1, StaysUndisturbed, NothingLeftToCount
<1>3. OneInPipeline(v) /\ MarkedBeforePublished(v)
  BY <1>2 DEF OutcomeInv, MarkedInv
<1>4. CASE Untouched(v)
  BY <1>3, <1>4, MarkedStays DEF Untouched
<1>5. ASSUME NEW u \in Uploads,
             \/ ClientStep(u) \/ HttpStep(u) \/ Compose(u) \/ ConsumerStep(u)
             \/ HttpCrash(u) \/ ConsumerCrash(u) \/ Expire(u)
      PROVE  MarkedBeforePublished(v)'
  <2>1. CASE u # v
    BY <1>1, <1>4, <1>5, <2>1, OthersStep
  <2>2. ~ConsumerCrash(u)
    BY <1>2 DEF ConsumerCrash, Orderly
  <2>3. CASE Expire(v)
    BY <1>4, <2>3 DEF Expire, session, history, Untouched
  <2>4. QED
    BY <1>1, <1>2, <1>3, <1>5, <2>1, <2>2, <2>3, MarkedClient, MarkedHttp,
       MarkedConsumer, MarkedCrash
<1>6. CASE DeleteBucket
  <2>1. at' = at /\ (status'[v] = status[v] \/ status'[v] = "gone")
    BY <1>6, BucketStep
  <2>2. QED
    BY <1>3, <2>1, MarkedStays
<1>7. CASE UNCHANGED vars
  BY <1>4, <1>7 DEF vars, Untouched
<1>8. QED
  BY <1>5, <1>6, <1>7 DEF Next

LEMMA MarkedInvariant == Spec => []MarkedInv
<1>1. Init => MarkedInv
  <2> SUFFICES ASSUME Init, NEW u \in Uploads PROVE MarkedBeforePublished(u)
    BY DEF MarkedInv
  <2>1. status[u] = "none"
    BY DEF Init
  <2>2. QED
    BY <2>1 DEF MarkedBeforePublished
<1>2. IndInv /\ IndInv' /\ SingleSendInv /\ OutcomeInv /\ MarkedInv /\ [Next]_vars
      => MarkedInv'
  BY MarkedStep DEF MarkedInv
<1>3. QED
  BY <1>1, <1>2, IndInvariant, SingleSendInvariant, OutcomeInvariant, PTL DEF Spec


(* The three views of an upload, before and after a step. *)
View(u) ==
  /\ Undisturbed(u) =>
       /\ SeenBy(u) = IF status[u] \in {"INIT", "UPLOADING"} THEN "open" ELSE status[u]
       /\ ChunksBy(u) = stored[u] /\ ObjectsBy(u) = created[u]
  /\ ~Undisturbed(u) => SeenBy(u) = "exempt" /\ ChunksBy(u) = {} /\ ObjectsBy(u) = 0

LEMMA Views == \A u \in Uploads : View(u) /\ View(u)'
<1>1. \A u \in Uploads : View(u)
  BY DEF View, SeenBy, ChunksBy, ObjectsBy
<1>2. \A u \in Uploads : View(u)'
  BY DEF View, SeenBy, ChunksBy, ObjectsBy, Undisturbed, SentOnce
<1>3. QED
  BY <1>1, <1>2

(* What the promise sees of an upload does not change in a step. *)
Alike(v) ==
  SeenBy(v)' = SeenBy(v) /\ ChunksBy(v)' = ChunksBy(v) /\ ObjectsBy(v)' = ObjectsBy(v)

LEMMA StutterOf ==
  ASSUME \A v \in Uploads : Alike(v)
  PROVE  [Promise!Next]_(Promise!vars)
BY DEF Alike, Promise!vars

(* Only what the row says of one upload changes. *)
LEMMA TurnOf ==
  ASSUME NEW u \in Uploads, \A v \in Uploads : v # u => Alike(v),
         ChunksBy(u)' = ChunksBy(u), ObjectsBy(u)' = ObjectsBy(u)
  PROVE  Promise!Turn(u, SeenBy(u), SeenBy(u)')
BY DEF Alike, Promise!Turn

(* A failing statement or a redelivery ends the promise for all uploads, a *)
(* second request to complete one, or to store a chunk of it, for this one.*)
LEMMA ExemptOf ==
  ASSUME NEW U \in SUBSET Uploads, \A v \in U : ~Undisturbed(v)',
         \A v \in Uploads \ U : Alike(v)
  PROVE  [Promise!Next]_(Promise!vars)
<1>1. Promise!Exempt(U)
  <2>1. \A v \in U : SeenBy(v)' = "exempt" /\ ChunksBy(v)' = {} /\ ObjectsBy(v)' = 0
    BY Views DEF View
  <2>2. QED
    BY <2>1 DEF Promise!Exempt, Alike
<1>2. QED
  BY <1>1 DEF Promise!Next

LEMMA RemoveOf ==
  ASSUME NEW U \in SUBSET Uploads,
         \A v \in U : /\ SeenBy(v) \in Promise!Session /\ SeenBy(v)' = "gone"
                      /\ ChunksBy(v)' = ChunksBy(v) /\ ObjectsBy(v)' = ObjectsBy(v),
         \A v \in Uploads \ U : Alike(v)
  PROVE  [Promise!Next]_(Promise!vars)
<1>1. Promise!Remove(U)
  BY DEF Promise!Remove, Alike
<1>2. QED
  BY <1>1 DEF Promise!Next

(* Which uploads are undisturbed depends on the failures and on their own  *)
(* requests to store and to complete.                                      *)
LEMMA UndisturbedStays ==
  ASSUME TypeOK, TypeOK', [Next]_vars, Orderly, NEW v \in Uploads,
         completes'[v] = completes[v], sends'[v] = sends[v]
  PROVE  Undisturbed(v)' <=> Undisturbed(v)
<1>1. NoFault \/ \E k \in FaultKind \ {"db", "redelivery"} : Fault(k)
  BY StepFaults DEF Orderly
<1>2. faults'["db"] = faults["db"] /\ faults'["redelivery"] = faults["redelivery"]
  BY <1>1, FaultCounts DEF FaultKind
<1>3. SentOnce(v)' <=> SentOnce(v)
  BY DEF SentOnce
<1>4. QED
  BY <1>2, <1>3 DEF Undisturbed

(* Chunks are sent to one upload at a time. *)
LEMMA SendsOthers ==
  ASSUME NEW u \in Uploads, NEW v \in Uploads, TypeOK,
         \/ ClientStep(u) \/ HttpStep(u) \/ Compose(u) \/ ConsumerStep(u)
         \/ HttpCrash(u) \/ ConsumerCrash(u) \/ Expire(u),
         v # u \/ ~ClientStep(u)
  PROVE  sends'[v] = sends[v]
<1> USE DEF history
<1>1. ASSUME ClientStep(u) PROVE sends'[v] = sends[v]
  BY <1>1 DEF ClientStep, InitChunkedUpload, UploadChunk,
     CompleteChunkedUpload, AbortChunkedUpload, TypeOK
<1>2. ASSUME HttpStep(u) PROVE sends' = sends
  BY <1>2 DEF HttpStep, StoreChunk, CountChunk, MarkProcessing,
     PublishChunkComplete, RevertStatus, DeleteSession, CleanupChunks
<1>3. ASSUME \/ Compose(u) \/ ConsumerStep(u) \/ HttpCrash(u)
             \/ ConsumerCrash(u) \/ Expire(u)
      PROVE  sends' = sends
  BY <1>3 DEF Compose, ConsumerStep, ReceiveFailed, SetFailed,
     ReceiveCompleted, RecordHash, CreateObject, RequeueFailed, SetCompleted,
     Ack, HttpCrash, ConsumerCrash, Expire
<1>4. QED
  BY <1>1, <1>2, <1>3

(* Chunks are stored to one upload at a time. *)
LEMMA StoredOthers ==
  ASSUME NEW u \in Uploads, NEW v \in Uploads, v # u, TypeOK,
         \/ ClientStep(u) \/ HttpStep(u) \/ Compose(u) \/ ConsumerStep(u)
         \/ HttpCrash(u) \/ ConsumerCrash(u) \/ Expire(u)
  PROVE  stored'[v] = stored[v]
<1>1. ASSUME ClientStep(u) PROVE stored'[v] = stored[v]
  BY <1>1 DEF ClientStep, InitChunkedUpload, UploadChunk,
     CompleteChunkedUpload, AbortChunkedUpload
<1>2. ASSUME HttpStep(u) PROVE stored'[v] = stored[v]
  <2>1. ASSUME NEW c \in ChunkIndex, StoreChunk(u, c) PROVE stored'[v] = stored[v]
    BY <2>1 DEF StoreChunk, TypeOK
  <2>2. CASE CleanupChunks(u)
    BY <2>2 DEF CleanupChunks, TypeOK
  <2>3. QED
    BY <1>2, <2>1, <2>2 DEF HttpStep, CountChunk, MarkProcessing,
       PublishChunkComplete, RevertStatus, DeleteSession
<1>3. ASSUME \/ Compose(u) \/ ConsumerStep(u) \/ HttpCrash(u)
             \/ ConsumerCrash(u) \/ Expire(u)
      PROVE  stored'[v] = stored[v]
  BY <1>3 DEF Compose, ConsumerStep, ReceiveFailed, SetFailed,
     ReceiveCompleted, RecordHash, CreateObject, RequeueFailed, SetCompleted,
     Ack, HttpCrash, ConsumerCrash, Expire
<1>4. QED
  BY <1>1, <1>2, <1>3

(* The part of the invariant that the promise needs of one upload. *)
Life(u) ==
  /\ UntouchedBeforeInit(u) /\ RowNeedsBucket(u) /\ UnacceptedBeforeInit(u)
  /\ OneInPipeline(u) /\ OutcomeByPlace(u) /\ MarkedBeforePublished(u)
  /\ created[u] <= 1
  /\ ~PipelineQuiet(u) \/ status[u] \in {"PROCESSING", "COMPLETED", "FAILED"}
       => stored[u] = ChunkIndex /\ \A c \in ChunkIndex : storing[u][c] = 0
  /\ \A c \in stored[u] : storing[u][c] = 0
  /\ status[u] \in {"PROCESSING", "COMPLETED", "FAILED"} => ~CountChunk(u)

LEMMA LifeHolds ==
  ASSUME IndInv, SingleSendInv, SessionInv, OutcomeInv, MarkedInv,
         NEW u \in Uploads, Undisturbed(u), SentOnce(u)
  PROVE  Life(u)
<1>1. /\ UntouchedBeforeInit(u) /\ RowNeedsBucket(u) /\ UnacceptedBeforeInit(u)
      /\ OneInPipeline(u) /\ OutcomeByPlace(u) /\ MarkedBeforePublished(u)
  BY DEF IndInv, UploadInv, SessionInv, OutcomeInv, MarkedInv
<1>2. created[u] <= 1
  <2>1. /\ ObjectBound(u) /\ TypeOK
        /\ completes[u] <= 1 /\ faults["redelivery"] = 0
    BY DEF IndInv, UploadInv, Undisturbed, FaultKind
  <2>2. QED
    BY <2>1, CountsAreNat DEF ObjectBound
<1>3. \A c \in stored[u] : storing[u][c] = 0
  <2>1. StoresAreDistinct(u) /\ TypeOK
    BY DEF SingleSendInv, IndInv
  <2>2. ASSUME NEW c \in stored[u] PROVE storing[u][c] = 0
    <3>1. /\ c \in ChunkIndex /\ storing[u][c] \in Nat /\ sends[u][c] \in Nat
          /\ sends[u][c] <= 1
      BY <2>1 DEF TypeOK, SentOnce
    <3>2. storing[u][c] + 1 <= sends[u][c]
      BY <2>1, <3>1 DEF StoresAreDistinct
    <3>3. QED
      BY <3>1, <3>2
  <2>3. QED
    BY <2>2
<1>4. QED
  BY <1>1, <1>2, <1>3, HandedOverIsWhole, NothingLeftToCount DEF Life

(* The steps of one undisturbed upload, the others being as they were. *)

LEMMA PromiseClient ==
  ASSUME TypeOK, NEW u \in Uploads, \A v \in Uploads : v # u => Alike(v),
         Undisturbed(u), Undisturbed(u)', Life(u), ClientStep(u)
  PROVE  [Promise!Next]_(Promise!vars)
<1>1. UNCHANGED <<stored, created>>
  BY DEF ClientStep, InitChunkedUpload, UploadChunk, CompleteChunkedUpload,
     AbortChunkedUpload
<1>2. ChunksBy(u)' = ChunksBy(u) /\ ObjectsBy(u)' = ObjectsBy(u)
  BY <1>1, Views DEF View
<1>3. CASE InitChunkedUpload(u)
  <2>1. status[u] = "none" /\ status'[u] = "INIT"
    BY <1>3 DEF InitChunkedUpload, TypeOK
  <2>2. SeenBy(u) = "none" /\ SeenBy(u)' = "open"
    BY <2>1, Views DEF View
  <2>3. Promise!Begin(u)
    BY <1>2, <2>2, TurnOf DEF Promise!Begin
  <2>4. QED
    BY <2>3 DEF Promise!Next
<1>4. CASE ~InitChunkedUpload(u)
  <2>1. status' = status
    BY <1>4 DEF ClientStep, UploadChunk, CompleteChunkedUpload,
       AbortChunkedUpload, session
  <2>2. Alike(u)
    BY <1>2, <2>1, Views DEF Alike, View
  <2>3. QED
    BY <2>2, StutterOf
<1>5. QED
  BY <1>3, <1>4

LEMMA PromiseHttp ==
  ASSUME TypeOK, TypeOK', NEW u \in Uploads, \A v \in Uploads : v # u => Alike(v),
         Undisturbed(u), Undisturbed(u)', Life(u), HttpStep(u), Orderly
  PROVE  [Promise!Next]_(Promise!vars)
<1> USE PipelineMembers, UndecidedMembers
<1>1. ~Fault("db")
  BY DEF Orderly
<1>2. created' = created /\ ObjectsBy(u)' = ObjectsBy(u) /\ ObjectsBy(u) = created[u]
  <2>1. created' = created
    BY DEF HttpStep, StoreChunk, CountChunk, MarkProcessing,
       PublishChunkComplete, RevertStatus, DeleteSession, CleanupChunks
  <2>2. QED
    BY <2>1, Views DEF View
<1>3. ASSUME NEW c \in ChunkIndex, StoreChunk(u, c)
      PROVE  [Promise!Next]_(Promise!vars)
  <2>1. storing[u][c] > 0 /\ status' = status
    BY <1>3 DEF StoreChunk, session
  <2>2. c \notin stored[u]
    BY <2>1 DEF Life
  <2>3. stored'[u] = stored[u] \/ stored'[u] = stored[u] \cup {c}
    <3>1. PICK kept \in {stored[u] \cup {c}, stored[u], stored[u] \ {c}} :
            stored' = [stored EXCEPT ![u] = kept]
      BY <1>3 DEF StoreChunk
    <3>2. kept = stored[u] \/ kept = stored[u] \cup {c}
      BY <2>2, <3>1
    <3>3. QED
      BY <3>1, <3>2 DEF TypeOK
  <2>4. status[u] \notin {"none", "PROCESSING", "COMPLETED", "FAILED"}
    BY <2>1 DEF Life, UntouchedBeforeInit, TypeOK
  <2>5. SeenBy(u) \in {"open", "gone"} /\ SeenBy(u)' = SeenBy(u)
    BY <2>1, <2>4, Views DEF TypeOK, Status, NoRowStatus, View
  <2>6. CASE stored'[u] = stored[u]
    BY <1>2, <2>5, <2>6, StutterOf, Views DEF Alike, View
  <2>7. CASE stored'[u] = stored[u] \cup {c}
    <3>1. ChunksBy(u)' = ChunksBy(u) \cup {c}
      BY <2>7, Views DEF View
    <3>2. Promise!Fill(u, c)
      BY <1>2, <2>5, <3>1 DEF Promise!Fill, Alike
    <3>3. QED
      BY <3>2 DEF Promise!Next
  <2>8. QED
    BY <2>3, <2>6, <2>7
<1>5. CASE CountChunk(u) \/ PublishChunkComplete(u) \/ CleanupChunks(u)
  <2>1. SeenBy(u)' = SeenBy(u)
    <3>1. CASE CountChunk(u)
      <4>1. status'[u] = IF Exists(u) THEN "UPLOADING" ELSE status[u]
        BY <1>1, <3>1 DEF CountChunk, IncrementUploadedChunks, TypeOK
      <4>2. Exists(u) => status[u] \in {"INIT", "UPLOADING"}
        BY <3>1 DEF Life, Exists, Status
      <4>3. QED
        BY <4>1, <4>2, Views DEF View
    <3>2. CASE PublishChunkComplete(u) \/ CleanupChunks(u)
      <4>1. status' = status
        BY <3>2 DEF PublishChunkComplete, CleanupChunks, session
      <4>2. QED
        BY <4>1, Views DEF View
    <3>3. QED
      BY <1>5, <3>1, <3>2
  <2>2. stored' = stored
    BY <1>5, CleanupFindsNothing DEF CountChunk, PublishChunkComplete
  <2>3. ChunksBy(u)' = ChunksBy(u)
    BY <2>2, Views DEF View
  <2>4. QED
    BY <1>2, <2>1, <2>3, StutterOf DEF Alike
<1>6. CASE MarkProcessing(u)
  <2>1. /\ at[u]["mark"] > 0 /\ stored' = stored
        /\ status'[u] = IF Exists(u) THEN "PROCESSING" ELSE status[u]
    BY <1>1, <1>6, StatusWritten DEF MarkProcessing, Move, Status
  <2>2. ~PipelineQuiet(u) /\ created[u] = 0 /\ status[u] \notin {"COMPLETED", "FAILED"}
    BY <2>1, CountsAreNat DEF PipelineQuiet, Life, OutcomeByPlace
  <2>3. ChunksBy(u) = ChunkIndex /\ ChunksBy(u)' = ChunksBy(u)
    BY <2>1, <2>2, Views DEF Life, View
  <2>4. CASE status[u] \in {"INIT", "UPLOADING"}
    <3>1. SeenBy(u) = "open" /\ SeenBy(u)' = "PROCESSING"
      BY <2>1, <2>4, Views DEF Exists, Status, View
    <3>2. Promise!HandOver(u)
      BY <1>2, <2>2, <2>3, <3>1, TurnOf DEF Promise!HandOver
    <3>3. QED
      BY <3>2 DEF Promise!Next
  <2>5. CASE status[u] \notin {"INIT", "UPLOADING"}
    <3>1. status'[u] = status[u]
      BY <2>1, <2>2, <2>5 DEF Exists, Status
    <3>2. QED
      BY <1>2, <2>3, <3>1, StutterOf, Views DEF Alike, View
  <2>6. QED
    BY <2>4, <2>5
<1>7. CASE RevertStatus(u)
  <2>1. /\ at[u]["revert"] > 0 /\ stored' = stored
        /\ status'[u] = IF Exists(u) THEN "UPLOADING" ELSE status[u]
    BY <1>1, <1>7, StatusWritten DEF RevertStatus, Leave, Status
  <2>2. /\ created[u] = 0
        /\ status[u] \notin {"COMPLETED", "FAILED", "INIT", "UPLOADING"}
    BY <2>1 DEF Life, OutcomeByPlace, MarkedBeforePublished
  <2>3. ChunksBy(u)' = ChunksBy(u)
    BY <2>1, Views DEF View
  <2>4. CASE status[u] = "PROCESSING"
    <3>1. SeenBy(u) = "PROCESSING" /\ SeenBy(u)' = "open"
      BY <2>1, <2>4, Views DEF Exists, Status, View
    <3>2. Promise!HandBack(u)
      BY <1>2, <2>2, <2>3, <3>1, TurnOf DEF Promise!HandBack
    <3>3. QED
      BY <3>2 DEF Promise!Next
  <2>5. CASE status[u] # "PROCESSING"
    <3>1. status'[u] = status[u]
      BY <2>1, <2>2, <2>5 DEF Exists, Status
    <3>2. QED
      BY <1>2, <2>3, <3>1, StutterOf, Views DEF Alike, View
  <2>6. QED
    BY <2>4, <2>5
<1>8. CASE DeleteSession(u)
  <2>1. /\ stored' = stored
        /\ status'[u] = IF Exists(u) THEN "gone" ELSE status[u]
    BY <1>1, <1>8 DEF DeleteSession, DeleteRows
  <2>2. ChunksBy(u)' = ChunksBy(u)
    BY <2>1, Views DEF View
  <2>3. CASE Exists(u)
    <3>1. SeenBy(u) \in Promise!Session /\ SeenBy(u)' = "gone"
      BY <2>1, <2>3, Views DEF Promise!Session, Exists, Status, View
    <3>2. QED
      BY <1>2, <2>2, <3>1, RemoveOf, {u} \in SUBSET Uploads
  <2>4. CASE ~Exists(u)
    BY <1>2, <2>1, <2>2, <2>4, StutterOf, Views DEF Alike, View
  <2>5. QED
    BY <2>3, <2>4
<1>9. QED
  BY <1>3, <1>5, <1>6, <1>7, <1>8 DEF HttpStep

LEMMA PromiseConsumer ==
  ASSUME TypeOK, TypeOK', NEW u \in Uploads, \A v \in Uploads : v # u => Alike(v),
         Undisturbed(u), Undisturbed(u)', Life(u), Compose(u) \/ ConsumerStep(u),
         Orderly
  PROVE  [Promise!Next]_(Promise!vars)
<1> USE PipelineMembers, UndecidedMembers
<1>1. ~Fault("redelivery") /\ ~Fault("db")
  BY DEF Orderly
<1>2. ChunksBy(u)' = ChunksBy(u) /\ ChunksBy(u) = stored[u]
  <2>1. stored' = stored
    BY DEF Compose, ConsumerStep, ReceiveFailed, SetFailed, ReceiveCompleted,
       RecordHash, CreateObject, RequeueFailed, SetCompleted, Ack
  <2>2. QED
    BY <2>1, Views DEF View
<1>3. status[u] \notin {"INIT", "UPLOADING"}
  BY MarkedConsumer DEF Life
<1>4. ASSUME created' = created, status'[u] = status[u]
      PROVE  [Promise!Next]_(Promise!vars)
  BY <1>2, <1>4, StutterOf, Views DEF Alike, View
<1>5. CASE \/ Compose(u) \/ ReceiveFailed(u) \/ ReceiveCompleted(u)
           \/ RecordHash(u) \/ Ack(u)
  BY <1>4, <1>5 DEF Compose, ReceiveFailed, ReceiveCompleted, RecordHash, Ack,
     UpdateFileHash, session
<1>6. CASE SetFailed(u)
  <2>1. /\ at[u]["set_failed"] > 0 /\ created' = created
        /\ status'[u] = IF Exists(u) THEN "FAILED" ELSE status[u]
    BY <1>1, <1>6, StatusWritten DEF SetFailed, Move, Status
  <2>2. created[u] = 0 /\ status[u] \notin {"COMPLETED", "FAILED"}
    BY <2>1 DEF Life, OutcomeByPlace
  <2>3. CASE Exists(u)
    <3>1. SeenBy(u) = "PROCESSING" /\ SeenBy(u)' = "FAILED"
      BY <1>3, <2>1, <2>2, <2>3, Views DEF Exists, Status, View
    <3>2. Promise!Fail(u)
      BY <1>2, <2>1, <2>2, <3>1, TurnOf, Views DEF Promise!Fail, View
    <3>3. QED
      BY <3>2 DEF Promise!Next
  <2>4. QED
    BY <1>4, <2>1, <2>3
<1>7. CASE CreateObject(u)
  <2>1. at[u]["create"] > 0 /\ status' = status
    BY <1>7 DEF CreateObject, Move, session
  <2>2. CASE created' = created
    BY <1>4, <2>1, <2>2
  <2>3. CASE created' = [created EXCEPT ![u] = @ + 1]
    <3>1. created[u] = 0 /\ status[u] \notin {"COMPLETED", "FAILED"}
      BY <2>1 DEF Life, OutcomeByPlace
    <3>2. ~PipelineQuiet(u)
      BY <2>1, CountsAreNat DEF PipelineQuiet
    <3>3. ChunksBy(u) = ChunkIndex
      BY <1>2, <3>2 DEF Life
    <3>4. status[u] # "none"
      BY <2>1, PlaceMembers DEF Life, UntouchedBeforeInit
    <3>5. SeenBy(u) \in {"PROCESSING", "gone"} /\ SeenBy(u)' = SeenBy(u)
      BY <1>3, <2>1, <3>1, <3>4, Views DEF TypeOK, Status, NoRowStatus, View
    <3>6. ObjectsBy(u) = 0 /\ ObjectsBy(u)' = 1
      BY <2>3, <3>1, Views DEF TypeOK, View
    <3>7. Promise!Deliver(u)
      BY <1>2, <3>3, <3>5, <3>6 DEF Promise!Deliver, Alike
    <3>8. QED
      BY <3>7 DEF Promise!Next
  <2>4. QED
    BY <1>7, <2>2, <2>3 DEF CreateObject
<1>8. CASE RequeueFailed(u)
  <2>1. at[u]["requeue"] > 0 /\ created' = created
    BY <1>8 DEF RequeueFailed, Move
  <2>2. ~Exists(u)
    BY <2>1 DEF Life, OutcomeByPlace, RowNeedsBucket
  <2>3. status'[u] = status[u]
    BY <1>8, <2>2, StatusLoggedEffect DEF RequeueFailed, Status
  <2>4. QED
    BY <1>4, <2>1, <2>3
<1>9. CASE SetCompleted(u)
  <2>1. /\ at[u]["set_completed"] > 0 /\ created' = created
        /\ status'[u] = IF Exists(u) THEN "COMPLETED" ELSE status[u]
    BY <1>1, <1>9, StatusWritten DEF SetCompleted, Move, Status
  <2>2. created[u] = 1 /\ status[u] \notin {"COMPLETED", "FAILED"}
    BY <2>1, CountsAreNat DEF Life, OutcomeByPlace
  <2>3. CASE Exists(u)
    <3>1. SeenBy(u) = "PROCESSING" /\ SeenBy(u)' = "COMPLETED"
      BY <1>3, <2>1, <2>2, <2>3, Views DEF Exists, Status, View
    <3>2. Promise!Complete(u)
      BY <1>2, <2>1, <2>2, <3>1, TurnOf, Views DEF Promise!Complete, View
    <3>3. QED
      BY <3>2 DEF Promise!Next
  <2>4. QED
    BY <1>4, <2>1, <2>3
<1>10. QED
  BY <1>5, <1>6, <1>7, <1>8, <1>9 DEF ConsumerStep

LEMMA UploadStep ==
  ASSUME IndInv, IndInv', SingleSendInv, SessionInv, OutcomeInv, MarkedInv,
         [Next]_vars
  PROVE  [Promise!Next]_(Promise!vars)
<1>1. TypeOK /\ TypeOK'
  BY DEF IndInv
<1>2. CASE ~Orderly
  <2>1. PICK k \in {"db", "redelivery"} : Fault(k)
    BY <1>2 DEF Orderly
  <2>2. faults'[k] # 0
    BY <1>1, <2>1, FaultCounts DEF TypeOK, FaultKind
  <2>3. \A v \in Uploads : ~Undisturbed(v)'
    BY <2>2 DEF Undisturbed, SentOnce
  <2>4. QED
    BY <2>3, ExemptOf, Uploads \in SUBSET Uploads
<1>3. CASE Orderly
  <2>1. ASSUME NEW v \in Uploads, Untouched(v), stored'[v] = stored[v],
               sends'[v] = sends[v]
        PROVE  Alike(v)
    <3>1. Undisturbed(v)' <=> Undisturbed(v)
      BY <1>1, <1>3, <2>1, UndisturbedStays DEF Untouched
    <3>2. QED
      BY <2>1, <3>1, Views DEF Alike, Untouched, View
  <2>2. ASSUME NEW u \in Uploads,
               \/ ClientStep(u) \/ HttpStep(u) \/ Compose(u) \/ ConsumerStep(u)
               \/ HttpCrash(u) \/ ConsumerCrash(u) \/ Expire(u)
        PROVE  [Promise!Next]_(Promise!vars)
    <3>1. \A v \in Uploads : v # u => Alike(v)
      BY <1>1, <2>1, <2>2, OthersStep, StoredOthers, SendsOthers
    <3>2. CASE ~Undisturbed(u)'
      BY <3>1, <3>2, ExemptOf, {u} \in SUBSET Uploads
    <3>3. CASE Undisturbed(u)'
      <4>1. Undisturbed(u) /\ Life(u)
        BY <1>1, <3>3, StaysUndisturbed, LifeHolds
      <4>2. ~ConsumerCrash(u)
        BY <1>3 DEF ConsumerCrash, Orderly
      <4>3. CASE Expire(u) \/ HttpCrash(u)
        <5>1. UNCHANGED <<status, stored, created>>
          BY <4>3 DEF Expire, HttpCrash, session, history
        <5>2. Alike(u)
          BY <3>3, <4>1, <5>1, Views DEF Alike, View
        <5>3. QED
          BY <3>1, <5>2, StutterOf
      <4>4. QED
        BY <1>1, <1>3, <2>2, <3>1, <3>3, <4>1, <4>2, <4>3, PromiseClient,
           PromiseHttp, PromiseConsumer
    <3>4. QED
      BY <3>2, <3>3
  <2>3. CASE DeleteBucket
    <3> DEFINE U == {v \in Uploads : Undisturbed(v) /\ Exists(v)}
    <3>1. ASSUME NEW v \in Uploads
          PROVE  /\ status'[v] = IF Exists(v) THEN "gone" ELSE status[v]
                 /\ stored' = stored /\ created' = created
                 /\ Undisturbed(v)' <=> Undisturbed(v)
      <4>1. UNCHANGED <<stored, created, completes, sends>>
        BY <2>3 DEF DeleteBucket, history
      <4>2. status'[v] = IF Exists(v) THEN "gone" ELSE status[v]
        BY <2>3 DEF DeleteBucket, DeleteRows
      <4>3. QED
        BY <1>1, <1>3, <4>1, <4>2, UndisturbedStays
    <3>2. \A v \in U : /\ SeenBy(v) \in Promise!Session /\ SeenBy(v)' = "gone"
                       /\ ChunksBy(v)' = ChunksBy(v) /\ ObjectsBy(v)' = ObjectsBy(v)
      BY <3>1, Views DEF Promise!Session, Exists, Status, View
    <3>3. \A v \in Uploads \ U : Alike(v)
      BY <3>1, Views DEF Alike, View
    <3>4. U \in SUBSET Uploads
      OBVIOUS
    <3> HIDE DEF U
    <3>5. QED
      BY <3>2, <3>3, <3>4, RemoveOf
  <2>4. CASE UNCHANGED vars
    <3>1. \A v \in Uploads : Alike(v)
      BY <2>1, <2>4 DEF vars, Untouched
    <3>2. QED
      BY <3>1, StutterOf
  <2>5. QED
    BY <2>2, <2>3, <2>4 DEF Next
<1>4. QED
  BY <1>2, <1>3

(* Every undisturbed upload goes through the life of UploadPromise: it is  *)
(* handed over whole and once, is not written to while it is composed,     *)
(* becomes one object or none, and reads COMPLETED after the object and    *)
(* FAILED without one.                                                     *)
THEOREM UploadIsKept == Spec => UploadKept
<1>1. Init => Promise!Init
  <2> SUFFICES ASSUME Init PROVE Promise!Init
    OBVIOUS
  <2>1. \A v \in Uploads : Undisturbed(v)
    BY DEF Init, Undisturbed, SentOnce, FaultKind
  <2>2. \A v \in Uploads : SeenBy(v) = "none" /\ ChunksBy(v) = {} /\ ObjectsBy(v) = 0
    BY <2>1, Views DEF Init, View
  <2>3. QED
    BY <2>2 DEF Promise!Init
<1>2. /\ IndInv /\ IndInv' /\ SingleSendInv /\ SessionInv /\ OutcomeInv
      /\ MarkedInv /\ [Next]_vars
      => [Promise!Next]_(Promise!vars)
  BY UploadStep
<1>3. QED
  BY <1>1, <1>2, IndInvariant, SingleSendInvariant, SessionInvariant,
     OutcomeInvariant, MarkedInvariant, PTL DEF Spec, UploadKept, Promise!Spec

=============================================================================
