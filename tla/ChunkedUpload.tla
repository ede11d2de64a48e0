--------------------------- MODULE ChunkedUpload ---------------------------
(***************************************************************************)
(* The chunked upload of a large file: the HTTP handlers of                *)
(* http/controller/object.go, the session table behind                     *)
(* repository/upload_session.go, the two queues of                         *)
(* infra/produce/upload_produce.go, and the consumer of                    *)
(* consumer/worker/upload.go.  The upload-service, which stores the chunks *)
(* and composes them, is another program: it is modelled from the way this *)
(* one uses it.                                                            *)
(*                                                                         *)
(* No handler opens a transaction, so every SQL statement, call to the     *)
(* upload-service, publication and acknowledgement is a step of its own    *)
(* and the steps of all requests and messages interleave.  A request or a  *)
(* message is a token at the place it has reached; requests that are at    *)
(* the same place of the same upload are interchangeable, so at[u][p] only *)
(* counts them.                                                            *)
(***************************************************************************)
EXTENDS Integers, FiniteSets

CONSTANTS
  Uploads,      \* the uuids that InitChunkedUpload may draw
  TotalChunks,  \* number of chunks the server decided on for a file
  TempBucket,   \* Config.LargeFile.TempBucket, recorded in the session
  MaxSends,     \* bound: times the client sends one chunk (1: no retry)
  MaxCompletes, \* bound: Complete requests of the client for one upload
  MaxFaults     \* bound: failures of each kind in a behaviour

(* What may fail: the upload-service while it stores a chunk, the database *)
(* on one statement, a publication with an error, a publication that is    *)
(* lost without one (the channel is not in confirm mode), the HTTP replica *)
(* in the middle of a request, and the receiver of a message before its    *)
(* acknowledgement, so that the broker delivers the message again.         *)
FaultKind == {"store", "db", "publish", "lost", "http_crash", "redelivery"}

ASSUME TotalChunksAssumption == TotalChunks \in Nat \ {0}
ASSUME BoundsAssumption ==
  /\ MaxSends \in Nat \ {0}
  /\ MaxCompletes \in Nat
  /\ MaxFaults \in [FaultKind -> Nat]

ChunkIndex == 0 .. TotalChunks - 1

Status == {"INIT", "UPLOADING", "PROCESSING", "COMPLETED", "FAILED"}

(* "none": InitChunkedUpload has not drawn this uuid; "gone": the row was  *)
(* deleted, by an abort or by the cascade of its bucket.                   *)
NoRowStatus == {"none", "gone"}

HttpPlace == {"increment", "mark", "publish", "revert", "delete", "cleanup"}
QueuePlace == {"chunk_complete", "compose_ok", "compose_failed"}
ConsumerPlace == {"set_failed", "ack_failed", "hash", "create", "requeue",
                  "set_completed", "ack_ok"}
Place == HttpPlace \cup QueuePlace \cup ConsumerPlace

VARIABLES
  bucket,     \* the row of the target bucket exists
  status,     \* table upload_sessions, column status; or why there is no row
  uploaded,   \* table upload_sessions, column uploaded_chunks
  hash,       \* table upload_sessions: column file_hash is set
  expired,    \* time.Now() is after the row's expires_at
  stored,     \* whole chunks the upload-service holds under ChunkLocation(u)
  storing,    \* UploadChunk requests that passed their checks, per chunk
  at,         \* the other requests and messages, at the place they reached
  created,    \* history: rows of table objects inserted for the upload
  sends,      \* history: UploadChunk requests accepted, per chunk
  stores,     \* history: chunk stores the upload-service confirmed
  completes,  \* history: Complete requests accepted
  faults      \* history: failures of each kind

session == <<status, uploaded, hash>>

vars == <<bucket, status, uploaded, hash, expired, stored, storing, at, created,
          sends, stores, completes, faults>>

history == <<sends, stores, completes>>

Init ==
  /\ bucket = TRUE
  /\ status = [u \in Uploads |-> "none"]
  /\ uploaded = [u \in Uploads |-> 0]
  /\ hash = [u \in Uploads |-> FALSE]
  /\ expired = [u \in Uploads |-> FALSE]
  /\ stored = [u \in Uploads |-> {}]
  /\ storing = [u \in Uploads |-> [c \in ChunkIndex |-> 0]]
  /\ at = [u \in Uploads |-> [p \in Place |-> 0]]
  /\ created = [u \in Uploads |-> 0]
  /\ sends = [u \in Uploads |-> [c \in ChunkIndex |-> 0]]
  /\ stores = [u \in Uploads |-> 0]
  /\ completes = [u \in Uploads |-> 0]
  /\ faults = [k \in FaultKind |-> 0]

----------------------------------------------------------------------------
(* Helpers. *)

Exists(u) == status[u] \in Status

(* The guard UploadChunk and CompleteChunkedUpload share. *)
Active(u) == status[u] \in {"INIT", "UPLOADING"} /\ ~expired[u]

(* A failure of kind k happens in this step, or none does. *)
Fault(k) == faults[k] < MaxFaults[k] /\ faults' = [faults EXCEPT ![k] = @ + 1]
NoFault == UNCHANGED faults

(* One request or message moves, appears, or ends. *)
Move(u, p, q) ==
  /\ at[u][p] > 0
  /\ at' = [at EXCEPT ![u][p] = @ - 1, ![u][q] = @ + 1]
Enter(u, q) == at' = [at EXCEPT ![u][q] = @ + 1]
Leave(u, p) == at[u][p] > 0 /\ at' = [at EXCEPT ![u][p] = @ - 1]

(* UPDATE ... WHERE id = u touches no row, and is no error, when the row   *)
(* is gone.                                                                *)
UpdateStatus(u, s) ==
  /\ status' = IF Exists(u) THEN [status EXCEPT ![u] = s] ELSE status
  /\ UNCHANGED <<uploaded, hash>>

UpdateFileHash(u) ==
  /\ hash' = IF Exists(u) THEN [hash EXCEPT ![u] = TRUE] ELSE hash
  /\ UNCHANGED <<status, uploaded>>

(* One SQL statement: the counter and the status, whatever it was.         *)
IncrementUploadedChunks(u) ==
  /\ uploaded' = IF Exists(u) THEN [uploaded EXCEPT ![u] = @ + 1] ELSE uploaded
  /\ status' = IF Exists(u) THEN [status EXCEPT ![u] = "UPLOADING"] ELSE status
  /\ UNCHANGED hash

(* DELETE ... WHERE id = u.                                                *)
DeleteRows(rows) ==
  LET gone == {u \in rows : Exists(u)}
  IN  /\ status' = [u \in Uploads |-> IF u \in gone THEN "gone" ELSE status[u]]
      /\ uploaded' = [u \in Uploads |-> IF u \in gone THEN 0 ELSE uploaded[u]]
      /\ hash' = [u \in Uploads |-> IF u \in gone THEN FALSE ELSE hash[u]]

(* Statements whose error is only logged: the handler goes on either way.  *)
StatusLogged(u, s) ==
  \/ UpdateStatus(u, s) /\ NoFault
  \/ Fault("db") /\ UNCHANGED session

(* Where UploadChunk puts the chunks, as <<bucket, path>>, and where the   *)
(* session that InitChunkedUpload wrote says they are.                     *)
ChunkLocation(u) == <<"pending", <<u>>>>
TempLocation(u) == <<TempBucket, <<"pending", u>>>>

----------------------------------------------------------------------------
(* Slips of the steps below, each named for what it gets wrong.            *)

StoreCountedWhenFailed(u, c) ==
  /\ storing[u][c] > 0
  /\ storing' = [storing EXCEPT ![u][c] = @ - 1]
  /\ Enter(u, "increment")
  /\ \/ /\ stored' = [stored EXCEPT ![u] = @ \cup {c}]
        /\ stores' = [stores EXCEPT ![u] = @ + 1]
        /\ NoFault
     \/ Fault("store") /\ UNCHANGED <<stored, stores>>
  /\ UNCHANGED <<bucket, session, expired, created, sends, completes>>

CompleteOneShort(u) ==
  /\ Active(u)
  /\ uploaded[u] >= TotalChunks - 1
  /\ completes[u] < MaxCompletes
  /\ completes' = [completes EXCEPT ![u] = @ + 1]
  /\ Enter(u, "mark")
  /\ UNCHANGED <<bucket, session, expired, stored, storing, created, sends,
                 stores, faults>>

CompleteWhenExpired(u) ==
  /\ status[u] \in {"INIT", "UPLOADING"}
  /\ uploaded[u] = TotalChunks
  /\ completes[u] < MaxCompletes
  /\ completes' = [completes EXCEPT ![u] = @ + 1]
  /\ Enter(u, "mark")
  /\ UNCHANGED <<bucket, session, expired, stored, storing, created, sends,
                 stores, faults>>

PublishRetriedAfterSuccess(u) ==
  /\ \/ Move(u, "publish", "chunk_complete") /\ NoFault
     \/ at[u]["publish"] > 0 /\ Enter(u, "chunk_complete") /\ Fault("publish")
  /\ UNCHANGED <<bucket, session, expired, stored, storing, created, history>>

PublishErrorNotReverted(u) ==
  /\ \/ Move(u, "publish", "chunk_complete") /\ NoFault
     \/ Leave(u, "publish") /\ (Fault("publish") \/ Fault("lost"))
  /\ UNCHANGED <<bucket, session, expired, stored, storing, created, history>>

FailureMarkedCompleted(u) ==
  /\ Move(u, "set_failed", "ack_failed")
  /\ StatusLogged(u, "COMPLETED")
  /\ UNCHANGED <<bucket, expired, stored, storing, created, history>>

HashNotRecorded(u) ==
  /\ Move(u, "hash", "create")
  /\ UNCHANGED <<bucket, session, expired, stored, storing, created, history,
                 faults>>

CompletedBeforeObject(u) ==
  /\ Move(u, "hash", "create")
  /\ StatusLogged(u, "COMPLETED")
  /\ UNCHANGED <<bucket, expired, stored, storing, created, history>>

CreateErrorIgnored(u) ==
  /\ Move(u, "create", "set_completed")
  /\ \/ bucket /\ created' = [created EXCEPT ![u] = @ + 1] /\ NoFault
     \/ UNCHANGED created /\ ((~bucket /\ NoFault) \/ Fault("db"))
  /\ UNCHANGED <<bucket, session, expired, stored, storing, history>>

CrashLosesMessage(u) ==
  /\ Fault("redelivery")
  /\ \E p \in ConsumerPlace : Leave(u, p)
  /\ UNCHANGED <<bucket, session, expired, stored, storing, created, history>>

----------------------------------------------------------------------------
(* HTTP: InitChunkedUpload, UploadChunk. *)

InitChunkedUpload(u) ==
  /\ bucket
  /\ status[u] = "none"
  /\ status' = [status EXCEPT ![u] = "INIT"]
  /\ uploaded' = [uploaded EXCEPT ![u] = 0]
  /\ hash' = [hash EXCEPT ![u] = FALSE]
  /\ UNCHANGED <<bucket, expired, stored, storing, at, created, history, faults>>

(* The checks of UploadChunk, on the row it has just read. *)
UploadChunk(u, c) ==
  /\ Active(u)
  /\ sends[u][c] < MaxSends
  /\ sends' = [sends EXCEPT ![u][c] = @ + 1]
  /\ storing' = [storing EXCEPT ![u][c] = @ + 1]
  /\ UNCHANGED <<bucket, session, expired, stored, at, created, stores,
                 completes, faults>>

(* The call to the upload-service.  When it fails the client gets a 500;   *)
(* the file may be there or not, and a body that broke off in the middle   *)
(* may have replaced a whole file (the stream is then closed as if it had  *)
(* ended).                                                                 *)
StoreChunk(u, c) ==
  /\ storing[u][c] > 0
  /\ storing' = [storing EXCEPT ![u][c] = @ - 1]
  /\ \/ /\ stored' = [stored EXCEPT ![u] = @ \cup {c}]
        /\ stores' = [stores EXCEPT ![u] = @ + 1]
        /\ Enter(u, "increment")
        /\ NoFault
     \/ /\ Fault("store")
        /\ \E kept \in {stored[u] \cup {c}, stored[u], stored[u] \ {c}} :
             stored' = [stored EXCEPT ![u] = kept]
        /\ UNCHANGED <<at, stores>>
  /\ UNCHANGED <<bucket, session, expired, created, sends, completes>>

(* The end of UploadChunk; an error of the statement is only logged and    *)
(* the client gets its 200 all the same.                                   *)
CountChunk(u) ==
  /\ Leave(u, "increment")
  /\ \/ IncrementUploadedChunks(u) /\ NoFault
     \/ Fault("db") /\ UNCHANGED session
  /\ UNCHANGED <<bucket, expired, stored, storing, created, history>>

----------------------------------------------------------------------------
(* HTTP: CompleteChunkedUpload. *)

(* "Missing chunks" is answered unless the counter equals the total. *)
CompleteChunkedUpload(u) ==
  /\ Active(u)
  /\ uploaded[u] = TotalChunks
  /\ completes[u] < MaxCompletes
  /\ completes' = [completes EXCEPT ![u] = @ + 1]
  /\ Enter(u, "mark")
  /\ UNCHANGED <<bucket, session, expired, stored, storing, created, sends,
                 stores, faults>>

MarkProcessing(u) ==
  /\ Move(u, "mark", "publish")
  /\ StatusLogged(u, "PROCESSING")
  /\ UNCHANGED <<bucket, expired, stored, storing, created, history>>

(* The client gets 202, even when the broker never sees the message, or a  *)
(* 500 after the status is put back.                                       *)
PublishChunkComplete(u) ==
  /\ \/ Move(u, "publish", "chunk_complete") /\ NoFault
     \/ Move(u, "publish", "revert") /\ Fault("publish")
     \/ Leave(u, "publish") /\ Fault("lost")
  /\ UNCHANGED <<bucket, session, expired, stored, storing, created, history>>

RevertStatus(u) ==
  /\ Leave(u, "revert")
  /\ StatusLogged(u, "UPLOADING")
  /\ UNCHANGED <<bucket, expired, stored, storing, created, history>>

----------------------------------------------------------------------------
(* HTTP: AbortChunkedUpload. *)

(* The row is read, in any status, and a goroutine is started to delete    *)
(* the chunks.  Bound: one abort of an upload at a time.                   *)
AbortChunkedUpload(u) ==
  /\ Exists(u)
  /\ at[u]["delete"] = 0 /\ at[u]["cleanup"] = 0
  /\ at' = [at EXCEPT ![u]["delete"] = 1, ![u]["cleanup"] = 1]
  /\ UNCHANGED <<bucket, session, expired, stored, storing, created, history,
                 faults>>

DeleteSession(u) ==
  /\ Leave(u, "delete")
  /\ \/ DeleteRows({u}) /\ NoFault
     \/ Fault("db") /\ UNCHANGED session
  /\ UNCHANGED <<bucket, expired, stored, storing, created, history>>

(* The goroutine deletes what is under the session's temporary location.   *)
(* It uses the request's context, which is cancelled when the handler has  *)
(* returned: then it deletes nothing.                                      *)
CleanupChunks(u) ==
  /\ Leave(u, "cleanup")
  /\ \/ stored' = IF TempLocation(u) = ChunkLocation(u)
                  THEN [stored EXCEPT ![u] = {}] ELSE stored
     \/ at[u]["delete"] = 0 /\ UNCHANGED stored
  /\ UNCHANGED <<bucket, session, expired, storing, created, history, faults>>

----------------------------------------------------------------------------
(* The upload-service: one answer per chunk_complete message, or two when  *)
(* the broker delivers the message to it again.                            *)

Compose(u) ==
  /\ \E result \in {"compose_ok", "compose_failed"} :
       \/ Move(u, "chunk_complete", result) /\ NoFault
       \/ at[u]["chunk_complete"] > 0 /\ Enter(u, result) /\ Fault("redelivery")
  /\ UNCHANGED <<bucket, session, expired, stored, storing, created, history>>

----------------------------------------------------------------------------
(* The consumer: handleComposeCompleted. *)

ReceiveFailed(u) ==
  /\ Move(u, "compose_failed", "set_failed")
  /\ UNCHANGED <<bucket, session, expired, stored, storing, created, history,
                 faults>>

SetFailed(u) ==
  /\ Move(u, "set_failed", "ack_failed")
  /\ StatusLogged(u, "FAILED")
  /\ UNCHANGED <<bucket, expired, stored, storing, created, history>>

ReceiveCompleted(u) ==
  /\ Move(u, "compose_ok", "hash")
  /\ UNCHANGED <<bucket, session, expired, stored, storing, created, history,
                 faults>>

RecordHash(u) ==
  /\ Move(u, "hash", "create")
  /\ \/ UpdateFileHash(u) /\ NoFault
     \/ Fault("db") /\ UNCHANGED session
  /\ UNCHANGED <<bucket, expired, stored, storing, created, history>>

(* INSERT of the object under a fresh uuid; it fails when the bucket's row *)
(* is gone (foreign key) or the database does.                             *)
CreateObject(u) ==
  /\ \/ /\ bucket
        /\ Move(u, "create", "set_completed")
        /\ created' = [created EXCEPT ![u] = @ + 1]
        /\ NoFault
     \/ /\ Move(u, "create", "requeue")
        /\ (~bucket /\ NoFault) \/ Fault("db")
        /\ UNCHANGED created
  /\ UNCHANGED <<bucket, session, expired, stored, storing, history>>

(* FAILED, then Nack with requeue: the message will be tried again. *)
RequeueFailed(u) ==
  /\ Move(u, "requeue", "compose_ok")
  /\ StatusLogged(u, "FAILED")
  /\ UNCHANGED <<bucket, expired, stored, storing, created, history>>

SetCompleted(u) ==
  /\ Move(u, "set_completed", "ack_ok")
  /\ StatusLogged(u, "COMPLETED")
  /\ UNCHANGED <<bucket, expired, stored, storing, created, history>>

Ack(u) ==
  /\ Leave(u, "ack_ok") \/ Leave(u, "ack_failed")
  /\ UNCHANGED <<bucket, session, expired, stored, storing, created, history,
                 faults>>

----------------------------------------------------------------------------
(* The environment: crashes, the clock, and the deletion of the bucket.    *)

(* A replica of the HTTP server stops: nothing resumes its requests. *)
HttpCrash(u) ==
  /\ Fault("http_crash")
  /\ \/ \E p \in HttpPlace : Leave(u, p) /\ UNCHANGED storing
     \/ \E c \in ChunkIndex :
          /\ storing[u][c] > 0
          /\ storing' = [storing EXCEPT ![u][c] = @ - 1]
          /\ UNCHANGED at
  /\ UNCHANGED <<bucket, session, expired, stored, created, history>>

(* A consumer stops before it acknowledges: the broker queues the message  *)
(* again and every step of its handler will be repeated.                   *)
ConsumerCrash(u) ==
  /\ Fault("redelivery")
  /\ \/ \E p \in {"set_failed", "ack_failed"} : Move(u, p, "compose_failed")
     \/ \E p \in ConsumerPlace \ {"set_failed", "ack_failed"} :
          Move(u, p, "compose_ok")
  /\ UNCHANGED <<bucket, session, expired, stored, storing, created, history>>

Expire(u) ==
  /\ Exists(u) /\ ~expired[u]
  /\ expired' = [expired EXCEPT ![u] = TRUE]
  /\ UNCHANGED <<bucket, session, stored, storing, at, created, history,
                 faults>>

(* DeleteBucketByID deletes the row of the bucket; upload_sessions follows *)
(* by ON DELETE CASCADE.                                                   *)
DeleteBucket ==
  /\ bucket
  /\ bucket' = FALSE
  /\ DeleteRows(Uploads)
  /\ UNCHANGED <<expired, stored, storing, at, created, history, faults>>

----------------------------------------------------------------------------
HttpStep(u) ==
  \/ \E c \in ChunkIndex : StoreChunk(u, c)
  \/ CountChunk(u)
  \/ MarkProcessing(u)
  \/ PublishChunkComplete(u)
  \/ RevertStatus(u)
  \/ DeleteSession(u)
  \/ CleanupChunks(u)

ConsumerStep(u) ==
  \/ ReceiveFailed(u)
  \/ SetFailed(u)
  \/ ReceiveCompleted(u)
  \/ RecordHash(u)
  \/ CreateObject(u)
  \/ RequeueFailed(u)
  \/ SetCompleted(u)
  \/ Ack(u)

ClientStep(u) ==
  \/ InitChunkedUpload(u)
  \/ \E c \in ChunkIndex : UploadChunk(u, c)
  \/ CompleteChunkedUpload(u)
  \/ AbortChunkedUpload(u)

Next ==
  \/ \E u \in Uploads :
       \/ ClientStep(u) \/ HttpStep(u) \/ Compose(u) \/ ConsumerStep(u)
       \/ HttpCrash(u) \/ ConsumerCrash(u) \/ Expire(u)
  \/ DeleteBucket

Spec == Init /\ [][Next]_vars

(* A request that was accepted runs on and a queued message is delivered:  *)
(* goroutines are scheduled and RabbitMQ delivers while a consumer lives.  *)
(* The client, the clock, the crashes and the other faults owe nothing.    *)
Fairness ==
  \A u \in Uploads :
    /\ \A c \in ChunkIndex : WF_vars(StoreChunk(u, c))
    /\ WF_vars(CountChunk(u))
    /\ WF_vars(MarkProcessing(u))
    /\ WF_vars(PublishChunkComplete(u))
    /\ WF_vars(RevertStatus(u))
    /\ WF_vars(DeleteSession(u))
    /\ WF_vars(CleanupChunks(u))
    /\ WF_vars(Compose(u))
    /\ WF_vars(ReceiveFailed(u))
    /\ WF_vars(SetFailed(u))
    /\ WF_vars(ReceiveCompleted(u))
    /\ WF_vars(RecordHash(u))
    /\ WF_vars(CreateObject(u))
    /\ WF_vars(RequeueFailed(u))
    /\ WF_vars(SetCompleted(u))
    /\ WF_vars(Ack(u))

FairSpec == Spec /\ Fairness

----------------------------------------------------------------------------
(* The type invariant. *)
TypeOK ==
  /\ bucket \in BOOLEAN
  /\ status \in [Uploads -> Status \cup NoRowStatus]
  /\ uploaded \in [Uploads -> Nat]
  /\ hash \in [Uploads -> BOOLEAN]
  /\ expired \in [Uploads -> BOOLEAN]
  /\ stored \in [Uploads -> SUBSET ChunkIndex]
  /\ storing \in [Uploads -> [ChunkIndex -> Nat]]
  /\ at \in [Uploads -> [Place -> Nat]]
  /\ created \in [Uploads -> Nat]
  /\ sends \in [Uploads -> [ChunkIndex -> Nat]]
  /\ stores \in [Uploads -> Nat]
  /\ completes \in [Uploads -> Nat]
  /\ faults \in [FaultKind -> Nat]

(* Places of an upload whose CompleteChunkedUpload passed its checks. *)
Pipeline == {"mark", "publish", "revert"} \cup QueuePlace \cup ConsumerPlace

(* No request to complete the upload is anywhere in the pipeline. *)
PipelineQuiet(u) == \A p \in Pipeline : at[u][p] = 0

(* The counter that CompleteChunkedUpload trusts never runs ahead of the   *)
(* upload-service: increments done and increments still to do are no more  *)
(* than the stores it confirmed, whatever replica crashes or statement     *)
(* fails in between.                                                       *)
NeverOverstates(u) ==
  Exists(u) => uploaded[u] + at[u]["increment"] <= stores[u]
CounterNeverOverstates == \A u \in Uploads : NeverOverstates(u)

(* A request to compose is on its way, or a session is past UPLOADING,     *)
(* only after the stores confirmed for it reached the total; and neither a *)
(* revert nor a redelivery takes the counter below it.                     *)
RequestedWhenCounted(u) ==
  /\ ~PipelineQuiet(u) => stores[u] >= TotalChunks
  /\ (Exists(u) /\ (~PipelineQuiet(u) \/
        status[u] \in {"PROCESSING", "COMPLETED", "FAILED"}))
       => uploaded[u] >= TotalChunks
ComposeOnlyWhenCounted == \A u \in Uploads : RequestedWhenCounted(u)

(* CompleteChunkedUpload says it verifies "all chunks have been uploaded": *)
(* whatever travels to the upload-service or back from it belongs to an    *)
(* upload whose every chunk is stored.                                     *)
ComposeHasAllChunks ==
  \A u \in Uploads : ~PipelineQuiet(u) => stored[u] = ChunkIndex

(* A client polls until COMPLETED and then fetches the object: the status  *)
(* is never COMPLETED before the consumer has inserted an object row, in   *)
(* whatever order results, redeliveries and late statements arrive.        *)
CompletedHasObject ==
  \A u \in Uploads : status[u] = "COMPLETED" => created[u] > 0

(* handleComposeCompleted inserts an object per delivery, so one upload    *)
(* may end as several objects; but never more of them, those still to come *)
(* included, than Complete requests were accepted and messages redelivered.*)
ObjectBound(u) ==
  created[u] + at[u]["mark"] + at[u]["publish"] + at[u]["chunk_complete"]
    + at[u]["compose_ok"] + at[u]["hash"] + at[u]["create"] + at[u]["requeue"]
    <= completes[u] + faults["redelivery"]
ObjectsBounded == \A u \in Uploads : ObjectBound(u)

(* The client sent no chunk twice. *)
SentOnce(u) == \A c \in ChunkIndex : sends[u][c] <= 1

(* The chunks and the request to complete were sent once, no statement     *)
(* failed and no message was delivered twice.  Stores and publications may *)
(* have failed or got lost, and replicas stopped.                          *)
Undisturbed(u) ==
  SentOnce(u) /\ completes[u] <= 1 /\ faults["db"] = 0 /\ faults["redelivery"] = 0

(* When nothing is left in the pipeline the status that clients see and    *)
(* the table of objects agree.                                             *)
OutcomeMatchesObjects ==
  \A u \in Uploads :
    (Exists(u) /\ PipelineQuiet(u) /\ Undisturbed(u)) =>
      (status[u] = "COMPLETED" <=> created[u] > 0)

(* GetChunkedUploadStatus shows file_hash with COMPLETED.  The hash is     *)
(* written by a statement of its own, whose error is only logged: nothing  *)
(* but this failure leaves a COMPLETED session without its hash, however   *)
(* often the upload is completed and its messages are delivered.           *)
CompletedHasHash ==
  \A u \in Uploads : (status[u] = "COMPLETED" /\ faults["db"] = 0) => hash[u]

(* "IncrementUploadedChunks increments the uploaded chunks count": it does *)
(* not open a session again that is past UPLOADING.  Only the revert of    *)
(* CompleteChunkedUpload takes such a session back.                        *)
ReopenedOnlyByRevert ==
  [][\A u \in Uploads :
       /\ status[u] \in {"PROCESSING", "COMPLETED", "FAILED"}
       /\ status'[u] = "UPLOADING"
       => at'[u]["revert"] < at[u]["revert"]]_vars

(* The same of an upload whose chunks were sent once each: none of them is *)
(* late, because the counter has counted every one.                        *)
OnceSentStaysClosed ==
  [][\A u \in Uploads :
       /\ SentOnce(u)
       /\ status[u] \in {"PROCESSING", "COMPLETED", "FAILED"}
       /\ status'[u] = "UPLOADING"
       => at'[u]["revert"] < at[u]["revert"]]_vars

(* What GetChunkedUploadStatus reports.                                    *)
ReportedStatus(u) ==
  IF expired[u] /\ status[u] # "COMPLETED" THEN "EXPIRED"
  ELSE status[u]

(* EXPIRED comes with "Please start a new upload": a session that expired  *)
(* before Complete accepted it is never accepted, and nothing comes of it, *)
(* whatever is on its way.  One that was accepted in time goes on behind   *)
(* the answer EXPIRED, and may be COMPLETED with an object after it.       *)
ExpiredUnlessAccepted ==
  [][\A u \in Uploads :
       (ReportedStatus(u) = "EXPIRED" /\ completes[u] = 0 /\ Exists(u)') =>
         /\ ReportedStatus(u)' = "EXPIRED"
         /\ completes'[u] = 0 /\ created'[u] = 0]_vars

(* What UploadPromise says of an upload, for as long as it is undisturbed. *)
SeenBy(u) ==
  IF ~Undisturbed(u) THEN "exempt"
  ELSE IF status[u] \in {"INIT", "UPLOADING"} THEN "open"
  ELSE status[u]
ChunksBy(u) == IF Undisturbed(u) THEN stored[u] ELSE {}
ObjectsBy(u) == IF Undisturbed(u) THEN created[u] ELSE 0

Promise == INSTANCE UploadPromise WITH
  Chunks <- ChunkIndex,
  seen <- [u \in Uploads |-> SeenBy(u)],
  chunks <- [u \in Uploads |-> ChunksBy(u)],
  objects <- [u \in Uploads |-> ObjectsBy(u)]

(* The session, the chunks and the objects of an undisturbed upload go     *)
(* through the life that UploadPromise describes, and no other: the steps  *)
(* of handlers, upload-service and consumer, with stores and publications  *)
(* that fail or get lost, replicas that stop, aborts and the deletion of   *)
(* the bucket in between, are its steps or change nothing a client sees.   *)
UploadKept == Promise!Spec

(* Failures after which nothing in the program takes the work up again: a  *)
(* statement that only logs its error, a publication that is lost without  *)
(* one, an HTTP replica that stops in the middle of a request.             *)
Unrepaired == \E k \in {"db", "lost", "http_crash"} : faults[k] > 0

(* No upload stays in PROCESSING: the session is completed, failed, put    *)
(* back or deleted in the end, also after stores and publications that     *)
(* failed and messages that were delivered twice.                          *)
ProcessingIsResolved ==
  \A u \in Uploads :
    status[u] = "PROCESSING" ~> status[u] # "PROCESSING" \/ Unrepaired

(* An upload that was accepted with 202 gets its object or reads FAILED,   *)
(* unless its session is deleted first.                                    *)
AcceptedIsAnswered ==
  \A u \in Uploads :
    at[u]["chunk_complete"] > 0 ~>
      created[u] > 0 \/ status[u] \in {"FAILED", "gone"} \/ Unrepaired

----------------------------------------------------------------------------
(* The inductive invariant behind the safety properties.                   *)

(* Nothing happens to an upload before InitChunkedUpload draws its uuid.   *)
UntouchedBeforeInit(u) ==
  status[u] = "none" =>
    /\ \A p \in Place : at[u][p] = 0
    /\ \A c \in ChunkIndex : storing[u][c] = 0

(* The object is inserted before any step that leads to COMPLETED.         *)
ObjectBeforeCompleted(u) ==
  \/ status[u] = "COMPLETED" \/ at[u]["set_completed"] > 0 \/ at[u]["ack_ok"] > 0
  => created[u] > 0

(* When no chunk was sent twice each confirmed store left a chunk of its   *)
(* own, because a chunk that is stored is not being stored.                *)
StoresAreDistinct(u) ==
  /\ stores[u] <= Cardinality(stored[u])
  /\ \A c \in ChunkIndex :
       storing[u][c] + (IF c \in stored[u] THEN 1 ELSE 0) <= sends[u][c]

UploadInv(u) ==
  /\ UntouchedBeforeInit(u)
  /\ NeverOverstates(u)
  /\ RequestedWhenCounted(u)
  /\ ObjectBeforeCompleted(u)
  /\ ObjectBound(u)

(* Every part of the invariant that the safety theorems rest on: what the  *)
(* handlers and the consumer leave behind, step by step, for each upload.  *)
IndInv == TypeOK /\ \A u \in Uploads : UploadInv(u)

(* Before Complete accepts an upload nothing is made of it. *)
UnacceptedHasNothing(u) == completes[u] = 0 => PipelineQuiet(u) /\ created[u] = 0
UnacceptedInv == \A u \in Uploads : UnacceptedHasNothing(u)

(* The part about uploads without retries. *)
SingleSendInv == \A u \in Uploads : SentOnce(u) => StoresAreDistinct(u)

----------------------------------------------------------------------------
(* Where the request to complete an upload has come to, and what the       *)
(* session and the table of objects say there.                             *)

(* The sessions of a bucket are deleted with it. *)
RowNeedsBucket(u) == ~bucket => ~Exists(u)

(* Only a session that is there can be completed. *)
UnacceptedBeforeInit(u) == status[u] = "none" => completes[u] = 0

(* The consumer writes the hash before the steps that lead to COMPLETED,   *)
(* and no statement takes it away from a session that is there.            *)
HashBeforeCompleted(u) ==
  /\ faults["db"] = 0 /\ Exists(u)
  /\ \/ status[u] = "COMPLETED"
     \/ \E p \in {"create", "set_completed", "ack_ok"} : at[u][p] > 0
  => hash[u]

SessionInv ==
  \A u \in Uploads :
    RowNeedsBucket(u) /\ UnacceptedBeforeInit(u) /\ HashBeforeCompleted(u)

(* One request or message in the whole pipeline at most, and none before   *)
(* CompleteChunkedUpload accepted one.                                     *)
OneInPipeline(u) ==
  /\ completes[u] = 0 => PipelineQuiet(u)
  /\ \A p, q \in Pipeline :
       at[u][p] > 0 /\ at[u][q] > 0 => p = q /\ at[u][p] = 1

(* Places before the statement that makes a session final. *)
Undecided == Pipeline \ {"set_completed", "ack_ok", "ack_failed"}

OutcomeByPlace(u) ==
  /\ completes[u] = 0 \/ (\E p \in Undecided : at[u][p] > 0)
       => created[u] = 0 /\ status[u] \notin {"COMPLETED", "FAILED"}
  /\ at[u]["requeue"] > 0 => ~bucket
  /\ at[u]["set_completed"] > 0
       => created[u] > 0 /\ status[u] \notin {"COMPLETED", "FAILED"}
  /\ at[u]["ack_ok"] > 0
       => created[u] > 0 /\ (Exists(u) => status[u] = "COMPLETED")
  /\ at[u]["ack_failed"] > 0
       => created[u] = 0 /\ (Exists(u) => status[u] = "FAILED")
  /\ PipelineQuiet(u) /\ Exists(u)
       => (status[u] = "COMPLETED" <=> created[u] > 0)

(* A second request, a redelivery or a late increment would write the      *)
(* session behind the first request's back.                                *)
OutcomeInv ==
  \A u \in Uploads : Undisturbed(u) => OneInPipeline(u) /\ OutcomeByPlace(u)

(* The consumer meets no session that is still open: MarkProcessing comes  *)
(* before the publication, and nothing opens the session after it but the  *)
(* revert, which ends the request.                                         *)
MarkedBeforePublished(u) ==
  (\E p \in Pipeline \ {"mark"} : at[u][p] > 0) =>
    status[u] \notin {"INIT", "UPLOADING"}

MarkedInv == \A u \in Uploads : Undisturbed(u) => MarkedBeforePublished(u)

=============================================================================
