# A verification project for gau-cloud-service

TLA+ modules that model the storage orchestrator `gau-cloud-orchestrator` (the Go module under `src/`),
TLC configurations that check them on small instances, and TLAPS proofs of the theorems that hold for
every value of the constants. `PROJECT.json` maps every definition to the source lines it models.

## The system

Two programs share a Postgres database, a MinIO server and a RabbitMQ broker:

- the **HTTP server** (`http/`, one to three replicas): gin handlers, one goroutine per request;
- the **consumer** (`consumer/`, two to five replicas): one goroutine per queue and replica, manual
  acknowledgement, three attempts and then a Nack with requeue.

An external *upload-service* stores the bytes (`infra/upload_service.go` calls it) and composes chunked
uploads (it reads `chunk_complete` and answers with `compose_completed`). No handler opens a transaction
(`repository/main.go` offers one, nobody calls it), no publication waits for a broker's confirmation, and
no job looks for abandoned work. So every SQL statement, call to MinIO or to the upload-service,
publication and acknowledgement is a step that others interleave with and after which a replica may stop;
that is the grain of the models.

| Component | State | Operations | Interacts through |
|---|---|---|---|
| Chunked upload (`http/controller/object.go` 532-1207, `repository/upload_session.go`, `consumer/worker/upload.go`) | table `upload_sessions`, chunk files in the upload-service, table `objects` | init, send a chunk, complete, abort, status; compose_completed | queues `chunk_complete`, `compose_completed` |
| Chunk plan (same handlers, `scripts/chunked_upload.sh`) | the contract in the session row | decide sizes, cut, check, name | the client |
| Upload stream (`infra/upload_service.go`) | a pipe between a goroutine and the HTTP transport | stream one file | upload-service |
| Bucket lifecycle (`http/controller/bucket.go`, `consumer/worker/bucket.go` 276-348) | table `buckets`, MinIO buckets | create, delete, list, access | queue `bucket.delete` |
| Bucket grants (`consumer/worker/bucket.go` 86-239 and 350-470, `consumer/worker/policy.go`) | table `iam_policies`, MinIO policies | add a bucket, remove a bucket, rename a policy | queues of bucket and IAM |
| IAM credentials (`http/controller/iam.go`) | table `iam_users`, MinIO users and policies | create, delete, change credentials | queue of IAM |
| Objects (`http/controller/object.go` 26-529, `helper.go`, `repository/object.go`, `consumer/worker/object.go`) | table `objects`, MinIO objects | upload, list, download, delete one, delete a path | queues `delete_object`, `delete_path` |
| Authentication, configuration, logging, cache, e-mail | none that the above reads | | |

What is hard in it: one logical operation is several statements in three stores; two replicas handle
requests for the same row at once; a message is delivered again after its consumer stopped; a publication
is lost or fails after the row was changed; a check is made long before the effect it guards.
`PROJECT.json` lists these under `hazards`, each at its line with the properties that watch it.

## Modules

### `ChunkedUpload` and `UploadPromise`: the chunked upload

The life of an upload from `InitChunkedUpload` to the object row. `status`, `uploaded` and `hash` are the
columns of the session's row; `stored` is what the upload-service holds; `storing` and `at` are the
requests and messages on their way. A request is a token at the place it has reached (`increment`, `mark`,
`publish`, ... for the handlers, `chunk_complete`, `compose_ok`, ... for the queues, `hash`, `create`,
`set_completed`, ... for the consumer); tokens at one place are interchangeable and only counted, which is
what keeps the state small enough for two uploads with retries and faults. Each action is one statement or
call together with the branch the code takes on its result:

- `UploadChunk`, `StoreChunk`, `CountChunk` are the check, the call to the upload-service and the
  increment of one handler; the increment (`IncrementUploadedChunks`) also writes UPLOADING, whatever the
  status has become since the check;
- `CompleteChunkedUpload`, `MarkProcessing`, `PublishChunkComplete`, `RevertStatus` are the other;
- `ReceiveFailed` ... `Ack` are `handleComposeCompleted`, in the order of its statements;
- `AbortChunkedUpload`, `DeleteSession`, `CleanupChunks` are the abort and the goroutine it starts, whose
  context ends with the handler;
- `HttpCrash`, `ConsumerCrash`, `Expire`, `DeleteBucket` are the environment.

`MaxFaults` says how often each kind of failure may happen: a run names the failures it allows, and a run
without a kind says nothing about it.

`UploadPromise` is what the client is promised, without requests, queues and statements: an upload is begun,
filled while it is open, handed over once it is whole, perhaps handed back, made into one object and then
COMPLETED or into none and FAILED, or removed at any time. From the hand-over on nobody writes to its chunks.
`ChunkedUpload` implements it (`UploadKept`) with `INIT` and `UPLOADING` both seen as "open". An upload leaves
the promise for good ("exempt") when one of its chunks is sent a second time, when a second request to complete
it is accepted, and, for every upload, when a statement fails or a message is delivered again (`Undisturbed`
says all this of the state): the refinement mapping (`SeenBy`, `ChunksBy`, `ObjectsBy`) looks away from there,
since the code then promises less (`CompletedHasObject` and `ObjectsBounded` still hold). Stores that fail,
publications that fail or get lost, and replicas that stop stay inside the promise.

What the code does outside of it is recorded where it contradicts the code's own words: `retried_chunk` and
`late_chunk` are violations (below). That EXPIRED is reported does not end an upload either: an upload that was
accepted before it expired may still be completed, and a client that was told EXPIRED meanwhile then reads
COMPLETED (`ReportedStatus`). What does hold is `ExpiredUnlessAccepted`: a session that expired before any
request to complete it was accepted reads EXPIRED as long as it is there, and gets no object. A second Complete
may overwrite the final status of the first with its own (`UpdateStatus` has no condition); no property
claims otherwise.

### `ChunkPlan`: sizes, counts and names

`ChunkSize`, `TotalChunks` (on integers that wrap around like int64), the range of the INT column, the cut
that `dd` makes of the file, the checks of `UploadChunk`, and the names `chunk_%05d.part` as digit
sequences. The constants scale the code's values down; the arithmetic is the code's.

### `StreamUpload`: one streamed file

`uploadFileInternalFromReader` of `infra/upload_service.go`: the handler's goroutine (`handler`), the
goroutine that writes the multipart form (`writer`), the pipe between the writer and the HTTP transport,
and the channel with one place on which the writer reports. What the transport and the upload-service do
is external: the actions take from them what `net/http` promises of a request body. The form is a number
of pieces, since no property tells its bytes apart.

### `BucketLifecycle` and `BucketPromise`: a bucket from creation to removal

`row` is the table `buckets` (the number of the row that the name has, since a name may be used again),
`minio` the buckets that exist, `content` the rows under which files were stored that are still in the
bucket, `public` the row under which the bucket was opened. Requests and messages are counted tokens as in
`ChunkedUpload`: `at[n]` those that go by the *name* (creations, messages, the consumer), `of[n][r]` those
that have found a *row* by its uuid. The difference is the point of the module: handlers check a row and
then act on a name. `CreateBucket`, `MakeBucket`, `InsertRow`, `Rollback` are the one handler,
`DeleteBucketByID`, `DeleteRow`, `PublishDeleteBucket` the other, `DeliverDelete`, `RemoveAllObjects`,
`RemoveBucket`, `AckDelete` the consumer; `UploadObject`, `StoreFile`, `UpdateBucketAccess`,
`BucketExists`, `SetBucketPolicy` are those who use the bucket meanwhile.

`BucketPromise` is what an owner is promised, without requests and messages: storage is reserved, taken by
one owner at a time, filled, released, and only without an owner emptied and dropped; it is private until
somebody opens it. `BucketLifecycle` implements it (`PromiseKept`, with `storage <- minio`,
`owner <- row`, `access <- public`), step by step, for as long as `Quiet` holds: rows are deleted by one request
at a time (`MaxDeletes <= 1`), and so far no answer was lost and no message was worked on again after its bucket
was removed. `Quiet` looks at the failures that have happened, not at those a run allows, so a run that has all
of them checks the promise up to the first. It cannot be dropped: a delete message that is delivered again after
the bucket was removed fails until the name is used again, and then empties the new owner's bucket.
`FirstOwnerIsSafe` needs no such condition.

### `IAMCredentials`: users, keys and whose policy they have

`row` and `policyRow` are the tables `iam_users` and `iam_policies`; `user`, `policy` and `attached` are
MinIO's users, canned policies and attachments, by access key. `job` holds the requests at work, each with
the variables of its handler (the credentials it read and those it was given), and the message
`update_policy` is the same job further on. Every rollback in the code is an action (`UndoUser`,
`RestoreOldUser`, `UndoOldUser`, `UndoAddPolicy`, ...) that may fail as its call may. `Call` is a call to
MinIO with its three outcomes: done, done with the answer lost, not done. Whether MinIO refuses to remove
a user or a policy that is missing is a constant (`MissingFails`), because the code relies on neither.

Each property names the kinds of failure that it is not claimed for (`Without`): dropping any kind from
any of these sets makes TLC find a behaviour that violates the property, so the sets say exactly to which
failures the code has no answer.

### `BucketGrants`: which buckets a policy lists

`row` is the list of buckets in the row of `iam_policies`, `policy` the one in MinIO's policy of a key,
`attached` the IAM users that have theirs; `owner`, `minio` and `key` are the tables and MinIO's buckets and
users as far as they matter here. `job` holds the messages of `bucket.update_policy` ("grant"),
`bucket.delete` ("revoke") and `iam.update_policy` ("rename"), each with the IAM users that are left on its
list, the one in hand and the list of buckets read for it. The loop over the IAM users is `ListForGrant` or
`RemoveBucket` and `ListForRevoke`, then for each, in any order, `ReadPolicy`, `AddPolicy`, `AttachPolicy`,
`SavePolicy`, and in the end `Ack`; an error goes on with the next IAM user, as the code does. Two messages
are in different consumers, so all of these interleave. The requests are one step each.

Messages cross in two ways that the code does not prevent, and `crossed` remembers both: two are at work for
one user ("overlap", also when a rename is on its way with the list it read earlier), or a deletion is worked
on while the creation's message still waits ("order"; the two have queues of their own). Each property names
the crossings and failures it is not claimed for. Two more behaviours follow from the code and are in no
property: a new IAM user gets no grant for the buckets its user has already (`CreateIAM`; `due` counts the
buckets created since), and between the deletion of a bucket and the end of its message the old owner's lists
still have the name, whoever uses it by then. The list a policy starts with names `dummy-bucket` (or `*`),
not nothing as the comment in `iam.go:79` has it; the model leaves these out.

### `ObjectStore`: rows over files

`status` and `at` are the rows of `objects` of one bucket with the folder and the name of each, `file` says of
which upload the file at a place of MinIO is, `job` are the deletions, from the request to the `Ack`. An upload
puts its file (`UploadObject`) and then its row (`CreateObject`); a deletion takes the row (`FindByID` and
`DeleteObject`, or `DeleteObjectsByPath`) and publishes a message, by which the consumer removes one file
(`RemoveObject`) or lists what is under a prefix and removes it file by file (`ListObjects`, `RemoveListed`,
`AckPath`). A folder is a sequence of names; `Like` is the relation of SQL's LIKE, which finds what is under a
path and more where a name has an `_` or a `%`. The listing of a prefix is one page here; with several pages
a file that comes between two of them may go or stay.

The model keeps how the code addresses files: by the row's `url`, which is the name without the folder
(`KeyByUrl`), so that download and deletion of an object in a folder go to the root's file of that name.
`RowHasFile` therefore excludes names by which an object was deleted (`Struck`), and the uploads that crossed
the deletion of a path above them (`crossed`). `FilesGoWithRows` says of every file that is left without a row
that the code could not have addressed it. `dropped` failures (a publication, an INSERT, an answer of the
upload-service, part of a listing) are those nobody comes back to, `repeated` ones those that are asked for
again.


## Runs

`CHECK_DEADLOCK FALSE` is set where the client's budget is bounded, so that the system really stops; the
run `stream` checks for deadlock, and the end of the call is a state that repeats.

| Run | Expect | What it shows |
|---|---|---|
| `script` | pass | One upload, three chunks, each sent once, two Completes, one failure of every kind, fair scheduling. `CounterNeverOverstates`: increments done and pending never exceed the confirmed stores. `ComposeOnlyWhenCounted`: nothing is in the pipeline, and no status is past UPLOADING, before the confirmed stores reached the total. `ComposeHasAllChunks`: what is composed has all its chunks. `CompletedHasObject`, `CompletedHasHash`, `ObjectsBounded`: COMPLETED means an object and (but for a failing statement) a hash, and objects are bounded by Completes and redeliveries. `OutcomeMatchesObjects`, `UploadKept`: undisturbed, the outcome is exact and the upload lives as promised. `ExpiredUnlessAccepted`. `ProcessingIsResolved`, `AcceptedIsAnswered`: an accepted upload is answered. |
| `retried_chunk` | violation | A chunk sent twice stands in for one never sent: `ComposeHasAllChunks` fails for a client that repeats a request (`object.go:896`). |
| `late_chunk` | violation | A chunk sent a second time passed the checks before the upload was completed and is counted after: `ReopenedOnlyByRevert` fails, PROCESSING or COMPLETED becomes UPLOADING (`upload_session.go:71`). |
| `edges` | pass | Every size of an int64 cut down to six bits, every preference: the stored plan covers the file, the client is never refused, names sort in order as far as the padding reaches. |
| `stream` | pass | A form of four pieces, every failure of the source, the transport and the service: success means a whole file, a part is only stored after an error of the source, the call returns and the goroutine ends. |
| `buckets` | pass | Two rows of a name, two creations at a time, one late upload, one failure of each of eight kinds, fair scheduling. While `Quiet`: one claim per bucket, content survives, `PromiseKept` (and so a row has its bucket). `FirstOwnerIsSafe` whatever fails. `NothingOrphaned`: a bucket without a row is somebody's to remove, but after the failures it names. `DeletedBucketGoes`. |
| `unpublished` | violation | The publication of a deletion fails and nobody removes the bucket, although the comment in that branch says the cleanup will happen (`bucket.go:158`). |
| `apart` | pass | Two ids, keys, secrets and jobs, one failure of any kind, jobs that share neither id nor key: credentials of a row log in with their own policy, nobody else does, and a renaming ends. |
| `undo` | violation | The UPDATE of a change of credentials fails, and the undo recreates the new user in place of the old. |
| `grants` | pass | Two users, both IAM users of one of them, two keys each, two buckets, five requests, two messages at a time, one failure: nobody is ever listed for a bucket that was not the user's; unless messages cross, deleted buckets leave every list, created ones are in every list, Postgres and MinIO list the same, and no bucket but the message's is touched. |
| `objects` | pass | Two uploads and two deletions, one file name, four folders of which one matches another by LIKE, one failure of each kind: rows have their files, no addressable file is forgotten, every row is reached by browsing, and deletions end. |
| `misplaced` | violation | The deletion of an object in a folder removes the root's file of the same name. |

Bounds. Two chunks are enough for a chunk to stand in for another, three for one that is neither first
nor last; one fault of each kind lets every error branch be taken once, in any combination with the
others; two Completes let two requests be in the pipeline at once. `script` sends each chunk once, and
`retried_chunk` and `late_chunk` show what a second send does; the properties that a second send leaves true
(`CounterNeverOverstates`, `ComposeOnlyWhenCounted`, `CompletedHasObject`, `ObjectsBounded`, `CompletedHasHash`,
`ExpiredUnlessAccepted`) are theorems for any number of sends. Uploads share nothing but the bucket's
row and the budget of faults, and names of buckets share nothing at all, so one of each is enough. A
second row of a name is where a message or request of the first can do harm, and two creations at a time
(`buckets`) are what can claim one bucket twice. `buckets` leaves out the failures `reply`, `db_reply` and `lost`,
which nothing but `FirstOwnerIsSafe` is claimed for, and has one request at a time delete a row (`MaxDeletes`);
the theorems have all of them. In `apart` two ids and keys
are the fewest that can be mixed up, and one failure of any kind is what every undo is written for. In
`grants` the other user needs no IAM user (nothing of it is read or written for the first), two IAM users are
the fewest for which a loop can go wrong in the middle, and five requests make a bucket, delete it, give it to
somebody and change a key meanwhile. In `objects` two uploads share a name in one folder, or have it in two,
which is all that an address without a folder can confuse; the theorems hold for any number of names. Attempts of
a consumer are not counted: an attempt that failed starts over or goes back to the queue, and the two
differ in a pause.

Fairness. A request that was accepted runs on, and a queued message is delivered, because goroutines are
scheduled and RabbitMQ delivers while a consumer lives: weak fairness on every step of a handler and of
the consumer (`script`, `buckets`, `apart`; in `objects` on the insert of a row and the steps of a deletion)
or of the writer, the transport and the handler (`stream`), and none on a client, the clock or a failure. Failures are bounded, which is what lets retries get
through. A statement that fails with its error only logged, a publication that is lost, and a replica that
stops between two statements leave work that nothing takes up again: the liveness properties exclude them
by name (`Unrepaired`, `RenameEnds`'s condition). `CallReturns` needs that the service answers or
hangs up: the client has no timeout.

## Proofs

`ChunkedUpload_proofs` proves, for every set of uploads, number of chunks, and bounds: the type
invariant; `IndInv`, the invariant that is inductive; and from it `CounterNeverOverstates`,
`ComposeOnlyWhenCounted`, `CompletedHasObject` and `ObjectsBounded`, whatever fails, is sent again or is delivered
again. `IndInv` is needed because none of them is inductive alone: that COMPLETED has an object needs that the
tokens past the insert have one; that the pipeline is only entered when counted needs that the counter never
overstates and that nothing decreases it.

`OnceSentStaysClosed` says of one upload, in the state, what `late_chunk` shows to be false in general: as long
as none of its chunks was sent twice nothing but the revert opens it again. The strengthening (`SingleSendInv`) is
that confirmed stores are then no more than the chunks stored, because a chunk that is stored is not being
stored a second time; so once the counter has the total no chunk is left to be counted
(`NothingLeftToCount`). `ComposeHasAllChunks` follows from the same for a client that sends no chunk twice (`MaxSends = 1`): the
formula names no such condition, because the comment it takes at its word (`object.go:896`) has none, and
`retried_chunk` violates it.

`CompletedHasHash` rests on `SessionInv`: as long as no statement failed, a session that is there has its hash
from the moment the consumer looks at a good answer, also when chunks are sent twice, when it is completed twice
or when a message is delivered twice. `ExpiredUnlessAccepted` rests on `UnacceptedInv` (before a Complete is
accepted nothing is in the pipeline and no object is there) and on the clock, which does not turn back.
`OutcomeMatchesObjects` is about an undisturbed upload and rests on `OutcomeInv`, which follows the one request
from place to place (`OneInPipeline`, `OutcomeByPlace`): before the statement that decides there is no object and
no final status, after it both or neither.

That `ChunkedUpload` implements `UploadPromise` (`UploadIsKept`) is proved without a condition on the bounds,
action by action, since an upload leaves the promise at its first disturbance.
Beside the above it needs that what was handed over is whole and is not being stored to (`HandedOverIsWhole`:
the confirmed stores fill the file, and each was the only one of its chunk) and that whoever works on a message
finds no open session (`MarkedInv`). A statement that fails and a message that comes again map to the end of the
promise for all uploads, a second send or a second request to the end of it for one, the deletion of the bucket
to the removal of every session, and every other step changes at most one upload (`OthersStep`, `StoredOthers`).

`ChunkPlan_proofs` proves that a plan that is stored covers its file exactly, that a client that keeps to
it is never refused, and that the bytes add up, for all sizes. Where the int64 sum wraps around the proof
uses that the wrapped quotient is far below the range of the column. It also proves, for every width of the
padding, that names sort as chunks do, for any two chunks (`NamesSort`) and so for the chunks of a session
(`NamesSortInOrder`). The digits are a recursive function's, and the library's induction over numbers takes
a predicate as its parameter, which the provers at hand cannot instantiate. The proof therefore goes over
sets: a non-empty set of numbers has a least one (`LeastOf`, from the theorem that `<` is well-founded), so
a set that has 0 and is closed under successor is `Nat` (`InductionOnSets`), so the recursion has a
solution and `Power10` is it (`Power10IsRecursive`). The digit that decides is the highest one at which the
quotients by its power of ten differ.

`StreamUpload_proofs` proves, for forms of any length, that success means a whole file and that a part of
a file is stored only after the source could not be read.

`BucketLifecycle_proofs` proves, for every set of names and all bounds: the type invariant; that rows are
numbered in the order they come and that nothing which removes content is under way before the first row
of a name is deleted (`IndInv`), and from it `FirstOwnerIsSafe`, whatever fails. For as long as `Quiet` holds (a
row is deleted by one request at a time, no call's answer was lost, no message was worked on again after its
bucket was removed) it proves `OneClaim`, `ContentSurvives`, that the module implements `BucketPromise`, and
`RowHasBucket` (a row has its bucket), which the promise contains. The strengthening is `ClaimInv`: the requests,
the row and the messages that answer for a bucket are at most one if the bucket is there and none if it is not;
`AccessInv`, that an opened bucket exists, is what the `access` of the promise needs. `Quiet` is a predicate of
the state that a step may make false and none makes true (`QuietBefore`), so nothing is assumed of the faults
that a behaviour may still have.

`NothingOrphaned` needs no `Quiet`: with any number of creations, deletions, uploads and redeliveries, a bucket in
MinIO is somebody's to remove, or one of the failures in `Abandons` happened, after which nobody may be left, or
a statement failed and the bucket is not empty. The last is a rollback that is refused: an upload of a deleted
row comes late and stores its file in the bucket that the next creation of the name has just made, the INSERT
of that creation fails in the database, and RemoveBucket refuses a bucket that is not empty, which is logged and
forgotten. The strengthening `OrphanInv` counts a request that rolls back apart from those that are sure to
answer for the bucket (`Owing`), and says that a request comes to roll back only after a failing statement where
nobody else answers for the bucket. `CleanupWillHappen` is the same without excuses, the words of
`bucket.go:158`, and the run `unpublished` violates it.

`IAMCredentials_proofs` proves, for every set of ids, keys, secrets and jobs and any number of failures:
the type invariant, and `OthersUntouched` for jobs that share neither id nor key. What every step of a job
does is summarised once (`Effect`: which rows, keys and fields of the job it may touch) and proved action
by action; the inductive invariant `IndInv` adds that a job past its first step knows its id and its
credentials, that a key is in one row and with one job at a time, and that the key a job removes or
renames is one of its own. The four invariants of the stores, `CredentialsWork`, `NoStrayUser`, `PolicyIsOwn`
and `PolicyGranted`, are proved under the failures that each excludes and no others. Each has a strengthening
that says, for every place a job can be at, what the stores hold for its id and its keys: `PlacedInv` (what the
row is and what the handler remembers of it, whatever fails), `WorkInv` (whose secret the users have),
`StrayInv` (which of a job's keys may have a user), `OwnInv` (what may be attached, and that only a user has
an attachment) and `GrantInv` (that the policy a job attaches is the id's).

`BucketGrants_proofs` proves, for every set of users, IAM users, keys and buckets and all bounds: the type
invariant; `GrantsWereOwned`, whatever fails and however messages cross; and `OtherBucketsKept`, for messages
that do not overlap. `GrantInv` is the strengthening for the first: every list that is carried about (by a
row, a policy or a message) is of the user that its holder belongs to. For the second it is `ApartInv`: as
long as nothing overlapped, messages at work are for different users, and the list in hand is the row's but
for the message's bucket.

`BucketGrants_settled_proofs` proves what holds once no message of a user is on its way, by invariants that
follow a message from place to place. `StoresAgree` rests on `AgreeInv`: wherever the stores differ some
message will make them agree (`Mends`), and what a message knows and wrote is so still (`Current`).
`NoGrantOutlivesBucket` rests on `OutliveInv`: a listed bucket is the user's or a deletion has yet to come to
that IAM user, MinIO lists no more than Postgres and the creations still to come, and no creation is left once
its bucket's deletion begins. `OwnerIsGranted` rests on `DueInv`: a bucket that is due is listed with no
deletion to come, or a creation is to add it. Each is proved under the failures and crossings that its
property excludes and no others. `StoresAgree` excludes messages that overlap, a publication that fails, a call
for one IAM user that fails or whose answer is lost, and a consumer that stops where a listing of the IAM users
fails as well; `NoGrantOutlivesBucket` excludes both crossings and, beside those calls and publications, a
listing that fails; `OwnerIsGranted` excludes overlap, those calls and publications, and a consumer that stops.
With what is excluded the code does leave the stores apart or a grant behind, since each write of a list is a
read and a write without a lock (`updateIAMUserPolicy`, `worker/bucket.go:151`) and an error for one IAM user is
logged and not retried (`worker/bucket.go:140`).

`ObjectStore_proofs` proves, for every set of names, every set of folders closed under prefixes and every LIKE
that finds what is under a folder: the type invariant, `RowHasFile`, `FilesGoWithRows` and `RowsAreReachable`.
`StoreInv` adds that a message for one object is of a deleted row and that an upload which crossed nothing is
under no path being deleted; `CleanInv` explains every file at any moment: its upload is alive, or the code
cannot address it, or some message will remove it (`Covers`). Every step that deletes a row or a file is shown
to leave all files explained (`ExplainedByStep`).

The assumptions of the modules are those of `TotalChunksAssumption`, `BoundsAssumption`,
`SizesAssumption`, `InputsAssumption`, `PiecesAssumption`, `NoneAssumption`, `MissingFailsAssumption`,
`UserOfAssumption`, `FoldersAssumption` and `LikeAssumption`; each is evaluated by a run.

Only proved, and checked by no run: the type invariants, `RowHasBucket` (part of `PromiseKept`),
`OnceSentStaysClosed` (with one send per chunk it cannot fail in `script`, with two its general form is the
violation `late_chunk`), and that the bytes of a chunked upload add up (`BytesCorrect`).

Only model-checked: liveness (`ProcessingIsResolved`, `AcceptedIsAnswered`, `DeletedBucketGoes`,
`CallReturns`, `WriterEnds`, `RenameEnds`, `DeletionsEnd`), which is beyond the prover, and the violations. Every
invariant and every action property of a passing run is a theorem, and so are both refinements, all without a
hypothesis on the bounds but `ComposeHasAllChunks` (`MaxSends = 1`) and, in the definition of `Quiet`, those of
`BucketLifecycle` that name it (`MaxDeletes <= 1`).

## Not modelled

- *Authentication* keeps no state; every model starts with a caller who was let in. *Routing*, *responses*,
  *configuration* and *logging* are tables and I/O.
- *Cache* and *e-mail producer* are set up and never used; `UpdateIAMByID` has no route,
  `PublishUpdateCredentials` and `PublishChunkedUpload` have no caller.
- The *connection to the broker* is made once; that a channel which closed is never opened again is outside
  of the models, whose fairness assumes a consumer that lives.
- Behaviours that the models have and no property excludes, because nothing in the code does:
  - a file or an access change of a former owner reaches the next owner's bucket (`StoreFile`, `SetBucketPolicy`
    after another `InsertRow`);
  - a delete message that is delivered again after the bucket was removed waits for the next bucket of that
    name (`RemoveAllObjects` fails until then), the comment in `worker/bucket.go:341` notwithstanding;
  - the abort of a chunked upload deletes the row and leaves the chunks, because it cleans the session's
    temporary location (`TempLocation`) and not the one `UploadChunk` used (`ChunkLocation`);
  - two creations of one access key disturb each other, and a change of credentials that read its row before
    a deletion saves it back, since `Save` inserts what is not there (`MayOverlap = TRUE`);
  - a replica that stops inside `CompleteChunkedUpload` or `UpdateIAMCredentials` leaves a session in PROCESSING
    or a row whose credentials log nobody in: no job looks for either.
- In `BucketGrants` no access key is used by two IAM users: what happens when a key changes hands while a
  message that listed it is at work is not modelled.
- Small abstractions: in `BucketGrants` an IAM user is not changed or deleted while the rename of its last change is
  pending, and `RenamePolicy` is the whole of `executeUpdatePolicy` in one step that succeeds (its statements,
  failures and rollbacks are steps of `IAMCredentials`); in `ObjectStore` the bucket
  stays, so `RemoveObject` has no permanent error of a bucket that is gone.
- In `DeleteObjectsWithPrefix` the goroutine that feeds the removals stays blocked after the first error, for
  as long as the process lives: the model has the error and the new attempt, not the goroutine.

## Plan

1. Composition of `BucketLifecycle` with `BucketGrants`: the former owner's grants while a name is used again,
   with the requests of both taken apart.
2. Keys in `BucketGrants` that change hands (`policy` by key alone), and what of `GrantsWereOwned` is left.
3. An abstract `Grants` (pairs of an IAM user and a bucket that messages add and take away), implemented by
   `BucketGrants` when no two messages overlap; an abstract store of files for `ObjectStore` without folders.
