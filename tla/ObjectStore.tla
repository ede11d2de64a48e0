---------------------------- MODULE ObjectStore ----------------------------
(***************************************************************************)
(* The objects of one bucket: rows of the table objects and files in       *)
(* MinIO, which uploads make in this order and deletions take away in the  *)
(* other: the handler deletes the row and publishes a message, by which a  *)
(* consumer removes the file (one object) or all files under a prefix (a   *)
(* path).  http/controller/object.go, repository/object.go and             *)
(* consumer/worker/object.go.                                              *)
(*                                                                         *)
(* A folder is the sequence of its names, a file's place a folder and a    *)
(* name: that of the file when it is sent in one request, its hash when it *)
(* comes in chunks.  A row knows the folder (parent_path) and the name     *)
(* (url).  How the bytes get to MinIO is StreamUpload's, what becomes of   *)
(* the bucket BucketLifecycle's.                                           *)
(***************************************************************************)
EXTENDS Integers, Sequences, FiniteSets

CONSTANTS
  Names,      \* names of files, or their hashes
  FolderNames,
  Folders,    \* the folders that are used
  Like,       \* pairs p, f of folders: f matches the pattern p/% of SQL
  None,       \* no place
  MaxDeletions, \* bound: deletions in a behaviour
  MaxUploads, \* bound: uploads in a behaviour
  MaxFaults   \* bound: failures in a behaviour, each of another kind

(* f is p or a folder somewhere in it. *)
Under(p, f) == Len(p) <= Len(f) /\ SubSeq(f, 1, Len(p)) = p

ASSUME FoldersAssumption ==
  /\ Folders \subseteq Seq(FolderNames)
  /\ <<>> \in Folders
  /\ \A f \in Folders : \A k \in 0 .. Len(f) : SubSeq(f, 1, k) \in Folders

(* LIKE finds what is in p, and more where a name has an _ or a %.  There  *)
(* is a slash in what it finds.                                            *)
ASSUME LikeAssumption ==
  /\ Like \subseteq Folders \X Folders
  /\ \A p, f \in Folders : (Under(p, f) /\ p # f) => <<p, f>> \in Like
ASSUME BoundsAssumption == MaxDeletions \in Nat /\ MaxUploads \in Nat /\ MaxFaults \in Nat

Location == [folder : Folders, name : Names]
ASSUME NoneAssumption == None \notin Location

Ids == 1 .. MaxUploads
Jobs == 1 .. MaxDeletions

(* What may fail: what nobody comes back to (the answer of the             *)
(* upload-service, the INSERT, a publication, a part of a listing), and    *)
(* what is asked for again (the DELETE, a call to MinIO without effect or  *)
(* with its answer lost, the consumer before its Ack).                     *)
FaultKind == {"dropped", "repeated"}

(* An upload: not begun; its file stored; its row inserted; the row        *)
(* deleted by its id; deleted with a path or never inserted; deleted with  *)
(* a path whose message does not reach its file.                           *)
Status == {"none", "stored", "listed", "deleted", "gone", "stranded"}
Place == {"idle", "asked", "queued", "removing", "done"}

VARIABLES
  status,  \* what has become of an upload
  at,      \* the place of its file
  file,    \* MinIO: the upload that a file is of, 0 where there is none
  job,     \* the deletions: by the id of an object, or by a path (id 0)
  crossed, \* history: uploads to a path that is being deleted
  faults   \* history: the failures there have been

vars == <<status, at, file, job, crossed, faults>>

NoJob == [place |-> "idle", id |-> 0, path |-> <<>>, listed |-> {}]

Init ==
  /\ status = [i \in Ids |-> "none"]
  /\ at = [i \in Ids |-> None]
  /\ file = [l \in Location |-> 0]
  /\ job = [j \in Jobs |-> NoJob]
  /\ crossed = {} /\ faults = {}

----------------------------------------------------------------------------
(* Helpers. *)

NoFault == UNCHANGED faults
Fault(k) ==
  /\ k \notin faults /\ Cardinality(faults) < MaxFaults
  /\ faults' = faults \cup {k}

At(j, p) == job[j].place = p
Begins(j) == At(j, "idle") /\ \A h \in 1 .. j - 1 : ~At(h, "idle")
Run(j, p, i, path, listed) ==
  job' = [job EXCEPT ![j] = [place |-> p, id |-> i, path |-> path, listed |-> listed]]
End(j) == Run(j, "done", 0, <<>>, {})
Again(j) == Run(j, "queued", job[j].id, job[j].path, {})

Rows == {i \in Ids : status[i] = "listed"}
Folder(i) == at[i].folder

(* The file that download and deletion of an object take for its own: they *)
(* go by its url, which is the name without the folder.                    *)
KeyByUrl(i) == [folder |-> <<>>, name |-> at[i].name]

(* DownloadObject: the upload whose bytes come, 0 for an error. *)
Download(i) == file[KeyByUrl(i)]

(* The files whose key begins with path/; that of the root is /, and no    *)
(* key begins with it.                                                     *)
WithPrefix(p) == {l \in Location : p # <<>> /\ Under(p, l.folder)}

(* A message of a path with that file, not done with. *)
OnPath(j) == job[j].id = 0 /\ job[j].place \in {"queued", "removing"}
PathUnderWay(l) == \E j \in Jobs : OnPath(j) /\ l \in WithPrefix(job[j].path)

(* The rows that DeleteByBucketIDAndPathPrefix deletes. *)
RowsOfPath(p) == {i \in Rows : p = <<>> \/ Folder(i) = p \/ <<p, Folder(i)>> \in Like}

(* A slip of Deeper: folders that hold no object of their own are missed. *)
NextLevel(p) ==
  {f \in {Folder(i) : i \in Rows} :
     Len(f) = Len(p) + 1 /\ IF p = <<>> THEN f # <<>> ELSE <<p, f>> \in Like}

(* FindByBucketIDAndPath and FindFoldersByBucketIDAndPath: the objects in  *)
(* a folder, and the folders in it, which are the next names in the paths  *)
(* of the rows that are deeper.                                            *)
ObjectsAt(p) == {i \in Rows : Folder(i) = p}
Deeper(p) == {f \in {Folder(i) : i \in Rows} : IF p = <<>> THEN f # <<>> ELSE <<p, f>> \in Like}
Remaining(p, f) == IF Under(p, f) THEN SubSeq(f, Len(p) + 1, Len(f)) ELSE f
FoldersAt(p) == {Remaining(p, f)[1] : f \in Deeper(p)}

----------------------------------------------------------------------------
(* Slips of the steps below. *)

PublishedAnyway(j) ==
  LET i == job[j].id IN
    /\ At(j, "asked") /\ Again(j)
    /\ \/ status' = [status EXCEPT ![i] = "deleted"] /\ NoFault
       \/ Fault("repeated") /\ UNCHANGED status
    /\ UNCHANGED <<at, file, crossed>>

AbsentIsError(j) ==
  /\ At(j, "queued") /\ job[j].id # 0 /\ NoFault
  /\ file' = [file EXCEPT ![KeyByUrl(job[j].id)] = 0]
  /\ IF Download(job[j].id) # 0 THEN End(j) ELSE Again(j)
  /\ UNCHANGED <<status, at, crossed>>

ListNotRecursive(j) ==
  /\ At(j, "queued") /\ job[j].id = 0 /\ NoFault
  /\ Run(j, "removing", 0, job[j].path,
         {l \in WithPrefix(job[j].path) : l.folder = job[j].path /\ file[l] # 0})
  /\ UNCHANGED <<status, at, file, crossed>>

----------------------------------------------------------------------------
(* Uploads. *)

(* UploadObject: a new upload puts its file over any that is there.  If    *)
(* the answer does not come there will be no row.                          *)
UploadObject(i, l) ==
  /\ status[i] = "none" /\ \A h \in 1 .. i - 1 : status[h] # "none"
  /\ at' = [at EXCEPT ![i] = l]
  /\ file' = [file EXCEPT ![l] = i]
  /\ crossed' = IF PathUnderWay(l) THEN crossed \cup {i} ELSE crossed
  /\ \/ status' = [status EXCEPT ![i] = "stored"] /\ NoFault
     \/ status' = [status EXCEPT ![i] = "gone"] /\ Fault("dropped")
  /\ UNCHANGED job

CreateObject(i) ==
  /\ status[i] = "stored"
  /\ \/ status' = [status EXCEPT ![i] = "listed"] /\ NoFault
     \/ status' = [status EXCEPT ![i] = "gone"] /\ Fault("dropped")
  /\ UNCHANGED <<at, file, job, crossed>>

----------------------------------------------------------------------------
(* Deletions: the requests. *)

(* DeleteObject reads the row. *)
FindByID(j, i) ==
  /\ Begins(j) /\ i \in Rows
  /\ Run(j, "asked", i, <<>>, {})
  /\ UNCHANGED <<status, at, file, crossed, faults>>

(* DeleteObject goes on: it deletes the row, if it is still there, and     *)
(* publishes the url.                                                      *)
DeleteObject(j) ==
  LET i == job[j].id IN
    /\ At(j, "asked")
    /\ \/ /\ status' = [status EXCEPT ![i] = "deleted"]
          /\ (Again(j) /\ NoFault) \/ (End(j) /\ Fault("dropped"))
       \/ End(j) /\ Fault("repeated") /\ UNCHANGED status
    /\ UNCHANGED <<at, file, crossed>>

(* DeleteObjectsByPath deletes the rows and publishes the path. *)
DeleteObjectsByPath(j, p) ==
  /\ Begins(j)
  /\ status' = [i \in Ids |-> IF i \notin RowsOfPath(p) THEN status[i]
                             ELSE IF at[i] \in WithPrefix(p) THEN "gone" ELSE "stranded"]
  /\ crossed' = crossed \cup {i \in Ids : status[i] = "stored" /\ at[i] \in WithPrefix(p)}
  /\ (Run(j, "queued", 0, p, {}) /\ NoFault) \/ (End(j) /\ Fault("dropped"))
  /\ UNCHANGED <<at, file>>

----------------------------------------------------------------------------
(* Deletions: the consumer. *)

Files(places) == {l \in places : file[l] # 0}
Remove(places) == file' = [l \in Location |-> IF l \in places THEN 0 ELSE file[l]]

(* handleDeleteObject.  To MinIO it is no error if there is no such file.  *)
RemoveObject(j) ==
  /\ At(j, "queued") /\ job[j].id # 0
  /\ \/ Remove({KeyByUrl(job[j].id)}) /\ End(j) /\ NoFault
     \/ Remove({KeyByUrl(job[j].id)}) /\ Again(j) /\ Fault("repeated")
     \/ UNCHANGED file /\ Again(j) /\ Fault("repeated")
  /\ UNCHANGED <<status, at, crossed>>

(* handleDeletePath, DeleteObjectsWithPrefix: errors in the listing are    *)
(* skipped.                                                                *)
ListObjects(j) ==
  /\ At(j, "queued") /\ job[j].id = 0
  /\ \/ Run(j, "removing", 0, job[j].path, Files(WithPrefix(job[j].path))) /\ NoFault
     \/ \E part \in SUBSET Files(WithPrefix(job[j].path)) :
          Run(j, "removing", 0, job[j].path, part) /\ Fault("dropped")
  /\ UNCHANGED <<status, at, file, crossed>>

RemoveListed(j, l) ==
  /\ At(j, "removing") /\ l \in job[j].listed
  /\ \/ /\ Remove({l}) /\ Run(j, "removing", 0, job[j].path, job[j].listed \ {l})
        /\ NoFault
     \/ Remove({l}) /\ Again(j) /\ Fault("repeated")
     \/ UNCHANGED file /\ Again(j) /\ Fault("repeated")
  /\ UNCHANGED <<status, at, crossed>>

AckPath(j) ==
  /\ At(j, "removing") /\ job[j].listed = {}
  /\ End(j)
  /\ UNCHANGED <<status, at, file, crossed, faults>>

(* The consumer stops before its Ack: the broker delivers again. *)
ConsumerCrash(j) ==
  /\ At(j, "removing")
  /\ Again(j) /\ Fault("repeated")
  /\ UNCHANGED <<status, at, file, crossed>>

----------------------------------------------------------------------------
(* The system. *)

Request ==
  \/ \E i \in Ids, l \in Location : UploadObject(i, l)
  \/ \E j \in Jobs, i \in Ids : FindByID(j, i)
  \/ \E j \in Jobs, p \in Folders : DeleteObjectsByPath(j, p)

DeletionStep(j) ==
  \/ DeleteObject(j) \/ RemoveObject(j) \/ ListObjects(j) \/ AckPath(j)
  \/ \E l \in Location : RemoveListed(j, l)

Next ==
  \/ Request
  \/ \E i \in Ids : CreateObject(i)
  \/ \E j \in Jobs : DeletionStep(j) \/ ConsumerCrash(j)

(* A handler goes on, and a consumer works on what it is given. *)
Fairness ==
  /\ \A i \in Ids : WF_vars(CreateObject(i))
  /\ \A j \in Jobs : WF_vars(DeletionStep(j))

Spec == Init /\ [][Next]_vars /\ Fairness

----------------------------------------------------------------------------
(* Properties. *)

TypeOK ==
  /\ status \in [Ids -> Status]
  /\ at \in [Ids -> Location \cup {None}]
  /\ file \in [Location -> Ids \cup {0}]
  /\ job \in [Jobs -> [place : Place, id : Ids \cup {0},
                       path : Folders, listed : SUBSET Location]]
  /\ crossed \subseteq Ids
  /\ faults \subseteq FaultKind

Settled == \A j \in Jobs : job[j].place \in {"idle", "done"}

(* A row has its file, whatever fails and however requests and messages    *)
(* interleave, but for the uploads that cross the deletion of a path above *)
(* them, and for names in the root by which an object was deleted; what is *)
(* downloaded from the root is what was put there.                         *)
Struck == {at[i].name : i \in {h \in Ids : status[h] = "deleted"}}
RowHasFile ==
  \A i \in Rows \ crossed :
    (Folder(i) = <<>> => at[i].name \notin Struck) =>
      file[at[i]] # 0 /\ (Folder(i) = <<>> => at[Download(i)] = at[i])

(* The same if the deletion of an object concerned its own place only.     *)
OnlyOwnFileGoes ==
  \A i \in Rows \ crossed :
    (\A h \in Ids : status[h] = "deleted" => at[h] # at[i]) => file[at[i]] # 0

(* A file without a row is one that the code could not address: of an      *)
(* object deleted by its id in a folder, of a row deleted with the root,   *)
(* of a row that LIKE took for one in the path.                            *)
Unaddressed(i) == status[i] = "stranded" \/ (status[i] = "deleted" /\ Folder(i) # <<>>)
FilesGoWithRows ==
  (Settled /\ "dropped" \notin faults) =>
    \A l \in Location :
      LET i == file[l] IN
        i # 0 => at[i] = l /\ (status[i] \in {"stored", "listed"} \/ Unaddressed(i))

(* Who browses from the root comes to every object: the folders on the way *)
(* are listed, also those that hold no object of their own.                *)
RowsAreReachable ==
  \A i \in Rows :
    /\ i \in ObjectsAt(Folder(i))
    /\ \A k \in 0 .. Len(Folder(i)) - 1 : Folder(i)[k + 1] \in FoldersAt(SubSeq(Folder(i), 1, k))

(* A deletion ends, also when its file is gone or its message comes again. *)
DeletionsEnd == \A j \in Jobs : At(j, "asked") \/ At(j, "queued") ~> At(j, "done")

----------------------------------------------------------------------------
(* The inductive invariants behind the theorems.                           *)

Live(i) == status[i] \in {"stored", "listed"}

JobInv(j) ==
  /\ At(j, "asked") => job[j].id # 0
  /\ job[j].id # 0 => status[job[j].id] # "none" /\ job[j].place \in {"asked", "queued"}
  /\ (job[j].id # 0 /\ At(j, "queued")) => status[job[j].id] = "deleted"
  /\ At(j, "removing") => job[j].listed \subseteq WithPrefix(job[j].path)

(* No file is at the mercy of a path's message but those that crossed it.  *)
StoreInv ==
  /\ TypeOK
  /\ \A i \in Ids : status[i] = "none" <=> at[i] = None
  /\ \A l \in Location : file[l] # 0 => at[file[l]] = l
  /\ \A j \in Jobs : JobInv(j)
  /\ \A i \in Ids \ crossed, j \in Jobs :
       (Live(i) /\ OnPath(j)) => at[i] \notin WithPrefix(job[j].path)
  /\ \A i \in Ids \ crossed :
       (Live(i) /\ (Folder(i) = <<>> => at[i].name \notin Struck)) => file[at[i]] # 0

(* A message that will remove the file. *)
Covers(j, l) ==
  \/ At(j, "queued") /\ job[j].id # 0 /\ KeyByUrl(job[j].id) = l
  \/ At(j, "queued") /\ job[j].id = 0 /\ l \in WithPrefix(job[j].path)
  \/ At(j, "removing") /\ l \in job[j].listed

CleanInv ==
  "dropped" \notin faults =>
    \A l \in Location :
      file[l] # 0 => Live(file[l]) \/ Unaddressed(file[l]) \/ \E j \in Jobs : Covers(j, l)

IndInv == StoreInv /\ CleanInv

=============================================================================
