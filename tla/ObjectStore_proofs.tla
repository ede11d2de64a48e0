------------------------- MODULE ObjectStore_proofs -------------------------
(***************************************************************************)
(* Theorems about ObjectStore, for every set of folders and names, every   *)
(* relation that LIKE may make between them, and any number of uploads,    *)
(* deletions and failures.                                                 *)
(***************************************************************************)
EXTENDS ObjectStore, TLAPS

----------------------------------------------------------------------------
(* Updates. *)

JobRecord == [place : Place, id : Ids \cup {0}, path : Folders, listed : SUBSET Location]

LEMMA RootIsFolder == <<>> \in Folders
BY FoldersAssumption

LEMMA PlaceMembers == {"idle", "asked", "queued", "removing", "done"} \subseteq Place
BY DEF Place

(* A deletion takes a step of its own. *)
LEMMA Ran ==
  ASSUME TypeOK, NEW j \in Jobs, NEW p \in Place, NEW i \in Ids \cup {0}, NEW f \in Folders,
         NEW places \in SUBSET Location, Run(j, p, i, f, places)
  PROVE  /\ job' \in [Jobs -> JobRecord]
         /\ job'[j].place = p /\ job'[j].id = i /\ job'[j].path = f /\ job'[j].listed = places
         /\ \A h \in Jobs \ {j} : job'[h] = job[h]
<1> DEFINE r == [place |-> p, id |-> i, path |-> f, listed |-> places]
<1>1. r \in JobRecord /\ r.place = p /\ r.id = i /\ r.path = f /\ r.listed = places
  BY DEF JobRecord
<1>2. job' = [job EXCEPT ![j] = r] /\ job \in [Jobs -> JobRecord]
  BY DEF Run, TypeOK, JobRecord
<1> HIDE DEF r
<1>3. QED
  BY <1>1, <1>2

LEMMA JobFields ==
  ASSUME TypeOK, NEW j \in Jobs
  PROVE  /\ job[j].place \in Place /\ job[j].id \in Ids \cup {0} /\ job[j].path \in Folders
         /\ job[j].listed \in SUBSET Location
BY DEF TypeOK

LEMMA Ended ==
  ASSUME TypeOK, NEW j \in Jobs, End(j)
  PROVE  /\ job' \in [Jobs -> JobRecord]
         /\ job'[j].place = "done" /\ job'[j].id = 0
         /\ \A h \in Jobs \ {j} : job'[h] = job[h]
BY Ran, RootIsFolder, PlaceMembers DEF End

LEMMA Repeated ==
  ASSUME TypeOK, NEW j \in Jobs, Again(j)
  PROVE  /\ job' \in [Jobs -> JobRecord]
         /\ job'[j].place = "queued" /\ job'[j].id = job[j].id /\ job'[j].path = job[j].path
         /\ \A h \in Jobs \ {j} : job'[h] = job[h]
BY Ran, JobFields, PlaceMembers DEF Again

LEMMA FaultsStay ==
  ASSUME TypeOK
  PROVE  /\ NoFault => faults' \subseteq FaultKind /\ faults' = faults
         /\ \A k \in {"dropped", "repeated"} :
              Fault(k) => /\ faults' \subseteq FaultKind /\ faults \subseteq faults'
                          /\ k \in faults'
BY DEF TypeOK, NoFault, Fault, FaultKind

LEMMA Removed ==
  ASSUME TypeOK, NEW places, Remove(places)
  PROVE  /\ file' \in [Location -> Ids \cup {0}]
         /\ \A l \in Location : file'[l] = IF l \in places THEN 0 ELSE file[l]
BY DEF Remove, TypeOK

(* Places and their folders. *)
LEMMA Places ==
  ASSUME TypeOK, NEW i \in Ids, at[i] \in Location
  PROVE  /\ Folder(i) \in Folders /\ at[i].name \in Names
         /\ KeyByUrl(i) \in Location
         /\ (Folder(i) = <<>>) <=> (KeyByUrl(i) = at[i])
         /\ KeyByUrl(i).folder = <<>> /\ KeyByUrl(i).name = at[i].name
<1>1. /\ Folder(i) \in Folders /\ at[i].name \in Names
      /\ at[i] = [folder |-> Folder(i), name |-> at[i].name]
  BY DEF Location, Folder
<1>2. QED
  BY <1>1, RootIsFolder DEF Location, KeyByUrl, Folder

----------------------------------------------------------------------------
(* StoreInv: what a step leaves of each of its parts. *)

Typed == /\ status' \in [Ids -> Status] /\ at' \in [Ids -> Location \cup {None}]
         /\ file' \in [Location -> Ids \cup {0}] /\ job' \in [Jobs -> JobRecord]
         /\ crossed' \subseteq Ids /\ faults' \subseteq FaultKind

LEMMA TypedOK == Typed => TypeOK'
BY DEF Typed, TypeOK, JobRecord

(* A deletion that does not step keeps what is said of it. *)
LEMMA OthersInv ==
  ASSUME StoreInv, NEW h \in Jobs, job'[h] = job[h],
         \A i \in Ids : /\ status[i] # "none" => status'[i] # "none"
                        /\ status[i] = "deleted" => status'[i] = "deleted"
  PROVE  JobInv(h)'
<1>1. JobInv(h) /\ job[h].id \in Ids \cup {0}
  BY JobFields DEF StoreInv
<1>2. QED
  BY <1>1 DEF JobInv, At, WithPrefix

LEMMA UploadKeeps ==
  ASSUME StoreInv, NEW i \in Ids, NEW l \in Location, UploadObject(i, l)
  PROVE  StoreInv'
<1>1. TypeOK /\ status[i] = "none" /\ at[i] = None /\ l # None
  BY NoneAssumption DEF StoreInv, UploadObject
<1>2. /\ at' = [at EXCEPT ![i] = l] /\ file' = [file EXCEPT ![l] = i] /\ UNCHANGED job
      /\ crossed \subseteq crossed' /\ crossed' \subseteq crossed \cup {i}
      /\ i \notin crossed' => ~PathUnderWay(l)
      /\ \E s \in {"stored", "gone"} : status' = [status EXCEPT ![i] = s]
  BY DEF UploadObject
<1>3. TypeOK'
  <2>1. faults' \subseteq FaultKind
    BY <1>1, FaultsStay DEF UploadObject
  <2>2. QED
    BY <1>1, <1>2, <2>1, TypedOK DEF TypeOK, Typed, Status, JobRecord
<1>4. \A h \in Ids : status'[h] = "none" <=> at'[h] = None
  BY <1>1, <1>2 DEF StoreInv, TypeOK
<1>5. \A m \in Location : file[m] # i
  BY <1>1, NoneAssumption DEF StoreInv, Ids
<1>6. \A m \in Location : file'[m] # 0 => at'[file'[m]] = m
  BY <1>1, <1>2, <1>5 DEF StoreInv, TypeOK
<1>7. \A h \in Jobs : JobInv(h)'
  BY <1>1, <1>2, OthersInv DEF TypeOK
<1>8. \A h \in Ids \ crossed', j \in Jobs :
        (Live(h)' /\ OnPath(j)') => at'[h] \notin WithPrefix(job'[j].path)
  <2> SUFFICES ASSUME NEW h \in Ids \ crossed', NEW j \in Jobs, Live(h)', OnPath(j)'
               PROVE  at'[h] \notin WithPrefix(job[j].path)
    BY <1>2
  <2>1. OnPath(j)
    BY <1>2 DEF OnPath
  <2>2. CASE h = i
    BY <1>1, <1>2, <2>1, <2>2 DEF PathUnderWay, TypeOK
  <2>3. CASE h # i
    BY <1>1, <1>2, <2>1, <2>3 DEF StoreInv, Live, TypeOK
  <2>4. QED
    BY <2>2, <2>3
<1>9. \A h \in Ids \ crossed' :
        (Live(h)' /\ (Folder(h)' = <<>> => at'[h].name \notin Struck')) => file'[at'[h]] # 0
  <2> SUFFICES ASSUME NEW h \in Ids \ crossed', Live(h)',
                      Folder(h)' = <<>> => at'[h].name \notin Struck'
               PROVE  file'[at'[h]] # 0
    OBVIOUS
  <2>1. CASE at'[h] = l
    BY <1>1, <1>2, <2>1 DEF TypeOK, Ids
  <2>2. CASE at'[h] # l
    <3>1. h # i /\ Live(h) /\ at'[h] = at[h] /\ Folder(h)' = Folder(h) /\ h \notin crossed
      BY <1>1, <1>2, <2>2 DEF Live, TypeOK, Folder
    <3>2. Struck \subseteq Struck'
      <4>1. \A g \in Ids : status[g] = "deleted" => status'[g] = "deleted" /\ at'[g] = at[g]
        BY <1>1, <1>2 DEF TypeOK
      <4>2. QED
        BY <4>1 DEF Struck
    <3>3. file[at[h]] # 0
      BY <3>1, <3>2 DEF StoreInv
    <3>4. at[h] \in Location
      BY <1>1, <3>1 DEF StoreInv, Live, TypeOK
    <3>5. QED
      BY <1>1, <1>2, <2>2, <3>1, <3>3, <3>4 DEF TypeOK
  <2>3. QED
    BY <2>1, <2>2
<1>10. QED
  BY <1>3, <1>4, <1>6, <1>7, <1>8, <1>9 DEF StoreInv

(* Steps that neither begin an upload nor bring one back to life: the      *)
(* three parts about single uploads and files follow from what the step    *)
(* does to files and to paths.                                             *)
LEMMA RestKept ==
  ASSUME StoreInv, TypeOK', UNCHANGED at, crossed \subseteq crossed',
         \A i \in Ids : /\ status[i] = "none" <=> status'[i] = "none"
                        /\ status'[i] \in {"stored", "listed"} => Live(i)
                        /\ status[i] = "deleted" => status'[i] = "deleted",
         \A l \in Location : file'[l] \in {0, file[l]},
         \A j \in Jobs : JobInv(j)',
         \A i \in Ids \ crossed', j \in Jobs :
           (Live(i)' /\ OnPath(j)') =>
             \/ at[i] \notin WithPrefix(job'[j].path)
             \/ OnPath(j) /\ job'[j].path = job[j].path,
         \A i \in Ids \ crossed' :
           (Live(i) /\ file[at[i]] # 0 /\ file'[at[i]] = 0) =>
             Folder(i) = <<>> /\ at[i].name \in Struck
  PROVE  StoreInv'
<1>1. \A i \in Ids : status'[i] = "none" <=> at'[i] = None
  BY DEF StoreInv
<1>2. \A l \in Location : file'[l] # 0 => at'[file'[l]] = l
  BY DEF StoreInv
<1>3. \A i \in Ids \ crossed', j \in Jobs :
        (Live(i)' /\ OnPath(j)') => at'[i] \notin WithPrefix(job'[j].path)
  BY DEF StoreInv, Live
<1>4. Struck \subseteq Struck'
  BY DEF Struck
<1>5. \A i \in Ids : Folder(i)' = Folder(i)
  BY DEF Folder
<1>6. \A i \in Ids \ crossed' :
        (Live(i)' /\ (Folder(i)' = <<>> => at'[i].name \notin Struck')) => file'[at'[i]] # 0
  <2> SUFFICES ASSUME NEW i \in Ids \ crossed', Live(i)', file'[at[i]] = 0,
                      Folder(i)' = <<>> => at[i].name \notin Struck'
               PROVE  FALSE
    OBVIOUS
  <2>1. Live(i) /\ i \in Ids \ crossed /\ (Folder(i) = <<>> => at[i].name \notin Struck)
    BY <1>4, <1>5 DEF Live
  <2>2. file[at[i]] # 0
    BY <2>1 DEF StoreInv
  <2>3. QED
    BY <2>1, <2>2
<1>7. QED
  BY <1>1, <1>2, <1>3, <1>6 DEF StoreInv

LEMMA CreateKeeps ==
  ASSUME StoreInv, NEW i \in Ids, CreateObject(i)
  PROVE  StoreInv'
<1>1. TypeOK /\ status[i] = "stored"
  BY DEF StoreInv, CreateObject
<1>2. /\ UNCHANGED <<at, file, job, crossed>>
      /\ \E s \in {"listed", "gone"} : status' = [status EXCEPT ![i] = s]
  BY DEF CreateObject
<1>3. TypeOK'
  <2>1. faults' \subseteq FaultKind
    BY <1>1, FaultsStay DEF CreateObject
  <2>2. QED
    BY <1>1, <1>2, <2>1 DEF TypeOK, Status
<1>4. \A h \in Ids : /\ status[h] = "none" <=> status'[h] = "none"
                     /\ status'[h] \in {"stored", "listed"} => Live(h)
                     /\ status[h] = "deleted" => status'[h] = "deleted"
  BY <1>1, <1>2 DEF TypeOK, Live
<1>5. \A j \in Jobs : JobInv(j)'
  BY <1>2, <1>4, OthersInv
<1>6. QED
  BY <1>1, <1>2, <1>3, <1>4, <1>5, RestKept DEF OnPath, TypeOK

LEMMA AskKeeps ==
  ASSUME StoreInv, NEW j \in Jobs, NEW i \in Ids, FindByID(j, i)
  PROVE  StoreInv'
<1>1. TypeOK /\ status[i] = "listed"
  BY DEF StoreInv, FindByID, Rows
<1>2. /\ UNCHANGED <<status, at, file, crossed, faults>>
      /\ Run(j, "asked", i, <<>>, {})
  BY DEF FindByID
<1>3. /\ job' \in [Jobs -> JobRecord]
      /\ job'[j].place = "asked" /\ job'[j].id = i
      /\ \A h \in Jobs \ {j} : job'[h] = job[h]
  BY <1>1, <1>2, Ran, RootIsFolder, PlaceMembers
<1>4. TypeOK'
  BY <1>1, <1>2, <1>3 DEF TypeOK, JobRecord
<1>5. \A h \in Jobs : JobInv(h)'
  <2>1. JobInv(j)'
    BY <1>1, <1>2, <1>3 DEF JobInv, At, Ids
  <2>2. QED
    BY <1>2, <1>3, <2>1, OthersInv
<1>6. \A h \in Jobs : OnPath(h)' => OnPath(h) /\ job'[h] = job[h]
  BY <1>3 DEF OnPath
<1>7. QED
  BY <1>1, <1>2, <1>4, <1>5, <1>6, RestKept DEF Live

LEMMA DeleteKeeps ==
  ASSUME StoreInv, NEW j \in Jobs, DeleteObject(j)
  PROVE  StoreInv'
<1> DEFINE i == job[j].id
<1>1. TypeOK /\ JobInv(j) /\ At(j, "asked") /\ i \in Ids /\ status[i] # "none"
  BY JobFields DEF StoreInv, DeleteObject, JobInv
<1>2. /\ UNCHANGED <<at, file, crossed>>
      /\ \/ status' = [status EXCEPT ![i] = "deleted"] /\ (Again(j) \/ End(j))
         \/ status' = status /\ End(j)
  BY DEF DeleteObject
<1>3. /\ job' \in [Jobs -> JobRecord]
      /\ \A h \in Jobs \ {j} : job'[h] = job[h]
      /\ \/ job'[j].place = "done" /\ job'[j].id = 0
         \/ job'[j].place = "queued" /\ job'[j].id = i /\ status' = [status EXCEPT ![i] = "deleted"]
  BY <1>1, <1>2, Repeated, Ended
<1>4. TypeOK'
  <2>1. faults' \subseteq FaultKind
    BY <1>1, FaultsStay DEF DeleteObject
  <2>2. QED
    BY <1>1, <1>2, <1>3, <2>1 DEF TypeOK, Status, JobRecord
<1>5. \A h \in Ids : /\ status[h] = "none" <=> status'[h] = "none"
                     /\ status'[h] \in {"stored", "listed"} => Live(h)
                     /\ status[h] = "deleted" => status'[h] = "deleted"
  BY <1>1, <1>2 DEF TypeOK, Live
<1>6. \A h \in Jobs : JobInv(h)'
  <2>1. JobInv(j)'
    BY <1>1, <1>3 DEF JobInv, At, TypeOK, Ids
  <2>2. QED
    BY <1>3, <1>5, <2>1, OthersInv
<1>7. \A h \in Jobs : OnPath(h)' => OnPath(h) /\ job'[h] = job[h]
  BY <1>1, <1>3 DEF OnPath, Ids
<1>8. QED
  BY <1>1, <1>2, <1>4, <1>5, <1>6, <1>7, RestKept

(* What a path's DELETE leaves is not in the path, for it takes no less    *)
(* than the path.                                                          *)
LEMMA PathTakesAll ==
  ASSUME StoreInv, NEW p \in Folders, NEW i \in Rows, at[i] \in WithPrefix(p)
  PROVE  i \in RowsOfPath(p)
<1>1. Folder(i) \in Folders /\ Under(p, Folder(i))
  BY DEF WithPrefix, Location, Folder
<1>2. QED
  BY <1>1, LikeAssumption DEF RowsOfPath

LEMMA PathKeeps ==
  ASSUME StoreInv, NEW j \in Jobs, NEW p \in Folders, DeleteObjectsByPath(j, p)
  PROVE  StoreInv'
<1>1. TypeOK /\ JobInv(j)
  BY DEF StoreInv
<1>2. /\ UNCHANGED <<at, file>>
      /\ status' = [i \in Ids |-> IF i \notin RowsOfPath(p) THEN status[i]
                                  ELSE IF at[i] \in WithPrefix(p) THEN "gone" ELSE "stranded"]
      /\ crossed' = crossed \cup {i \in Ids : status[i] = "stored" /\ at[i] \in WithPrefix(p)}
      /\ Run(j, "queued", 0, p, {}) \/ End(j)
  BY DEF DeleteObjectsByPath
<1>3. /\ job' \in [Jobs -> JobRecord]
      /\ \A h \in Jobs \ {j} : job'[h] = job[h]
      /\ job'[j].id = 0
      /\ job'[j].place = "done" \/ (job'[j].place = "queued" /\ job'[j].path = p)
  BY <1>1, <1>2, Ended, Ran, PlaceMembers
<1>4. TypeOK'
  <2>1. faults' \subseteq FaultKind
    BY <1>1, FaultsStay DEF DeleteObjectsByPath
  <2>2. status' \in [Ids -> Status]
    BY <1>1, <1>2 DEF TypeOK, Status
  <2>3. QED
    BY <1>1, <1>2, <1>3, <2>1, <2>2 DEF TypeOK, JobRecord
<1>5. \A h \in Ids : /\ status[h] = "none" <=> status'[h] = "none"
                     /\ status'[h] \in {"stored", "listed"} => Live(h)
                     /\ status[h] = "deleted" => status'[h] = "deleted"
  BY <1>1, <1>2 DEF TypeOK, Live, RowsOfPath, Rows
<1>6. \A h \in Jobs : JobInv(h)'
  <2>1. JobInv(j)'
    BY <1>3 DEF JobInv, At
  <2>2. QED
    BY <1>3, <1>5, <2>1, OthersInv
<1>7. \A i \in Ids \ crossed', h \in Jobs :
        (Live(i)' /\ OnPath(h)') =>
          \/ at[i] \notin WithPrefix(job'[h].path)
          \/ OnPath(h) /\ job'[h].path = job[h].path
  <2> SUFFICES ASSUME NEW i \in Ids \ crossed', Live(i)', OnPath(j)',
                      at[i] \in WithPrefix(job'[j].path)
               PROVE  FALSE
    BY <1>3 DEF OnPath
  <2>1. job'[j].path = p
    BY <1>3 DEF OnPath
  <2>2. Live(i) /\ status[i] # "stored"
    BY <1>2, <1>5, <2>1 DEF Live
  <2>3. i \in RowsOfPath(p)
    BY <2>1, <2>2, PathTakesAll DEF Rows, Live
  <2>4. QED
    BY <1>2, <2>3 DEF Live
<1>8. QED
  BY <1>1, <1>2, <1>4, <1>5, <1>6, <1>7, RestKept DEF TypeOK

(* A consumer's step: the uploads stay as they are. *)
LEMMA ConsumerKeeps ==
  ASSUME StoreInv, NEW j \in Jobs, UNCHANGED <<status, at, crossed>>, TypeOK',
         \A l \in Location : file'[l] \in {0, file[l]},
         \A h \in Jobs \ {j} : job'[h] = job[h],
         JobInv(j)', OnPath(j)' => OnPath(j) /\ job'[j].path = job[j].path,
         \A i \in Ids \ crossed :
           (Live(i) /\ file[at[i]] # 0 /\ file'[at[i]] = 0) =>
             Folder(i) = <<>> /\ at[i].name \in Struck
  PROVE  StoreInv'
<1>1. \A h \in Jobs : JobInv(h)'
  BY OthersInv
<1>2. \A h \in Jobs : OnPath(h)' => OnPath(h) /\ job'[h].path = job[h].path
  BY DEF OnPath
<1>3. QED
  BY <1>1, <1>2, RestKept DEF Live

LEMMA RemoveKeeps ==
  ASSUME StoreInv, NEW j \in Jobs, RemoveObject(j)
  PROVE  StoreInv'
<1> DEFINE i == job[j].id
<1>1. TypeOK /\ JobInv(j) /\ i \in Ids /\ i # 0 /\ status[i] = "deleted" /\ at[i] \in Location
  BY JobFields DEF StoreInv, RemoveObject, JobInv, TypeOK
<1>2. /\ UNCHANGED <<status, at, crossed>>
      /\ Remove({KeyByUrl(i)}) \/ file' = file
      /\ End(j) \/ Again(j)
  BY DEF RemoveObject
<1>3. /\ job' \in [Jobs -> JobRecord]
      /\ \A h \in Jobs \ {j} : job'[h] = job[h]
      /\ \/ job'[j].place = "done" /\ job'[j].id = 0
         \/ job'[j].place = "queued" /\ job'[j].id = i
  BY <1>1, <1>2, Ended, Repeated
<1>4. /\ file' \in [Location -> Ids \cup {0}]
      /\ \A l \in Location : file'[l] # file[l] => file'[l] = 0 /\ l = KeyByUrl(i)
  BY <1>1, <1>2, Removed DEF TypeOK
<1>5. TypeOK'
  <2>1. faults' \subseteq FaultKind
    BY <1>1, FaultsStay DEF RemoveObject
  <2>2. QED
    BY <1>1, <1>2, <1>3, <1>4, <2>1 DEF TypeOK, JobRecord
<1>6. JobInv(j)' /\ ~OnPath(j)'
  BY <1>1, <1>2, <1>3 DEF JobInv, OnPath, At
<1>7. ASSUME NEW h \in Ids, Live(h), file[at[h]] # 0, file'[at[h]] = 0
      PROVE  Folder(h) = <<>> /\ at[h].name \in Struck
  <2>1. at[h] \in Location /\ at[h] = KeyByUrl(i)
    BY <1>1, <1>4, <1>7 DEF StoreInv, Live, TypeOK
  <2>2. at[i].name \in Struck
    BY <1>1 DEF Struck
  <2>3. QED
    BY <1>1, <2>1, <2>2, Places DEF Folder
<1>8. QED
  BY <1>2, <1>3, <1>4, <1>5, <1>6, <1>7, ConsumerKeeps

LEMMA SweepKeeps ==
  ASSUME StoreInv, NEW j \in Jobs,
         ListObjects(j) \/ (\E l \in Location : RemoveListed(j, l)) \/ AckPath(j) \/ ConsumerCrash(j)
  PROVE  StoreInv'
<1>1. /\ TypeOK /\ JobInv(j) /\ OnPath(j)
      /\ At(j, "removing") => job[j].listed \subseteq WithPrefix(job[j].path)
  BY JobFields DEF StoreInv, ListObjects, RemoveListed, AckPath, ConsumerCrash, JobInv, OnPath, At
<1>2. /\ UNCHANGED <<status, at, crossed>>
      /\ file' = file \/ \E l \in job[j].listed : At(j, "removing") /\ Remove({l})
      /\ \/ End(j) \/ Again(j)
         \/ \E places \in SUBSET WithPrefix(job[j].path) :
              Run(j, "removing", 0, job[j].path, places)
  BY <1>1 DEF ListObjects, RemoveListed, AckPath, ConsumerCrash, Files
<1>3. /\ job' \in [Jobs -> JobRecord]
      /\ \A h \in Jobs \ {j} : job'[h] = job[h]
      /\ job'[j].id = 0
      /\ \/ job'[j].place = "done"
         \/ job'[j].place = "queued" /\ job'[j].path = job[j].path
         \/ /\ job'[j].place = "removing" /\ job'[j].path = job[j].path
            /\ job'[j].listed \subseteq WithPrefix(job[j].path)
  <2>1. CASE End(j) \/ Again(j)
    BY <1>1, <2>1, Ended, Repeated DEF OnPath
  <2>2. ASSUME NEW places \in SUBSET WithPrefix(job[j].path),
               Run(j, "removing", 0, job[j].path, places)
        PROVE  /\ job' \in [Jobs -> JobRecord]
               /\ \A h \in Jobs \ {j} : job'[h] = job[h]
               /\ job'[j].id = 0
               /\ job'[j].place = "removing" /\ job'[j].path = job[j].path
               /\ job'[j].listed = places
    <3>1. places \in SUBSET Location
      BY DEF WithPrefix
    <3>2. "removing" \in Place /\ 0 \in Ids \cup {0} /\ job[j].path \in Folders
      BY <1>1, JobFields, PlaceMembers
    <3>3. TypeOK
      BY <1>1
    <3> HIDE <1>1, <1>2
    <3>4. QED
      BY <2>2, <3>1, <3>2, <3>3, Ran
  <2>3. CASE \E places \in SUBSET WithPrefix(job[j].path) :
               Run(j, "removing", 0, job[j].path, places)
    <3>1. PICK places \in SUBSET WithPrefix(job[j].path) :
                 Run(j, "removing", 0, job[j].path, places)
      BY <2>3
    <3>2. QED
      BY <2>2, <3>1
  <2>4. QED
    BY <1>2, <2>1, <2>3
<1>4. /\ file' \in [Location -> Ids \cup {0}]
      /\ \A l \in Location : file'[l] # file[l] => file'[l] = 0 /\ l \in WithPrefix(job[j].path)
  <2>1. CASE file' = file
    BY <1>1, <2>1 DEF TypeOK
  <2>2. ASSUME NEW l \in job[j].listed, At(j, "removing"), Remove({l})
        PROVE  /\ file' \in [Location -> Ids \cup {0}]
               /\ \A m \in Location : file'[m] # file[m] => file'[m] = 0 /\ m = l
    BY <1>1, <2>2, Removed
  <2>3. QED
    BY <1>1, <1>2, <2>1, <2>2
<1>5. TypeOK'
  <2>1. faults' \subseteq FaultKind
    BY <1>1, FaultsStay DEF ListObjects, RemoveListed, AckPath, ConsumerCrash, TypeOK
  <2>2. QED
    BY <1>1, <1>2, <1>3, <1>4, <2>1 DEF TypeOK, JobRecord
<1>6. JobInv(j)' /\ (OnPath(j)' => job'[j].path = job[j].path)
  BY <1>3 DEF JobInv, OnPath, At, WithPrefix
<1>7. \A i \in Ids \ crossed : Live(i) => at[i] \in Location /\ at[i] \notin WithPrefix(job[j].path)
  BY <1>1 DEF StoreInv, Live, TypeOK
<1>8. QED
  BY <1>1, <1>2, <1>3, <1>4, <1>5, <1>6, <1>7, ConsumerKeeps

LEMMA Initially == Init => IndInv
<1> SUFFICES ASSUME Init PROVE IndInv
  OBVIOUS
<1>1. NoJob \in JobRecord /\ NoJob.place = "idle" /\ NoJob.id = 0
  BY RootIsFolder, PlaceMembers DEF NoJob, JobRecord
<1>2. TypeOK
  BY <1>1 DEF Init, TypeOK, JobRecord, Status
<1>3. \A j \in Jobs : JobInv(j) /\ ~OnPath(j)
  BY <1>1 DEF Init, JobInv, At, OnPath
<1>4. QED
  BY <1>2, <1>3 DEF Init, IndInv, StoreInv, CleanInv, Live

LEMMA StoreInvKept == StoreInv /\ [Next]_vars => StoreInv'
<1> SUFFICES ASSUME StoreInv, [Next]_vars PROVE StoreInv'
  OBVIOUS
<1>1. CASE Request
  BY <1>1, UploadKeeps, AskKeeps, PathKeeps DEF Request
<1>2. CASE \E i \in Ids : CreateObject(i)
  BY <1>2, CreateKeeps
<1>3. CASE \E j \in Jobs : DeletionStep(j) \/ ConsumerCrash(j)
  BY <1>3, DeleteKeeps, RemoveKeeps, SweepKeeps DEF DeletionStep
<1>4. CASE UNCHANGED vars
  <2>1. TypeOK' /\ \A j \in Jobs : JobInv(j)'
    BY <1>4, OthersInv DEF vars, StoreInv, TypeOK
  <2>2. QED
    BY <1>4, <2>1, RestKept DEF vars, Live, OnPath, StoreInv, TypeOK
<1>5. QED
  BY <1>1, <1>2, <1>3, <1>4 DEF Next

(* Every variable keeps its type. *)
THEOREM TypeCorrect == Spec => []TypeOK
<1>1. IndInv => StoreInv
  BY DEF IndInv
<1>2. StoreInv => TypeOK
  BY DEF StoreInv
<1>3. QED
  BY <1>1, <1>2, Initially, StoreInvKept, PTL DEF Spec

(* No interleaving of uploads, deletions and messages, and no failure,     *)
(* takes a row's file away, but the crossings that RowHasFile names.       *)
THEOREM RowsHaveFiles == Spec => []RowHasFile
<1>1. IndInv => StoreInv
  BY DEF IndInv
<1>2. StoreInv => RowHasFile
  <2> SUFFICES ASSUME StoreInv, NEW i \in Rows \ crossed,
                      Folder(i) = <<>> => at[i].name \notin Struck
               PROVE  file[at[i]] # 0 /\ (Folder(i) = <<>> => at[Download(i)] = at[i])
    BY DEF RowHasFile
  <2>1. TypeOK /\ i \in Ids /\ Live(i)
    BY DEF StoreInv, Rows, Live
  <2>2. at[i] \in Location /\ file[at[i]] # 0
    BY <2>1 DEF StoreInv, Live, TypeOK
  <2>3. Folder(i) = <<>> => KeyByUrl(i) = at[i]
    BY <2>1, <2>2, Places
  <2>4. QED
    BY <2>1, <2>2, <2>3 DEF StoreInv, Download
<1>3. QED
  BY <1>1, <1>2, Initially, StoreInvKept, PTL DEF Spec

----------------------------------------------------------------------------
(* Files without a row: there is a message for each, until somebody fails  *)
(* whom nobody repeats.                                                    *)

Explained(l) ==
  file[l] # 0 => Live(file[l]) \/ Unaddressed(file[l]) \/ \E j \in Jobs : Covers(j, l)

(* A message that does not step covers what it covered. *)
LEMMA CoversKept ==
  ASSUME StoreInv, NEW h \in Jobs, NEW l, Covers(h, l), job'[h] = job[h],
         \A i \in Ids : status[i] # "none" => at'[i] = at[i]
  PROVE  Covers(h, l)'
<1>1. JobInv(h) /\ job[h].id \in Ids \cup {0}
  BY JobFields DEF StoreInv
<1>2. QED
  BY <1>1 DEF Covers, At, KeyByUrl, WithPrefix, JobInv

(* What is to be shown of a step of a deletion or a consumer: a file that  *)
(* was explained and stays is explained again.                             *)
LEMMA ExplainedByStep ==
  ASSUME StoreInv, CleanInv, "dropped" \notin faults, UNCHANGED at, NEW j \in Jobs,
         \A h \in Jobs \ {j} : job'[h] = job[h],
         \A l \in Location : file'[l] \in {0, file[l]},
         \A i \in Ids : status'[i] = status[i] \/ (status'[i] = "deleted" /\ status[i] # "none"),
         NEW i \in Ids \cup {0},
         \A h \in Ids : h # i => status'[h] = status[h],
         \A l \in Location :
           (file'[l] # 0 /\ Covers(j, l)) => Covers(j, l)',
         \A l \in Location :
           (file'[l] # 0 /\ file[l] = i /\ status'[i] # status[i]) =>
             Unaddressed(i)' \/ Covers(j, l)'
  PROVE  CleanInv'
<1> SUFFICES ASSUME NEW l \in Location, file'[l] # 0
             PROVE  Live(file[l])' \/ Unaddressed(file[l])' \/ \E h \in Jobs : Covers(h, l)'
  BY DEF CleanInv
<1>1. file'[l] = file[l] /\ file[l] \in Ids
  BY DEF StoreInv, TypeOK
<1>2. CASE \E h \in Jobs : Covers(h, l)
  BY <1>2, CoversKept
<1>3. CASE status'[file[l]] # status[file[l]]
  BY <1>1, <1>3
<1>4. CASE status'[file[l]] = status[file[l]] /\ ~(\E h \in Jobs : Covers(h, l))
  <2>1. Live(file[l]) \/ Unaddressed(file[l])
    BY <1>1, <1>4 DEF CleanInv
  <2>2. QED
    BY <1>1, <1>4, <2>1 DEF Live, Unaddressed, Folder
<1>5. QED
  BY <1>2, <1>3, <1>4

LEMMA UploadExplained ==
  ASSUME StoreInv, CleanInv, NEW i \in Ids, NEW l \in Location, UploadObject(i, l),
         "dropped" \notin faults'
  PROVE  CleanInv'
<1> SUFFICES ASSUME NEW m \in Location, file'[m] # 0
             PROVE  Live(file[m])' \/ Unaddressed(file[m])' \/ \E h \in Jobs : Covers(h, m)'
  BY DEF CleanInv
<1>1. /\ TypeOK /\ status[i] = "none" /\ at[i] = None
      /\ at' = [at EXCEPT ![i] = l] /\ file' = [file EXCEPT ![l] = i] /\ UNCHANGED <<job, faults>>
      /\ status' = [status EXCEPT ![i] = "stored"]
  <2>1. TypeOK /\ ~Fault("dropped")
    BY DEF StoreInv, Fault
  <2>2. QED
    BY <2>1 DEF StoreInv, UploadObject, NoFault
<1>2. CASE m = l
  BY <1>1, <1>2 DEF Live, TypeOK
<1>3. CASE m # l
  <2>1. file'[m] = file[m] /\ file[m] \in Ids /\ file[m] # i
    BY <1>1, <1>3, NoneAssumption DEF TypeOK, StoreInv
  <2>2. \A h \in Ids : status[h] # "none" => at'[h] = at[h]
    BY <1>1 DEF TypeOK
  <2>3. CASE \E h \in Jobs : Covers(h, m)
    BY <1>1, <2>2, <2>3, CoversKept
  <2>4. CASE Live(file[m]) \/ Unaddressed(file[m])
    BY <1>1, <2>1, <2>4 DEF Live, Unaddressed, Folder, TypeOK
  <2>5. QED
    BY <1>1, <2>1, <2>3, <2>4 DEF CleanInv
<1>4. QED
  BY <1>2, <1>3

LEMMA CreateExplained ==
  ASSUME StoreInv, CleanInv, NEW i \in Ids, CreateObject(i), "dropped" \notin faults'
  PROVE  CleanInv'
<1> SUFFICES ASSUME NEW m \in Location, file'[m] # 0
             PROVE  Live(file[m])' \/ Unaddressed(file[m])' \/ \E h \in Jobs : Covers(h, m)'
  BY DEF CleanInv
<1>1. /\ UNCHANGED <<at, file, job, faults>> /\ status[i] = "stored"
      /\ status' = [status EXCEPT ![i] = "listed"]
  <2>1. ~Fault("dropped")
    BY DEF Fault
  <2>2. QED
    BY <2>1 DEF CreateObject, NoFault
<1>2. file[m] \in Ids /\ (Live(file[m]) \/ Unaddressed(file[m]) \/ \E h \in Jobs : Covers(h, m))
  BY <1>1 DEF StoreInv, TypeOK, CleanInv
<1>3. CASE \E h \in Jobs : Covers(h, m)
  BY <1>1, <1>3, CoversKept
<1>4. CASE Live(file[m]) \/ Unaddressed(file[m])
  BY <1>1, <1>2, <1>4 DEF StoreInv, TypeOK, Live, Unaddressed, Folder
<1>5. QED
  BY <1>2, <1>3, <1>4

LEMMA DeleteExplained ==
  ASSUME StoreInv, CleanInv, NEW j \in Jobs, DeleteObject(j), "dropped" \notin faults'
  PROVE  CleanInv'
<1>0. PICK i \in Ids : i = job[j].id
  BY JobFields DEF StoreInv, DeleteObject, JobInv
<1>1. TypeOK /\ JobInv(j) /\ At(j, "asked") /\ i \in Ids /\ i # 0
      /\ status[i] # "none" /\ at[i] \in Location
  BY <1>0, JobFields DEF StoreInv, DeleteObject, JobInv, TypeOK, Ids
<1>2. /\ UNCHANGED <<at, file>>
      /\ \/ status' = [status EXCEPT ![i] = "deleted"] /\ Again(j)
         \/ status' = status /\ End(j)
  <2>1. ~Fault("dropped")
    BY DEF Fault
  <2>2. QED
    BY <1>0, <2>1 DEF DeleteObject
<1>3. /\ \A h \in Jobs \ {j} : job'[h] = job[h]
      /\ status' # status => job'[j].place = "queued" /\ job'[j].id = i
  BY <1>0, <1>1, <1>2, Repeated, Ended
<1>4. /\ \A h \in Ids : h # i => status'[h] = status[h]
      /\ status'[i] = status[i] \/ (status' # status /\ status'[i] = "deleted")
  BY <1>1, <1>2 DEF TypeOK
<1>5. "dropped" \notin faults
  BY <1>1, FaultsStay DEF DeleteObject
<1>6. \A l \in Location : ~Covers(j, l)
  BY <1>1 DEF Covers, At
<1>7. ASSUME NEW l \in Location, file[l] = i, status'[i] # status[i]
      PROVE  Unaddressed(i)' \/ Covers(j, l)'
  <2>1. at[i] = l /\ status'[i] = "deleted" /\ job'[j].place = "queued" /\ job'[j].id = i
    BY <1>1, <1>3, <1>4, <1>7 DEF StoreInv
  <2>2. CASE Folder(i) = <<>>
    <3>1. KeyByUrl(i) = l
      BY <1>1, <2>1, <2>2, Places
    <3>2. QED
      BY <1>1, <1>2, <2>1, <3>1 DEF Covers, At, KeyByUrl
  <2>3. CASE Folder(i) # <<>>
    BY <1>2, <2>1, <2>3 DEF Unaddressed, Folder
  <2>4. QED
    BY <2>2, <2>3
<1>8. \A h \in Ids : status'[h] = status[h] \/ (status'[h] = "deleted" /\ status[h] # "none")
  BY <1>1, <1>4
<1>9. \A l \in Location : file'[l] \in {0, file[l]}
  BY <1>2
<1>10. UNCHANGED at /\ i \in Ids \cup {0} /\ \A h \in Ids : h # i => status'[h] = status[h]
  BY <1>2, <1>4
<1>11. \A h \in Jobs \ {j} : job'[h] = job[h]
  BY <1>3
<1>12. QED
  BY <1>5, <1>6, <1>7, <1>8, <1>9, <1>10, <1>11, ExplainedByStep

(* Steps that change no upload: FindByID and the consumer's. *)
LEMMA QuietExplained ==
  ASSUME StoreInv, CleanInv, UNCHANGED <<status, at>>, NEW j \in Jobs, "dropped" \notin faults,
         \A h \in Jobs \ {j} : job'[h] = job[h],
         \A l \in Location : file'[l] \in {0, file[l]},
         \A l \in Location : (file'[l] # 0 /\ Covers(j, l)) => Covers(j, l)'
  PROVE  CleanInv'
BY ExplainedByStep

LEMMA AskExplained ==
  ASSUME StoreInv, CleanInv, NEW j \in Jobs, NEW i \in Ids, FindByID(j, i),
         "dropped" \notin faults'
  PROVE  CleanInv'
<1>1. \A h \in Jobs \ {j} : job'[h] = job[h]
  BY RootIsFolder, PlaceMembers, Ran DEF FindByID, StoreInv
<1>2. UNCHANGED <<status, at, file, faults>> /\ \A l \in Location : ~Covers(j, l)
  BY DEF FindByID, Begins, Covers, At
<1>3. QED
  BY <1>1, <1>2, QuietExplained

LEMMA PathExplained ==
  ASSUME StoreInv, CleanInv, NEW j \in Jobs, NEW p \in Folders, DeleteObjectsByPath(j, p),
         "dropped" \notin faults'
  PROVE  CleanInv'
<1> SUFFICES ASSUME NEW m \in Location, file'[m] # 0
             PROVE  Live(file[m])' \/ Unaddressed(file[m])' \/ \E h \in Jobs : Covers(h, m)'
  BY DEF CleanInv
<1>1. /\ TypeOK /\ UNCHANGED <<at, file, faults>> /\ At(j, "idle")
      /\ status' = [i \in Ids |-> IF i \notin RowsOfPath(p) THEN status[i]
                                  ELSE IF at[i] \in WithPrefix(p) THEN "gone" ELSE "stranded"]
      /\ Run(j, "queued", 0, p, {})
  <2>1. ~Fault("dropped")
    BY DEF Fault
  <2>2. QED
    BY <2>1 DEF StoreInv, DeleteObjectsByPath, Begins, NoFault
<1>2. /\ job'[j].place = "queued" /\ job'[j].id = 0 /\ job'[j].path = p
      /\ \A h \in Jobs \ {j} : job'[h] = job[h]
  BY <1>1, Ran, PlaceMembers
<1>3. file[m] \in Ids /\ at[file[m]] = m
      /\ (Live(file[m]) \/ Unaddressed(file[m]) \/ \E h \in Jobs : Covers(h, m))
  BY <1>1 DEF StoreInv, TypeOK, CleanInv
<1>4. CASE \E h \in Jobs : Covers(h, m)
  <2>1. PICK h \in Jobs : Covers(h, m)
    BY <1>4
  <2>2. h # j
    BY <1>1, <2>1 DEF Covers, At
  <2>3. QED
    BY <1>1, <1>2, <2>1, <2>2, CoversKept
<1>5. CASE file[m] \in RowsOfPath(p)
  <2>1. CASE m \in WithPrefix(p)
    BY <1>2, <2>1 DEF Covers, At, WithPrefix
  <2>2. CASE m \notin WithPrefix(p)
    BY <1>1, <1>3, <1>5, <2>2 DEF Unaddressed
  <2>3. QED
    BY <2>1, <2>2
<1>6. CASE file[m] \notin RowsOfPath(p) /\ (Live(file[m]) \/ Unaddressed(file[m]))
  BY <1>1, <1>3, <1>6 DEF Live, Unaddressed, Folder
<1>7. QED
  BY <1>3, <1>4, <1>5, <1>6

LEMMA ConsumerExplained ==
  ASSUME StoreInv, CleanInv, NEW j \in Jobs, "dropped" \notin faults',
         \/ RemoveObject(j) \/ ListObjects(j) \/ AckPath(j) \/ ConsumerCrash(j)
         \/ \E l \in Location : RemoveListed(j, l)
  PROVE  CleanInv'
<1>1. TypeOK /\ JobInv(j)
  BY DEF StoreInv
<1>2. UNCHANGED <<status, at>> /\ ~Fault("dropped") /\ "dropped" \notin faults
  <2>1. ~Fault("dropped")
    BY DEF Fault
  <2>2. faults' = faults \/ Fault("repeated")
    BY <2>1 DEF RemoveObject, ListObjects, AckPath, ConsumerCrash, RemoveListed, NoFault
  <2>3. QED
    BY <1>1, <2>1, <2>2, FaultsStay
    DEF RemoveObject, ListObjects, AckPath, ConsumerCrash, RemoveListed
<1>3. CASE RemoveObject(j)
  <2>1. /\ End(j) \/ Again(j)
        /\ Remove({KeyByUrl(job[j].id)}) \/ (file' = file /\ Again(j))
        /\ At(j, "queued") /\ job[j].id # 0
    BY <1>3 DEF RemoveObject
  <2>2. /\ \A h \in Jobs \ {j} : job'[h] = job[h]
        /\ \A l \in Location : file'[l] \in {0, file[l]}
        /\ \A l \in Location : (l = KeyByUrl(job[j].id) /\ file'[l] # 0) => Again(j)
    BY <1>1, <2>1, Ended, Repeated, Removed
  <2>3. \A l \in Location : Covers(j, l) => l = KeyByUrl(job[j].id)
    BY <2>1 DEF Covers, At
  <2>4. Again(j) => \A l \in Location : l = KeyByUrl(job[j].id) => Covers(j, l)'
    BY <1>1, <1>2, <2>1, Repeated DEF Covers, At, KeyByUrl
  <2>5. QED
    BY <1>2, <2>2, <2>3, <2>4, QuietExplained
<1>4. CASE ListObjects(j) \/ AckPath(j) \/ ConsumerCrash(j)
  <2>1. /\ file' = file
        /\ \/ Again(j) /\ At(j, "removing")
           \/ /\ At(j, "queued") /\ job[j].id = 0
              /\ Run(j, "removing", 0, job[j].path, Files(WithPrefix(job[j].path)))
           \/ End(j) /\ At(j, "removing") /\ job[j].listed = {}
    BY <1>2, <1>4 DEF ListObjects, AckPath, ConsumerCrash
  <2>2. CASE Again(j) /\ At(j, "removing")
    <3>1. \A l \in Location : Covers(j, l) => l \in WithPrefix(job[j].path) /\ job[j].id = 0
      BY <1>1, <2>2, JobFields DEF Covers, At, JobInv
    <3>2. /\ \A h \in Jobs \ {j} : job'[h] = job[h]
          /\ job'[j].place = "queued" /\ job'[j].id = job[j].id /\ job'[j].path = job[j].path
      BY <1>1, <2>2, Repeated
    <3>3. \A l \in Location : Covers(j, l) => Covers(j, l)'
      BY <3>1, <3>2 DEF Covers, At, WithPrefix
    <3>4. QED
      BY <1>2, <2>1, <3>2, <3>3, QuietExplained
  <2>3. CASE /\ At(j, "queued") /\ job[j].id = 0
             /\ Run(j, "removing", 0, job[j].path, Files(WithPrefix(job[j].path)))
    <3> DEFINE places == Files(WithPrefix(job[j].path))
    <3>1. places \in SUBSET Location
      BY DEF Files, WithPrefix
    <3>2. "removing" \in Place /\ 0 \in Ids \cup {0} /\ job[j].path \in Folders
      BY <1>1, JobFields, PlaceMembers
    <3>3. Run(j, "removing", 0, job[j].path, places)
      BY <2>3
    <3> HIDE DEF places
    <3>4. /\ \A h \in Jobs \ {j} : job'[h] = job[h]
          /\ job'[j].place = "removing" /\ job'[j].listed = places
      BY <1>1, <3>1, <3>2, <3>3, Ran
    <3>5. \A l \in Location : (file'[l] # 0 /\ Covers(j, l)) => l \in places
      BY <2>1, <2>3 DEF Covers, At, places, Files
    <3>6. \A l \in Location : (file'[l] # 0 /\ Covers(j, l)) => Covers(j, l)'
      BY <3>4, <3>5 DEF Covers, At
    <3>7. QED
      BY <1>2, <2>1, <3>4, <3>6, QuietExplained
  <2>4. CASE End(j) /\ At(j, "removing") /\ job[j].listed = {}
    <3>1. \A l \in Location : ~Covers(j, l)
      BY <2>4 DEF Covers, At
    <3>2. \A h \in Jobs \ {j} : job'[h] = job[h]
      BY <1>1, <2>4, Ended
    <3>3. QED
      BY <1>2, <2>1, <3>1, <3>2, QuietExplained
  <2>5. QED
    BY <2>1, <2>2, <2>3, <2>4
<1>5. ASSUME NEW l \in Location, RemoveListed(j, l)
      PROVE  CleanInv'
  <2>1. /\ At(j, "removing") /\ l \in job[j].listed
        /\ Remove({l}) \/ file' = file
        /\ \/ Remove({l}) /\ Run(j, "removing", 0, job[j].path, job[j].listed \ {l})
           \/ Again(j)
    BY <1>5 DEF RemoveListed
  <2>2. \A m \in Location : file'[m] \in {0, file[m]}
    BY <1>1, <2>1, Removed
  <2>3. \A m \in Location : Covers(j, m) =>
          m \in job[j].listed /\ m \in WithPrefix(job[j].path) /\ job[j].id = 0
    BY <1>1, <2>1, JobFields DEF Covers, At, JobInv
  <2>4. CASE Again(j)
    <3>1. /\ \A h \in Jobs \ {j} : job'[h] = job[h]
          /\ job'[j].place = "queued" /\ job'[j].id = job[j].id /\ job'[j].path = job[j].path
      BY <1>1, <2>4, Repeated
    <3>2. \A m \in Location : Covers(j, m) => Covers(j, m)'
      BY <2>3, <3>1 DEF Covers, At, WithPrefix
    <3>3. QED
      BY <1>2, <2>2, <3>1, <3>2, QuietExplained
  <2>5. CASE Remove({l}) /\ Run(j, "removing", 0, job[j].path, job[j].listed \ {l})
    <3>1. /\ "removing" \in Place /\ 0 \in Ids \cup {0} /\ job[j].path \in Folders
          /\ job[j].listed \ {l} \in SUBSET Location
      BY <1>1, JobFields, PlaceMembers
    <3>2. /\ \A h \in Jobs \ {j} : job'[h] = job[h]
          /\ job'[j].place = "removing" /\ job'[j].listed = job[j].listed \ {l}
      BY <1>1, <2>5, <3>1, Ran
    <3>3. file'[l] = 0
      BY <1>1, <2>5, Removed
    <3>4. \A m \in Location : (file'[m] # 0 /\ Covers(j, m)) => Covers(j, m)'
      BY <2>3, <3>2, <3>3 DEF Covers, At
    <3>5. QED
      BY <1>2, <2>2, <3>2, <3>4, QuietExplained
  <2>6. QED
    BY <2>1, <2>4, <2>5
<1>6. QED
  BY <1>3, <1>4, <1>5

LEMMA IndInvKept == IndInv /\ [Next]_vars => IndInv'
<1> SUFFICES ASSUME IndInv, [Next]_vars, "dropped" \notin faults' PROVE CleanInv'
  BY StoreInvKept DEF IndInv, CleanInv
<1>1. StoreInv /\ CleanInv
  BY DEF IndInv
<1>2. CASE Request
  BY <1>1, <1>2, UploadExplained, AskExplained, PathExplained DEF Request
<1>3. CASE \E i \in Ids : CreateObject(i)
  BY <1>1, <1>3, CreateExplained
<1>4. CASE \E j \in Jobs : DeletionStep(j) \/ ConsumerCrash(j)
  BY <1>1, <1>4, DeleteExplained, ConsumerExplained DEF DeletionStep
<1>5. CASE UNCHANGED vars
  BY <1>1, <1>5 DEF vars, CleanInv, Live, Unaddressed, Folder, Covers, At, KeyByUrl, WithPrefix
<1>6. QED
  BY <1>2, <1>3, <1>4, <1>5 DEF Next

(* Whatever is repeated, no file is forgotten but those that the code      *)
(* cannot address.                                                         *)
THEOREM NoFileIsForgotten == Spec => []FilesGoWithRows
<1>1. IndInv => FilesGoWithRows
  <2> SUFFICES ASSUME StoreInv, CleanInv, Settled, "dropped" \notin faults,
                      NEW l \in Location, file[l] # 0
               PROVE  /\ at[file[l]] = l
                      /\ status[file[l]] \in {"stored", "listed"} \/ Unaddressed(file[l])
    BY DEF IndInv, FilesGoWithRows
  <2>1. \A j \in Jobs : ~Covers(j, l)
    BY DEF Settled, Covers, At
  <2>2. QED
    BY <2>1 DEF StoreInv, CleanInv, Live
<1>2. QED
  BY <1>1, Initially, IndInvKept, PTL DEF Spec

(* Whatever rows there are, the two queries of a listing lead to each.     *)
THEOREM EveryRowIsReached == Spec => []RowsAreReachable
<1>1. IndInv => RowsAreReachable
  <2> SUFFICES ASSUME StoreInv, NEW i \in Rows, NEW k \in 0 .. Len(Folder(i)) - 1
               PROVE  Folder(i)[k + 1] \in FoldersAt(SubSeq(Folder(i), 1, k))
    BY DEF IndInv, RowsAreReachable, ObjectsAt
  <2> DEFINE f == Folder(i)
             p == SubSeq(f, 1, k)
  <2>1. f \in Folders /\ f \in Seq(FolderNames) /\ p \in Folders
    <3>1. at[i] \in Location
      BY DEF StoreInv, Rows, TypeOK
    <3>2. Folder(i) \in Folders
      BY <3>1 DEF Folder, Location
    <3>3. Len(Folder(i)) \in Nat
      BY <3>2, FoldersAssumption
    <3>4. QED
      BY <3>2, <3>3, FoldersAssumption
  <2>2. k \in Nat /\ k < Len(f) /\ Len(p) = k /\ Under(p, f) /\ p # f /\ f # <<>>
    BY <2>1 DEF Under
  <2>3. f \in Deeper(p)
    BY <2>1, <2>2, LikeAssumption DEF Deeper
  <2>4. Remaining(p, f)[1] = f[k + 1]
    BY <2>1, <2>2 DEF Remaining
  <2> HIDE DEF p, f
  <2>5. QED
    BY <2>3, <2>4 DEF FoldersAt, f, p
<1>2. QED
  BY <1>1, Initially, IndInvKept, PTL DEF Spec

=============================================================================
