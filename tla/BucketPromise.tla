--------------------------- MODULE BucketPromise ---------------------------
(***************************************************************************)
(* What the owner of a bucket is promised: a name belongs to one owner at  *)
(* a time, and while it does nobody removes what is stored under it.  A    *)
(* name that nobody owns may be reserved or emptied; it is free when the   *)
(* storage is gone.  Storage is private until somebody opens it, and that  *)
(* it was open does not outlive it.  BucketLifecycle implements this.      *)
(***************************************************************************)
EXTENDS Integers

CONSTANTS
  Names,   \* bucket names
  Rows     \* rows that a name may get, one after the other; not 0

VARIABLES
  storage,  \* the names under which there is storage
  owner,    \* the row a name belongs to, or 0
  content,  \* the rows under which content was stored that is still there
  access    \* the row under which the storage was opened, or 0: private

vars == <<storage, owner, content, access>>

Init ==
  /\ storage = {}
  /\ owner = [n \in Names |-> 0]
  /\ content = [n \in Names |-> {}]
  /\ access = [n \in Names |-> 0]

(* Storage is made before anybody owns it. *)
Reserve(n) ==
  /\ n \notin storage /\ access[n] = 0
  /\ storage' = storage \cup {n}
  /\ UNCHANGED <<owner, content, access>>

(* An owner takes a name that has storage and no owner. *)
Take(n, r) ==
  /\ n \in storage /\ owner[n] = 0
  /\ owner' = [owner EXCEPT ![n] = r]
  /\ UNCHANGED <<storage, content, access>>

Store(n, r) ==
  /\ n \in storage
  /\ content' = [content EXCEPT ![n] = @ \cup {r}]
  /\ UNCHANGED <<storage, owner, access>>

Release(n) ==
  /\ owner[n] # 0
  /\ owner' = [owner EXCEPT ![n] = 0]
  /\ UNCHANGED <<storage, content, access>>

(* Only a name without an owner is emptied, in part or in whole. *)
Sweep(n) ==
  /\ owner[n] = 0
  /\ \E kept \in SUBSET content[n] : content' = [content EXCEPT ![n] = kept]
  /\ UNCHANGED <<storage, owner, access>>

Drop(n) ==
  /\ n \in storage /\ owner[n] = 0 /\ content[n] = {}
  /\ storage' = storage \ {n}
  /\ access' = [access EXCEPT ![n] = 0]
  /\ UNCHANGED <<owner, content>>

(* Only storage that is there is opened or closed. *)
Open(n, r) ==
  /\ n \in storage
  /\ access' = [access EXCEPT ![n] = r]
  /\ UNCHANGED <<storage, owner, content>>

Next ==
  \E n \in Names :
    \/ Reserve(n) \/ Release(n) \/ Sweep(n) \/ Drop(n)
    \/ \E r \in Rows : Take(n, r) \/ Store(n, r)
    \/ \E r \in Rows \cup {0} : Open(n, r)

Spec == Init /\ [][Next]_vars

=============================================================================
