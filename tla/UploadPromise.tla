--------------------------- MODULE UploadPromise ---------------------------
(***************************************************************************)
(* What the client of one chunked upload is promised, and sees when it     *)
(* polls: it fills the upload while the session is open, hands it over     *)
(* once, and what was handed over is not written to any more.  One object  *)
(* is made of all the chunks, or none; COMPLETED comes after it and FAILED *)
(* without it, and either is the end.  An upload may be handed back, or    *)
(* removed with or without its object.  Some uploads are exempt from the   *)
(* promise from some moment on.  ChunkedUpload implements this.            *)
(***************************************************************************)
CONSTANTS
  Uploads,
  Chunks     \* the chunks that make a whole file

VARIABLES
  seen,      \* what the session's row says of the upload
  chunks,    \* the chunks that are stored
  objects    \* the number of objects made of the upload

vars == <<seen, chunks, objects>>

(* "none": not begun; "gone": removed; "exempt": nothing is promised. *)
Session == {"open", "PROCESSING", "COMPLETED", "FAILED"}

Init ==
  /\ seen = [u \in Uploads |-> "none"]
  /\ chunks = [u \in Uploads |-> {}]
  /\ objects = [u \in Uploads |-> 0]

Turn(u, from, to) ==
  /\ seen[u] = from
  /\ seen' = [seen EXCEPT ![u] = to]
  /\ UNCHANGED <<chunks, objects>>

Begin(u) == Turn(u, "none", "open")

(* A removed upload may still be filled, an upload handed over may not. *)
Fill(u, c) ==
  /\ seen[u] \in {"open", "gone"}
  /\ chunks' = [chunks EXCEPT ![u] = @ \cup {c}]
  /\ UNCHANGED <<seen, objects>>

HandOver(u) == chunks[u] = Chunks /\ objects[u] = 0 /\ Turn(u, "open", "PROCESSING")

HandBack(u) == objects[u] = 0 /\ Turn(u, "PROCESSING", "open")

(* Of an upload that was removed while it was processed, too. *)
Deliver(u) ==
  /\ seen[u] \in {"PROCESSING", "gone"}
  /\ chunks[u] = Chunks /\ objects[u] = 0
  /\ objects' = [objects EXCEPT ![u] = 1]
  /\ UNCHANGED <<seen, chunks>>

Complete(u) == objects[u] = 1 /\ Turn(u, "PROCESSING", "COMPLETED")

Fail(u) == objects[u] = 0 /\ Turn(u, "PROCESSING", "FAILED")

(* One upload, or all that there are. *)
Remove(removed) ==
  /\ \A u \in removed : seen[u] \in Session
  /\ seen' = [u \in Uploads |-> IF u \in removed THEN "gone" ELSE seen[u]]
  /\ UNCHANGED <<chunks, objects>>

(* The promise ends for good, and with it what is known of the upload. *)
Exempt(ended) ==
  /\ seen' = [u \in Uploads |-> IF u \in ended THEN "exempt" ELSE seen[u]]
  /\ chunks' = [u \in Uploads |-> IF u \in ended THEN {} ELSE chunks[u]]
  /\ objects' = [u \in Uploads |-> IF u \in ended THEN 0 ELSE objects[u]]

Next ==
  \/ \E u \in Uploads :
       \/ Begin(u) \/ HandOver(u) \/ HandBack(u) \/ Deliver(u)
       \/ Complete(u) \/ Fail(u)
       \/ \E c \in Chunks : Fill(u, c)
  \/ \E some \in SUBSET Uploads : Remove(some) \/ Exempt(some)

Spec == Init /\ [][Next]_vars

=============================================================================
