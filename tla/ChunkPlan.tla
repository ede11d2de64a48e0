----------------------------- MODULE ChunkPlan -----------------------------
(***************************************************************************)
(* The contract of a chunked upload: the chunk size and the number of      *)
(* chunks that InitChunkedUpload decides on and stores in the session, the *)
(* cut that a client makes of the file when it keeps to them (the loop of  *)
(* scripts/chunked_upload.sh), the checks that UploadChunk makes of what   *)
(* arrives, and the names under which the chunks are stored.               *)
(*                                                                         *)
(* Sizes are in an arbitrary unit: the constants fix the code's values.    *)
(* Arithmetic is the code's, on signed integers that wrap around, and the  *)
(* number of chunks goes through an INT column.                            *)
(***************************************************************************)
EXTENDS Integers, Sequences

CONSTANTS
  DefaultChunkSize,  \* the least chunk size the server decides on
  MaxChunkSize,      \* and the largest
  Threshold,         \* Config.LargeFile.Threshold: smaller files are refused
  IntMax,            \* largest int64
  ColumnMax,         \* largest value of the column total_chunks (INT)
  PadWidth,          \* digits a chunk index is padded to in the chunk's name
  FileSizes,         \* the file sizes that clients declare
  Preferences        \* the preferred_chunk_size values (0: none)

(* A file of more chunks than the column counts may wrap, but not so far   *)
(* that the quotient fits the column again: 2^63 bytes in chunks of 15 MiB *)
(* are far more than 2^31.                                                 *)
ASSUME SizesAssumption ==
  /\ DefaultChunkSize \in Nat \ {0}
  /\ MaxChunkSize \in Nat /\ DefaultChunkSize <= MaxChunkSize
  /\ Threshold \in Nat
  /\ IntMax \in Nat /\ ColumnMax \in Nat /\ PadWidth \in Nat \ {0}
  /\ (ColumnMax + 3) * MaxChunkSize <= IntMax
ASSUME InputsAssumption ==
  /\ FileSizes \subseteq 1 .. IntMax
  /\ Preferences \subseteq 0 .. IntMax

VARIABLES
  session,  \* the row InitChunkedUpload stored: size, chunk and total
  sent,     \* chunks of the file that the client has sent, in order
  bytes,    \* bytes they had together
  refused   \* a chunk was answered 400

vars == <<session, sent, bytes, refused>>

NoSession == [size |-> 0, chunk |-> 0, total |-> 0]

Init == session = NoSession /\ sent = 0 /\ bytes = 0 /\ refused = FALSE

----------------------------------------------------------------------------
(* int64 arithmetic: addition wraps around, division rounds towards zero.  *)
Wrap(x) == IF x > IntMax THEN x - 2 * (IntMax + 1) ELSE x
Quotient(x, y) == IF x >= 0 THEN x \div y ELSE -((-x) \div y)

Smaller(a, b) == IF a <= b THEN a ELSE b

(* Slips: the preference is not capped; the last, short chunk is not       *)
(* counted.                                                                *)
UncappedChunkSize(preferred) ==
  IF preferred < DefaultChunkSize THEN DefaultChunkSize ELSE preferred
RoundedDownTotal(size, chunk) == Quotient(size, chunk)

ChunkSize(preferred) ==
  IF preferred < DefaultChunkSize THEN DefaultChunkSize
  ELSE Smaller(preferred, MaxChunkSize)

TotalChunks(size, chunk) == Quotient(Wrap(size + chunk - 1), chunk)

(* Postgres refuses an INT that is out of range: the session is not        *)
(* created and the client gets a 500.                                      *)
FitsColumn(total) == -ColumnMax - 1 <= total /\ total <= ColumnMax

InitChunkedUpload(size, preferred) ==
  LET chunk == ChunkSize(preferred)
      total == TotalChunks(size, chunk)
  IN  /\ session = NoSession
      /\ size > Threshold
      /\ FitsColumn(total)
      /\ session' = [size |-> size, chunk |-> chunk, total |-> total]
      /\ UNCHANGED <<sent, bytes, refused>>

(* dd bs=chunk skip=i count=1: what the client cuts out for chunk i. *)
Cut(i) ==
  IF session.size <= i * session.chunk THEN 0
  ELSE Smaller(session.chunk, session.size - i * session.chunk)

(* The checks of UploadChunk on the index and the size; only a chunk that  *)
(* comes as the raw body, not in a form, is refused when it is empty.      *)
Acceptable(i, size, raw) ==
  /\ 0 <= i /\ i < session.total
  /\ raw => 0 < size
  /\ size <= MaxChunkSize

(* The client sends the next chunk of its loop.  The script sends several  *)
(* at a time: the checks do not depend on the order.                       *)
UploadChunk ==
  /\ session # NoSession
  /\ sent < session.total /\ ~refused
  /\ \E raw \in BOOLEAN :
       IF Acceptable(sent, Cut(sent), raw)
       THEN sent' = sent + 1 /\ bytes' = bytes + Cut(sent) /\ UNCHANGED refused
       ELSE refused' = TRUE /\ UNCHANGED <<sent, bytes>>
  /\ UNCHANGED session

Next ==
  \/ \E size \in FileSizes, preferred \in Preferences :
       InitChunkedUpload(size, preferred)
  \/ UploadChunk

Spec == Init /\ [][Next]_vars

----------------------------------------------------------------------------
(* Chunk names: chunk_%05d.part.  Only the digits tell names apart.        *)

Power10[n \in Nat] == IF n = 0 THEN 1 ELSE 10 * Power10[n - 1]

(* Number of digits of i. *)
Length10(i) == CHOOSE n \in 1 .. i + 1 :
                 /\ i < Power10[n]
                 /\ n = 1 \/ i >= Power10[n - 1]

(* Digit k of the name, from the left, of a name of len digits. *)
Digit(i, len, k) == (i \div Power10[len - k]) % 10

UnpaddedName(i) == [k \in 1 .. Length10(i) |-> Digit(i, Length10(i), k)]

ChunkName(i) ==
  LET len == IF Length10(i) > PadWidth THEN Length10(i) ELSE PadWidth
  IN  [k \in 1 .. len |-> Digit(i, len, k)]

(* The order in which a listing sorts names: at the first digit that       *)
(* differs.  After the digits comes '.', which is below every digit.       *)
Before(a, b) ==
  \/ \E k \in 1 .. Smaller(Len(a), Len(b)) :
       a[k] < b[k] /\ \A j \in 1 .. k - 1 : a[j] = b[j]
  \/ Len(a) < Len(b) /\ \A k \in 1 .. Len(a) : a[k] = b[k]

----------------------------------------------------------------------------
(* The type invariant. *)
TypeOK ==
  /\ session \in [size : Nat, chunk : Nat, total : Nat]
  /\ sent \in Nat /\ bytes \in Nat /\ refused \in BOOLEAN

(* Whatever the client declares and prefers, the stored session has at     *)
(* least one chunk, its chunks cover the file, and the last is not empty:  *)
(* where the sum wraps around, the column has refused the total.           *)
PlanCoversFile ==
  session # NoSession =>
    /\ session.total >= 1
    /\ (session.total - 1) * session.chunk < session.size
    /\ session.size <= session.total * session.chunk

(* A client that keeps to the contract is never refused a chunk ("should   *)
(* not happen with server-decided size", scripts/README.md).               *)
ContractIsAccepted == ~refused

(* When the last chunk has been sent, all bytes of the file have been. *)
BytesAddUp ==
  (session # NoSession /\ sent = session.total) => bytes = session.size

(* "Use zero-padded chunk index to ensure correct sorting": each chunk's   *)
(* name sorts after the one before it, as long as the padding has names    *)
(* enough.  Beyond that (100000 chunks) it does not, and no check is there *)
(* to keep an upload below it.                                             *)
NamesSortInOrder ==
  (sent >= 2 /\ session.total <= Power10[PadWidth]) =>
    Before(ChunkName(sent - 2), ChunkName(sent - 1))

(* The inductive invariant: the plan, and how far the client's cut got.    *)
CutInv ==
  /\ session # NoSession =>
       /\ session.chunk >= DefaultChunkSize /\ session.chunk <= MaxChunkSize
       /\ sent <= session.total
       /\ bytes = Smaller(sent * session.chunk, session.size)
  /\ session = NoSession => sent = 0 /\ bytes = 0

=============================================================================
