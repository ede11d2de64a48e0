---------------------------- MODULE StreamUpload ----------------------------
(***************************************************************************)
(* uploadFileInternalFromReader of infra/upload_service.go: one call that  *)
(* streams a file to the upload-service.  A goroutine writes the multipart *)
(* form into a pipe, the HTTP transport reads the pipe and sends the body, *)
(* and the handler waits for client.Do and then for the goroutine's word   *)
(* on errChan.                                                             *)
(*                                                                         *)
(* The form is a number of pieces: its fields, then the file as it is read *)
(* from the source.  The transport and the upload-service are external;    *)
(* what they do is what net/http promises of a request body: it is closed  *)
(* when the request is over, and a body that ends early with an error is   *)
(* not a whole request.                                                    *)
(***************************************************************************)
EXTENDS Integers

CONSTANT Pieces  \* how many pieces the form has

ASSUME PiecesAssumption == Pieces \in Nat

VARIABLES
  handler,   \* where the call is, or what it returned
  writer,    \* where the goroutine is
  pipe,      \* "open", or by which end it was closed
  written,   \* pieces that went through the pipe
  readError, \* history: the source could not be read to its end
  errChan,   \* what the goroutine reported: a channel with one place
  received,  \* pieces that have reached the upload-service
  answer,    \* what client.Do has to return
  file       \* what the upload-service stored

vars == <<handler, writer, pipe, written, readError, errChan, received, answer, file>>

goroutine == <<writer, written, readError, errChan>>

Init ==
  /\ handler = "request"
  /\ writer = "writing"
  /\ pipe = "open"
  /\ written = 0
  /\ readError = FALSE
  /\ errChan = "empty"
  /\ received = 0
  /\ answer = "none"
  /\ file = "none"

Returned == handler \in {"ok", "error"}

(* The transport reads the pipe once the request is made, and goes on when *)
(* the answer is there before the end of the body.                         *)
TransportReads == handler \in {"do", "wait"} /\ pipe = "open" /\ answer # "failed"

----------------------------------------------------------------------------
(* The goroutine. *)

(* A write returns when the transport has read what it wrote. *)
WritePiece ==
  /\ writer = "writing" /\ written < Pieces
  /\ TransportReads
  /\ written' = written + 1
  /\ UNCHANGED <<handler, writer, pipe, readError, errChan, received, answer, file>>

(* The channel has a place for the report: it does not wait. *)
Report(result) ==
  /\ writer = "writing"
  /\ errChan' = result
  /\ writer' = "close_form"
  /\ UNCHANGED <<handler, pipe, written, received, answer, file>>

(* Slip: the last piece is left out. *)
ReportEarly ==
  Report("nil") /\ written >= Pieces - 1 /\ UNCHANGED readError

ReportDone ==
  Report("nil") /\ written = Pieces /\ UNCHANGED readError

(* io.Copy fails: the source has no more, though the file has. *)
ReadFails ==
  Report("error") /\ written < Pieces /\ readError' = TRUE

WriteFails ==
  Report("error") /\ written < Pieces /\ pipe = "closed_by_reader" /\ UNCHANGED readError

(* The deferred w.Close writes the last boundary, also after an error. *)
CloseForm ==
  /\ writer = "close_form"
  /\ (TransportReads \/ pipe = "closed_by_reader")
  /\ writer' = "close_pipe"
  /\ UNCHANGED <<handler, pipe, written, readError, errChan, received, answer, file>>

(* Slip: the pipe stays open. *)
ForgetPipe ==
  /\ writer = "close_pipe"
  /\ writer' = "done"
  /\ UNCHANGED <<handler, pipe, written, readError, errChan, received, answer, file>>

(* The deferred pw.Close: for the transport the body has ended well. *)
ClosePipe ==
  /\ writer = "close_pipe"
  /\ writer' = "done"
  /\ pipe' = IF pipe = "open" THEN "closed_by_writer" ELSE pipe
  /\ UNCHANGED <<handler, written, readError, errChan, received, answer, file>>

----------------------------------------------------------------------------
(* The transport and the upload-service. *)

Receive ==
  /\ received < written
  /\ answer = "none"
  /\ received' = received + 1
  /\ UNCHANGED <<handler, pipe, goroutine, answer, file>>

(* The service stores what a form that ended well holds; its answer may be *)
(* lost.                                                                   *)
StoreFile ==
  /\ handler = "do" /\ answer = "none"
  /\ pipe = "closed_by_writer" /\ received = written
  /\ file' = IF received = Pieces THEN "whole" ELSE "part"
  /\ answer' \in {"stored", "garbled", "failed"}
  /\ UNCHANGED <<handler, pipe, goroutine, received>>

(* It may refuse before the body has ended; the transport goes on reading. *)
Refuse ==
  /\ handler = "do" /\ answer = "none"
  /\ answer' = "refused"
  /\ UNCHANGED <<handler, pipe, goroutine, received, file>>

(* The connection fails: the transport closes the body it was reading. *)
ConnectionFails ==
  /\ handler = "do" /\ answer = "none"
  /\ answer' = "failed"
  /\ pipe' = IF pipe = "open" THEN "closed_by_reader" ELSE pipe
  /\ UNCHANGED <<handler, goroutine, received, file>>

(* After a refusal the service closes the connection. *)
Hangup ==
  /\ answer = "refused" /\ pipe = "open"
  /\ pipe' = "closed_by_reader"
  /\ UNCHANGED <<handler, goroutine, received, answer, file>>

----------------------------------------------------------------------------
(* The call. *)

NewRequest ==
  /\ handler = "request"
  /\ handler' = "do"
  /\ UNCHANGED <<pipe, goroutine, received, answer, file>>

(* Slip: the pipe is left open. *)
LeavePipe ==
  /\ handler = "request"
  /\ handler' = "error"
  /\ UNCHANGED <<pipe, goroutine, received, answer, file>>

(* There is no request: nobody will read the pipe, and it is closed. *)
NewRequestFails ==
  /\ handler = "request"
  /\ handler' = "error"
  /\ pipe' = IF pipe = "open" THEN "closed_by_reader" ELSE pipe
  /\ UNCHANGED <<goroutine, received, answer, file>>

DoReturns ==
  /\ handler = "do" /\ answer # "none"
  /\ handler' = "wait"
  /\ UNCHANGED <<pipe, goroutine, received, answer, file>>

(* Slip: the status alone decides. *)
TrustStatus ==
  /\ handler = "wait" /\ errChan # "empty"
  /\ handler' = IF answer = "stored" THEN "ok" ELSE "error"
  /\ UNCHANGED <<pipe, goroutine, received, answer, file>>

(* The goroutine's word comes first, then the transport's error, the       *)
(* status and the decoding of the answer.  Closing the answer's body ends  *)
(* the connection when the request's body was not sent to its end.         *)
Finish ==
  /\ handler = "wait" /\ errChan # "empty"
  /\ handler' = IF errChan = "nil" /\ answer = "stored" THEN "ok" ELSE "error"
  /\ pipe' = IF pipe = "open" THEN "closed_by_reader" ELSE pipe
  /\ UNCHANGED <<goroutine, received, answer, file>>

(* The call has returned and the goroutine is gone. *)
Ended ==
  /\ Returned /\ writer = "done"
  /\ UNCHANGED vars

Writer ==
  WritePiece \/ ReportDone \/ ReadFails \/ WriteFails \/ CloseForm \/ ClosePipe

Service == Receive \/ StoreFile \/ Refuse \/ ConnectionFails \/ Hangup

Handler == NewRequest \/ NewRequestFails \/ DoReturns \/ Finish

Next == Writer \/ Service \/ Handler \/ Ended

Spec == Init /\ [][Next]_vars

(* The goroutine and the handler are scheduled; the service reads what is  *)
(* sent, answers a request that has ended, and closes a connection on      *)
(* which it refused one.  There is no timeout: without these the call does *)
(* not return.                                                             *)
Fairness ==
  /\ WF_vars(Writer) /\ WF_vars(Handler)
  /\ WF_vars(Receive) /\ WF_vars(StoreFile) /\ WF_vars(Hangup)

FairSpec == Spec /\ Fairness

----------------------------------------------------------------------------
(* Properties. *)

TypeOK ==
  /\ handler \in {"request", "do", "wait", "ok", "error"}
  /\ writer \in {"writing", "close_form", "close_pipe", "done"}
  /\ pipe \in {"open", "closed_by_writer", "closed_by_reader"}
  /\ written \in 0 .. Pieces
  /\ readError \in BOOLEAN
  /\ errChan \in {"empty", "nil", "error"}
  /\ received \in 0 .. Pieces
  /\ answer \in {"none", "stored", "garbled", "refused", "failed"}
  /\ file \in {"none", "whole", "part"}

(* The call reports success only when the whole file is stored: a source   *)
(* that cannot be read ends the body as a whole file would, and the        *)
(* service stores the part, answers 200, and only errChan tells.           *)
SuccessMeansWhole == handler = "ok" => file = "whole"

(* A part of a file is stored for no reason but a source that failed:      *)
(* after a broken connection the last boundary cannot be written.          *)
PartMeansReadError == file = "part" => readError

(* The call returns, whoever fails first: nobody waits on the pipe or on   *)
(* the channel for ever.                                                   *)
CallReturns == <>Returned

(* The goroutine ends, also when nobody reads the pipe or the channel any  *)
(* more.                                                                   *)
WriterEnds == <>(writer = "done")

----------------------------------------------------------------------------
(* The inductive invariant behind the theorems. *)

ReportInv ==
  /\ writer = "writing" <=> errChan = "empty"
  /\ errChan = "nil" => written = Pieces
  /\ errChan = "error" => readError \/ pipe = "closed_by_reader"

StoreInv ==
  /\ received <= written
  /\ pipe = "closed_by_writer" => writer = "done"
  /\ file # "none" =>
       /\ pipe = "closed_by_writer" /\ received = written
       /\ file = "whole" <=> received = Pieces
  /\ answer = "stored" => file # "none"

IndInv == TypeOK /\ ReportInv /\ StoreInv /\ SuccessMeansWhole

=============================================================================
