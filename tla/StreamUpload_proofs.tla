------------------------ MODULE StreamUpload_proofs ------------------------
(***************************************************************************)
(* Theorems about StreamUpload, for forms of any number of pieces.         *)
(***************************************************************************)
EXTENDS StreamUpload, TLAPS

LEMMA InitInd == Init => IndInv
<1> SUFFICES ASSUME Init
             PROVE  IndInv
  OBVIOUS
<1>1. 0 \in 0 .. Pieces
  BY PiecesAssumption
<1>2. TypeOK
  BY <1>1 DEF Init, TypeOK
<1>3. ReportInv /\ StoreInv /\ SuccessMeansWhole
  BY DEF Init, ReportInv, StoreInv, SuccessMeansWhole
<1>4. QED
  BY <1>2, <1>3 DEF IndInv

(* The goroutine's steps.  It reports once, and closes the pipe last. *)
LEMMA WriterInd ==
  ASSUME IndInv, Writer
  PROVE  IndInv'
<1> USE DEF IndInv, TypeOK, ReportInv, StoreInv, SuccessMeansWhole
<1>1. CASE WritePiece
  <2>1. written + 1 \in 0 .. Pieces
    BY <1>1, PiecesAssumption DEF WritePiece
  <2>2. file = "none"
    BY <1>1 DEF WritePiece, TransportReads
  <2>3. QED
    BY <1>1, <2>1, <2>2 DEF WritePiece, TransportReads
<1>2. CASE ReportDone
  BY <1>2 DEF ReportDone, Report
<1>3. CASE ReadFails
  BY <1>3 DEF ReadFails, Report
<1>4. CASE WriteFails
  BY <1>4 DEF WriteFails, Report
<1>5. CASE CloseForm
  BY <1>5 DEF CloseForm
<1>6. CASE ClosePipe
  BY <1>6 DEF ClosePipe
<1>7. QED
  BY <1>1, <1>2, <1>3, <1>4, <1>5, <1>6 DEF Writer

(* The service stores once the body has ended, and what it has then is     *)
(* what the goroutine wrote.                                               *)
LEMMA ServiceInd ==
  ASSUME IndInv, Service
  PROVE  IndInv'
<1> USE DEF IndInv, TypeOK, ReportInv, StoreInv, SuccessMeansWhole, goroutine
<1>1. CASE Receive
  <2>1. received + 1 \in 0 .. Pieces /\ received # written
    BY <1>1, PiecesAssumption DEF Receive
  <2>2. QED
    BY <1>1, <2>1 DEF Receive
<1>2. CASE StoreFile
  BY <1>2 DEF StoreFile
<1>3. CASE Refuse
  BY <1>3 DEF Refuse
<1>4. CASE ConnectionFails
  BY <1>4 DEF ConnectionFails
<1>5. CASE Hangup
  BY <1>5 DEF Hangup
<1>6. QED
  BY <1>1, <1>2, <1>3, <1>4, <1>5 DEF Service

(* The handler's steps.  Its success rests on the report: the form was     *)
(* written to its end, so what was stored is whole.                        *)
LEMMA HandlerInd ==
  ASSUME IndInv, Handler
  PROVE  IndInv'
<1> USE DEF IndInv, TypeOK, ReportInv, StoreInv, SuccessMeansWhole, goroutine
<1>1. CASE NewRequest
  BY <1>1 DEF NewRequest
<1>2. CASE NewRequestFails
  BY <1>2 DEF NewRequestFails
<1>3. CASE DoReturns
  BY <1>3 DEF DoReturns
<1>4. CASE Finish
  <2>1. errChan = "nil" /\ answer = "stored" => file = "whole"
    OBVIOUS
  <2>2. QED
    BY <1>4, <2>1 DEF Finish
<1>5. QED
  BY <1>1, <1>2, <1>3, <1>4 DEF Handler

LEMMA IndInvariant == Spec => []IndInv
<1>1. IndInv /\ [Next]_vars => IndInv'
  <2> SUFFICES ASSUME IndInv, [Next]_vars
               PROVE  IndInv'
    OBVIOUS
  <2>1. CASE UNCHANGED vars
    BY <2>1 DEF vars, IndInv, TypeOK, ReportInv, StoreInv, SuccessMeansWhole
  <2>2. CASE Ended
    BY <2>1, <2>2 DEF Ended
  <2>3. QED
    BY <2>1, <2>2, WriterInd, ServiceInd, HandlerInd DEF Next
<1>2. QED
  BY <1>1, InitInd, PTL DEF Spec

(* The state is of its type. *)
THEOREM TypeCorrect == Spec => []TypeOK
<1>1. IndInv => TypeOK
  BY DEF IndInv
<1>2. QED
  BY <1>1, IndInvariant, PTL

(* The call reports success only when the whole file is stored. *)
THEOREM SuccessIsWhole == Spec => []SuccessMeansWhole
<1>1. IndInv => SuccessMeansWhole
  BY DEF IndInv
<1>2. QED
  BY <1>1, IndInvariant, PTL

(* A part of a file is stored only when the source could not be read: the  *)
(* goroutine, which closed the pipe, had reported an error that is not the *)
(* pipe's.                                                                 *)
THEOREM PartOnlyFromReadError == Spec => []PartMeansReadError
<1>1. IndInv => PartMeansReadError
  <2> SUFFICES ASSUME IndInv, file = "part"
               PROVE  readError
    BY DEF PartMeansReadError
  <2>1. pipe = "closed_by_writer" /\ written # Pieces /\ errChan # "empty"
    BY DEF IndInv, StoreInv, ReportInv
  <2>2. errChan = "error"
    BY <2>1 DEF IndInv, TypeOK, ReportInv
  <2>3. QED
    BY <2>1, <2>2 DEF IndInv, ReportInv
<1>2. QED
  BY <1>1, IndInvariant, PTL

=============================================================================
