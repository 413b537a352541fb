--------------------------- MODULE DesktopProofs ---------------------------
(***************************************************************************)
(* The local program, for any events, workbooks, documents and threads:    *)
(*   - the write pipeline implements SubmissionContract and posts only     *)
(*     bytes that were signed (PipelineInv);                               *)
(*   - a final document status stays, whatever the trackers still hold     *)
(*     (TrackerInv);                                                       *)
(*   - the dry run leaves no event of a code with an unordered history     *)
(*     ready to act on (LiveInv).                                          *)
(***************************************************************************)
EXTENDS Desktop, TLAPS

Early == {"NONE", "AWAITING_SIGNATURE", "SIGNED"}

\* Process p has reserved the submission of o and not stored its outcome.
Submitting(p, o) == pipe[p].op = o /\ pipe[p].at \in {"reserved", "sent", "created"}

ShapeInv ==
  /\ row \in [Fingerprints -> OperationRecord]
  /\ asked \in SUBSET [op : Fingerprints, doc : Docs]
  /\ pipe \in [Procs -> Calls]
  /\ posts \in [Fingerprints -> {0, 1}]
  /\ truth \in [Fingerprints -> {"UNKNOWN", "REJECTED", "PROCESSING", "OK", "NOT_OK"}]
  /\ paid \in Paid

\* Nothing is posted before the reservation, one process at most holds it, and
\* it holds it once: the row never returns to SIGNED.
ReserveInv ==
  /\ \A o \in Fingerprints : row[o].state \in Early =>
       posts[o] = 0 /\ \A p \in Procs : ~Submitting(p, o)
  /\ \A o \in Fingerprints, p, q \in Procs : Submitting(p, o) /\ Submitting(q, o) => p = q
  /\ \A p \in Procs : pipe[p].at = "reserved" => posts[pipe[p].op] = 0
  /\ \A o \in Fingerprints : truth[o] # "UNKNOWN" => posts[o] = 1

\* An answer in a process's hand is still true of the document when it is
\* stored, however late: what True API decided stays decided.
AnswerInv ==
  /\ \A p \in Procs : pipe[p].at = "created" /\ pipe[p].got = "CLIENT_ERROR"
       => truth[pipe[p].op] = "REJECTED"
  /\ \A p \in Procs : pipe[p].at = "polled" =>
       /\ pipe[p].got = "TERMINAL_SUCCESS" => truth[pipe[p].op] = "OK"
       /\ pipe[p].got = "TERMINAL_FAILURE" => truth[pipe[p].op] = "NOT_OK"
  /\ \A o \in Fingerprints : row[o].state = "RECONCILIATION_REQUIRED" => truth[o] = "OK"

\* The signature of a signed row is one of its bytes, and neither changes
\* once the row is reserved.
BytesInv ==
  /\ \A o \in Fingerprints : row[o].state # "NONE" => row[o].doc # NoDoc
  /\ \A o \in Fingerprints : row[o].state = "SIGNED" => row[o].sig.doc = row[o].doc
  /\ \A p \in Procs : pipe[p].at = "reserved" =>
       row[pipe[p].op].sig.doc = row[pipe[p].op].doc
  /\ ExactBytesSigned

PipelineInv == ShapeInv /\ ReserveInv /\ AnswerInv /\ BytesInv

\* A process that is not idle works on an operation.
LEMMA CallShape ==
  ASSUME NEW c \in Calls
  PROVE  /\ c.at # "idle" => c # Idle /\ c.op \in Fingerprints
         /\ c.at \in {"reserved", "sent", "asking"} => c.got = "nothing"
         /\ c = Idle => c.at = "idle"
  BY DEF Calls, Idle

LEMMA PipelineInitInv == PipelineInit => PipelineInv
<1> SUFFICES ASSUME PipelineInit PROVE PipelineInv
  OBVIOUS
<1>1. ShapeInv
  BY DEF PipelineInit, ShapeInv, OperationRecord, NoRow, WriteState, Docs, Sigs, NoSig, Calls, Paid
<1>2. ReserveInv /\ AnswerInv
  BY DEF PipelineInit, ReserveInv, AnswerInv, Submitting, Idle, NoRow, Early
<1>3. BytesInv
  BY DEF PipelineInit, BytesInv, ExactBytesSigned, Idle, NoRow
<1> QED
  BY <1>1, <1>2, <1>3 DEF PipelineInv

----------------------------------------------------------------------------
(* Steps on a row                                                          *)

\* A row that is not reserved yet takes a step: nobody submits it.
LEMMA EarlyKeeps ==
  ASSUME ReserveInv, AnswerInv, NEW o \in Fingerprints,
         row[o].state \in Early, row'[o].state \in Early,
         \A u \in Fingerprints : u # o => row'[u] = row[u],
         UNCHANGED <<pipe, posts, truth>>
  PROVE  ReserveInv' /\ AnswerInv'
<1>1. \A u \in Fingerprints : row'[u].state \in Early <=> row[u].state \in Early
  OBVIOUS
<1>2. \A p \in Procs, u \in Fingerprints : Submitting(p, u)' <=> Submitting(p, u)
  BY DEF Submitting
<1>3. ReserveInv'
  <2>1. \A u \in Fingerprints : row'[u].state \in Early =>
          posts'[u] = 0 /\ \A p \in Procs : ~Submitting(p, u)'
    BY <1>1, <1>2 DEF ReserveInv
  <2>2. \A u \in Fingerprints, p, q \in Procs : Submitting(p, u)' /\ Submitting(q, u)' => p = q
    BY <1>2 DEF ReserveInv
  <2> QED
    BY <2>1, <2>2 DEF ReserveInv
<1>4. \A u \in Fingerprints : row'[u].state = "RECONCILIATION_REQUIRED" => truth'[u] = "OK"
  BY DEF AnswerInv, Early
<1> QED
  BY <1>3, <1>4 DEF AnswerInv

LEMMA PrepareKeeps ==
  ASSUME PipelineInv, NEW o \in Fingerprints, Prepare(o)
  PROVE  PipelineInv'
<1> DEFINE d == BuildExact(o)
<1>1. d \in Docs /\ d # NoDoc
  BY PipelineAssumption DEF BuildExact, Docs, NoDoc, PipelineInv, ShapeInv, Paid, Fingerprints
<1> HIDE DEF d
<1>2. /\ row[o].state = "NONE" /\ row' = [row EXCEPT ![o].state = "AWAITING_SIGNATURE", ![o].doc = d]
      /\ UNCHANGED <<asked, pipe, posts, received, truth, paid>>
  BY DEF Prepare, d
<1>3. row'[o].state = "AWAITING_SIGNATURE" /\ row'[o].doc = d
      /\ \A u \in Fingerprints : u # o => row'[u] = row[u]
  BY <1>2 DEF PipelineInv, ShapeInv, OperationRecord
<1>4. ShapeInv'
  <2>1. row' \in [Fingerprints -> OperationRecord]
    <3>1. row[o] \in OperationRecord /\ row \in [Fingerprints -> OperationRecord]
      BY DEF PipelineInv, ShapeInv
    <3>2. [row[o] EXCEPT !.state = "AWAITING_SIGNATURE", !.doc = d] \in OperationRecord
      BY <1>1, <3>1 DEF OperationRecord, WriteState
    <3>3. row' = [row EXCEPT ![o] = [row[o] EXCEPT !.state = "AWAITING_SIGNATURE", !.doc = d]]
      BY <1>2
    <3> QED
      BY <3>1, <3>2, <3>3
  <2> QED
    BY <1>2, <2>1 DEF PipelineInv, ShapeInv
<1>5. ReserveInv' /\ AnswerInv'
  <2>1. row[o].state \in Early /\ row'[o].state \in Early
    BY <1>2, <1>3 DEF Early
  <2> QED
    BY <1>2, <1>3, <2>1, EarlyKeeps DEF PipelineInv
<1>7. BytesInv'
  <2>1. \A p \in Procs : pipe[p].at = "reserved" => pipe[p].op # o
    BY <1>2 DEF PipelineInv, ReserveInv, Submitting, Early
  <2>2. \A p \in Procs : pipe[p].at = "reserved" => pipe[p].op \in Fingerprints
    BY CallShape DEF PipelineInv, ShapeInv
  <2>3. BytesInv
    BY DEF PipelineInv
  <2>4. ASSUME NEW u \in Fingerprints
        PROVE  /\ row'[u].state # "NONE" => row'[u].doc # NoDoc
               /\ row'[u].state = "SIGNED" => row'[u].sig.doc = row'[u].doc
    <3>1. CASE u = o
      BY <1>1, <1>3, <3>1
    <3>2. CASE u # o
      BY <1>3, <2>3, <3>2 DEF BytesInv
    <3> QED
      BY <3>1, <3>2
  <2>5. ASSUME NEW p \in Procs, pipe'[p].at = "reserved"
        PROVE  row'[pipe'[p].op].sig.doc = row'[pipe'[p].op].doc
    <3>1. pipe' = pipe /\ pipe[p].op # o /\ pipe[p].op \in Fingerprints
      BY <1>2, <2>1, <2>2, <2>5
    <3> QED
      BY <1>3, <2>3, <2>5, <3>1 DEF BytesInv
  <2>6. ExactBytesSigned'
    BY <1>2, <2>3 DEF BytesInv, ExactBytesSigned
  <2> QED
    BY <2>4, <2>5, <2>6 DEF BytesInv
<1> QED
  BY <1>4, <1>5, <1>7 DEF PipelineInv

LEMMA SignatureKeeps ==
  ASSUME PipelineInv, NEW q \in asked, NEW s \in Signers, AcceptSignature(q, s)
  PROVE  PipelineInv'
<1> DEFINE o == q.op
<1>1. o \in Fingerprints /\ q.doc \in Docs
  BY DEF PipelineInv, ShapeInv
<1>2. /\ row[o].doc = q.doc /\ row[o].state = "AWAITING_SIGNATURE"
      /\ row' = [row EXCEPT ![o].state = "SIGNED", ![o].sig = [doc |-> q.doc, by |-> s]]
      /\ UNCHANGED <<asked, pipe, posts, received, truth, paid>>
  BY DEF AcceptSignature
<1> HIDE DEF o
<1>3. /\ row'[o].state = "SIGNED" /\ row'[o].doc = row[o].doc
      /\ row'[o].sig = [doc |-> q.doc, by |-> s]
      /\ \A u \in Fingerprints : u # o => row'[u] = row[u]
  BY <1>1, <1>2 DEF PipelineInv, ShapeInv, OperationRecord
<1>4. ShapeInv'
  <2>1. [doc |-> q.doc, by |-> s] \in Sigs
    BY <1>1 DEF Sigs
  <2>2. row' \in [Fingerprints -> OperationRecord]
    <3>1. row[o] \in OperationRecord /\ row \in [Fingerprints -> OperationRecord]
      BY <1>1 DEF PipelineInv, ShapeInv
    <3>2. [row[o] EXCEPT !.state = "SIGNED", !.sig = [doc |-> q.doc, by |-> s]] \in OperationRecord
      BY <2>1, <3>1 DEF OperationRecord, WriteState
    <3>3. row' = [row EXCEPT ![o] = [row[o] EXCEPT !.state = "SIGNED",
                                                  !.sig = [doc |-> q.doc, by |-> s]]]
      BY <1>1, <1>2
    <3> QED
      BY <1>1, <3>1, <3>2, <3>3
  <2> QED
    BY <1>2, <2>2 DEF PipelineInv, ShapeInv
<1>5. ReserveInv' /\ AnswerInv'
  <2>1. row[o].state \in Early /\ row'[o].state \in Early
    BY <1>2, <1>3 DEF Early
  <2> QED
    BY <1>1, <1>2, <1>3, <2>1, EarlyKeeps DEF PipelineInv
<1>7. BytesInv'
  <2>3. [doc |-> q.doc, by |-> s].doc = q.doc
    OBVIOUS
  <2>4. row'[o].sig.doc = row'[o].doc /\ row'[o].doc # NoDoc
    BY <1>1, <1>2, <1>3, <2>3 DEF PipelineInv, BytesInv
  <2>5. ExactBytesSigned'
    BY <1>2 DEF PipelineInv, BytesInv, ExactBytesSigned
  <2>1. \A p \in Procs : pipe[p].at = "reserved" => pipe[p].op # o
    BY <1>1, <1>2 DEF PipelineInv, ReserveInv, Submitting, Early
  <2>2. \A p \in Procs : pipe[p].at = "reserved" => pipe[p].op \in Fingerprints
    BY CallShape DEF PipelineInv, ShapeInv
  <2>6. \A u \in Fingerprints : row'[u].state # "NONE" => row'[u].doc # NoDoc
    BY <1>3, <2>4 DEF PipelineInv, BytesInv
  <2>7. \A u \in Fingerprints : row'[u].state = "SIGNED" => row'[u].sig.doc = row'[u].doc
    BY <1>3, <2>4 DEF PipelineInv, BytesInv
  <2>8. \A p \in Procs : pipe'[p].at = "reserved" =>
          row'[pipe'[p].op].sig.doc = row'[pipe'[p].op].doc
    <3> SUFFICES ASSUME NEW p \in Procs, pipe[p].at = "reserved"
                 PROVE  row'[pipe[p].op].sig.doc = row'[pipe[p].op].doc
      BY <1>2
    <3>1. row'[pipe[p].op] = row[pipe[p].op]
      BY <1>3, <2>1, <2>2
    <3>2. BytesInv
      BY DEF PipelineInv
    <3> QED
      BY <3>1, <3>2 DEF BytesInv
  <2> QED
    BY <2>5, <2>6, <2>7, <2>8 DEF BytesInv
<1> QED
  BY <1>4, <1>5, <1>7 DEF PipelineInv

\* A step that only gives a row a state beyond the reservation, RECONCILIATION_
\* REQUIRED only to an accepted document, keeps what the rows say.
LEMMA StateKeeps ==
  ASSUME PipelineInv, ShapeInv', NEW o \in Fingerprints,
         row[o].state # "NONE", row'[o].state \notin Early,
         row'[o].state = "RECONCILIATION_REQUIRED" => truth[o] = "OK",
         row'[o].doc = row[o].doc, row'[o].sig = row[o].sig,
         \A u \in Fingerprints : u # o => row'[u] = row[u],
         \A u \in Procs : pipe'[u] = pipe[u] \/ pipe'[u].at = "idle",
         UNCHANGED <<posts, received, truth>>
  PROVE  PipelineInv'
<1>1. \A u \in Procs : pipe[u].at = "reserved" => pipe[u].op \in Fingerprints
  BY CallShape DEF PipelineInv, ShapeInv
<1>2. ReserveInv'
  <2>1. \A u \in Fingerprints : row'[u].state \in Early => row[u].state \in Early
    OBVIOUS
  <2>2. \A u \in Fingerprints, p \in Procs : Submitting(p, u)' => Submitting(p, u)
    BY DEF Submitting
  <2> QED
    BY <2>1, <2>2 DEF PipelineInv, ReserveInv
<1>3. AnswerInv'
  BY DEF PipelineInv, AnswerInv
<1>4. BytesInv'
  <2>1. \A u \in Fingerprints : row'[u].doc = row[u].doc /\ row'[u].sig = row[u].sig
    OBVIOUS
  <2>2. \A u \in Fingerprints : row'[u].state # "NONE" => row[u].state # "NONE"
    OBVIOUS
  <2>3. \A u \in Fingerprints : row'[u].state = "SIGNED" => row[u].state = "SIGNED"
    BY DEF Early
  <2>4. \A p \in Procs : pipe'[p].at = "reserved" => pipe'[p] = pipe[p]
    OBVIOUS
  <2>5. ExactBytesSigned'
    BY DEF PipelineInv, BytesInv, ExactBytesSigned
  <2> QED
    BY <1>1, <2>1, <2>2, <2>3, <2>4, <2>5 DEF PipelineInv, BytesInv
<1> QED
  BY <1>2, <1>3, <1>4 DEF PipelineInv

\* Neither does a process that stops.
LEMMA CallsKeep ==
  ASSUME PipelineInv, ShapeInv', row' = row,
         \A u \in Procs : pipe'[u] = pipe[u] \/ pipe'[u].at = "idle",
         UNCHANGED <<posts, received, truth>>
  PROVE  PipelineInv'
<1>1. ReserveInv'
  <2>1. \A u \in Fingerprints, p \in Procs : Submitting(p, u)' => Submitting(p, u)
    BY DEF Submitting
  <2> QED
    BY <2>1 DEF PipelineInv, ReserveInv
<1>2. AnswerInv'
  BY DEF PipelineInv, AnswerInv
<1>3. BytesInv'
  BY DEF PipelineInv, BytesInv, ExactBytesSigned
<1> QED
  BY <1>1, <1>2, <1>3 DEF PipelineInv

\* What a store operation that moves a row on leaves of it.
LEMMA RowMoves ==
  ASSUME row \in [Fingerprints -> OperationRecord], NEW o \in Fingerprints,
         NEW t \in WriteState,
         row' = [row EXCEPT ![o].state = t]
  PROVE  /\ row' \in [Fingerprints -> OperationRecord]
         /\ row'[o].state = t /\ row'[o].doc = row[o].doc /\ row'[o].sig = row[o].sig
         /\ \A u \in Fingerprints : u # o => row'[u] = row[u]
<1> DEFINE r == [row[o] EXCEPT !.state = t]
<1>1. row[o] \in OperationRecord
  OBVIOUS
<1>2. /\ r \in OperationRecord
      /\ r.state = t /\ r.doc = row[o].doc /\ r.sig = row[o].sig
  BY <1>1 DEF OperationRecord
<1>3. row' = [row EXCEPT ![o] = r]
  OBVIOUS
<1> HIDE DEF r
<1> QED
  BY <1>2, <1>3

LEMMA RowCompletes ==
  ASSUME row \in [Fingerprints -> OperationRecord], NEW o \in Fingerprints,
         NEW t \in WriteState, NEW b \in BOOLEAN,
         row' = [row EXCEPT ![o].state = t, ![o].document_id = b]
  PROVE  /\ row' \in [Fingerprints -> OperationRecord]
         /\ row'[o].state = t /\ row'[o].doc = row[o].doc /\ row'[o].sig = row[o].sig
         /\ \A u \in Fingerprints : u # o => row'[u] = row[u]
<1> DEFINE r == [row[o] EXCEPT !.state = t, !.document_id = b]
<1>1. row[o] \in OperationRecord
  OBVIOUS
<1>2. /\ r \in OperationRecord
      /\ r.state = t /\ r.doc = row[o].doc /\ r.sig = row[o].sig
  BY <1>1 DEF OperationRecord
<1>3. row' = [row EXCEPT ![o] = r]
  OBVIOUS
<1> HIDE DEF r
<1> QED
  BY <1>2, <1>3

LEMMA Stops ==
  ASSUME pipe \in [Procs -> Calls], NEW p \in Procs, pipe' = [pipe EXCEPT ![p] = Idle]
  PROVE  /\ pipe' \in [Procs -> Calls]
         /\ \A u \in Procs : pipe'[u] = pipe[u] \/ pipe'[u].at = "idle"
<1>1. Idle \in Calls /\ Idle.at = "idle"
  BY DEF Calls, Idle
<1> QED
  BY <1>1

LEMMA CompleteKeeps ==
  ASSUME PipelineInv, NEW p \in Procs, CompleteSubmit(p)
  PROVE  PipelineInv'
<1> DEFINE o == pipe[p].op
           t == SubmitTarget(pipe[p].got)
           b == (t = "SUBMITTED")
<1>1. o \in Fingerprints
  BY CallShape DEF PipelineInv, ShapeInv, CompleteSubmit
<1>2. t \in WriteState \ Early /\ t # "RECONCILIATION_REQUIRED" /\ b \in BOOLEAN
  BY DEF SubmitTarget, WriteState, Early
<1>3. /\ pipe' = [pipe EXCEPT ![p] = Idle]
      /\ UNCHANGED <<asked, posts, received, truth, paid>>
      /\ row[o].state # "SUBMITTING" => row' = row
      /\ row[o].state = "SUBMITTING" =>
           row' = [row EXCEPT ![o].state = t, ![o].document_id = b]
  BY DEF CompleteSubmit
<1> HIDE DEF o, t, b
<1>4. ShapeInv
  BY DEF PipelineInv
<1>5. /\ pipe' \in [Procs -> Calls]
      /\ \A u \in Procs : pipe'[u] = pipe[u] \/ pipe'[u].at = "idle"
  BY <1>3, <1>4, Stops DEF ShapeInv
<1>6. CASE row[o].state = "SUBMITTING"
  <2>1. /\ row' \in [Fingerprints -> OperationRecord]
        /\ row'[o].state = t /\ row'[o].doc = row[o].doc /\ row'[o].sig = row[o].sig
        /\ \A u \in Fingerprints : u # o => row'[u] = row[u]
    <3>1. row' = [row EXCEPT ![o].state = t, ![o].document_id = b]
      BY <1>3, <1>6
    <3>2. row \in [Fingerprints -> OperationRecord]
      BY <1>4 DEF ShapeInv
    <3> QED
      BY <1>1, <1>2, <3>1, <3>2, RowCompletes
  <2>2. ShapeInv'
    BY <1>3, <1>4, <1>5, <2>1 DEF ShapeInv
  <2>3. UNCHANGED <<posts, received, truth>>
    BY <1>3
  <2> QED
    BY <1>1, <1>2, <1>5, <1>6, <2>1, <2>2, <2>3, StateKeeps
<1>7. CASE row[o].state # "SUBMITTING"
  <2>1. ShapeInv' /\ row' = row
    BY <1>3, <1>4, <1>5, <1>7 DEF ShapeInv
  <2>2. UNCHANGED <<posts, received, truth>>
    BY <1>3
  <2> QED
    BY <1>5, <2>1, <2>2, CallsKeep
<1> QED
  BY <1>6, <1>7

\* A step of the operator or the reconciler that only moves one row on.
LEMMA MoveKeeps ==
  ASSUME PipelineInv, NEW o \in Fingerprints, NEW t \in WriteState \ Early,
         row[o].state # "NONE", t = "RECONCILIATION_REQUIRED" => truth[o] = "OK",
         row' = [row EXCEPT ![o].state = t],
         pipe' \in [Procs -> Calls],
         \A u \in Procs : pipe'[u] = pipe[u] \/ pipe'[u].at = "idle",
         UNCHANGED <<asked, posts, received, truth, paid>>
  PROVE  PipelineInv'
<1>1. ShapeInv
  BY DEF PipelineInv
<1>2. /\ row' \in [Fingerprints -> OperationRecord]
      /\ row'[o].state = t /\ row'[o].doc = row[o].doc /\ row'[o].sig = row[o].sig
      /\ \A u \in Fingerprints : u # o => row'[u] = row[u]
  BY <1>1, RowMoves DEF ShapeInv
<1>3. ShapeInv'
  BY <1>1, <1>2 DEF ShapeInv
<1> QED
  BY <1>2, <1>3, StateKeeps

LEMMA OperatorKeeps ==
  ASSUME PipelineInv, NEW o \in Fingerprints,
         \/ MarkManualReview(o) \/ MarkError(o)
         \/ \E confirmed \in BOOLEAN : ReconciliationResult(o, confirmed)
  PROVE  PipelineInv'
<1>1. pipe' = pipe /\ pipe \in [Procs -> Calls] /\ UNCHANGED <<asked, posts, received, truth, paid>>
  BY DEF PipelineInv, ShapeInv, MarkManualReview, MarkError, ReconciliationResult
<1>2. row[o].state # "NONE"
  BY DEF MarkManualReview, MarkError, ReconciliationResult
<1>3. PICK t \in {"MANUAL_REVIEW", "ERROR", "SUCCEEDED"} : row' = [row EXCEPT ![o].state = t]
  BY DEF MarkManualReview, MarkError, ReconciliationResult
<1>4. t \in WriteState \ Early /\ t # "RECONCILIATION_REQUIRED"
  BY DEF WriteState, Early
<1> QED
  BY <1>1, <1>2, <1>3, <1>4, MoveKeeps

LEMMA PollKeeps ==
  ASSUME PipelineInv, NEW p \in Procs, ApplyPollStatus(p)
  PROVE  PipelineInv'
<1> DEFINE o == pipe[p].op
           t == CASE pipe[p].got = "INTERMEDIATE" -> "PROCESSING"
                  [] pipe[p].got = "TERMINAL_SUCCESS" -> "RECONCILIATION_REQUIRED"
                  [] pipe[p].got = "TERMINAL_FAILURE" -> "FAILED"
                  [] OTHER -> "MANUAL_REVIEW"
<1>1. o \in Fingerprints
  BY CallShape DEF PipelineInv, ShapeInv, ApplyPollStatus
<1>2. t \in WriteState \ Early
  BY DEF WriteState, Early
<1>3. t = "RECONCILIATION_REQUIRED" => truth[o] = "OK"
  BY DEF ApplyPollStatus, PipelineInv, AnswerInv
<1>4. /\ pipe' = [pipe EXCEPT ![p] = Idle]
      /\ UNCHANGED <<asked, posts, received, truth, paid>>
      /\ row[o].state \notin {"SUBMITTED", "PROCESSING"} => row' = row
      /\ row[o].state \in {"SUBMITTED", "PROCESSING"} => row' = [row EXCEPT ![o].state = t]
  BY DEF ApplyPollStatus
<1> HIDE DEF o, t
<1>5. ShapeInv
  BY DEF PipelineInv
<1>6. /\ pipe' \in [Procs -> Calls]
      /\ \A u \in Procs : pipe'[u] = pipe[u] \/ pipe'[u].at = "idle"
  BY <1>4, <1>5, Stops DEF ShapeInv
<1>7. CASE row[o].state \in {"SUBMITTED", "PROCESSING"}
  <2>1. row[o].state # "NONE" /\ row' = [row EXCEPT ![o].state = t]
    BY <1>4, <1>7
  <2>2. UNCHANGED <<asked, posts, received, truth, paid>>
    BY <1>4
  <2> QED
    BY <1>1, <1>2, <1>3, <1>6, <2>1, <2>2, MoveKeeps
<1>8. CASE row[o].state \notin {"SUBMITTED", "PROCESSING"}
  <2>1. ShapeInv' /\ row' = row
    BY <1>4, <1>5, <1>6, <1>8 DEF ShapeInv
  <2>2. UNCHANGED <<posts, received, truth>>
    BY <1>4
  <2> QED
    BY <1>6, <2>1, <2>2, CallsKeep
<1> QED
  BY <1>7, <1>8

LEMMA StopKeeps ==
  ASSUME PipelineInv, NEW p \in Procs, PollFails(p) \/ ProcessDies(p)
  PROVE  PipelineInv'
<1>1. pipe' = [pipe EXCEPT ![p] = Idle] /\ UNCHANGED <<row, asked, posts, received, truth, paid>>
  BY DEF PollFails, ProcessDies
<1>2. ShapeInv
  BY DEF PipelineInv
<1>3. /\ pipe' \in [Procs -> Calls]
      /\ \A u \in Procs : pipe'[u] = pipe[u] \/ pipe'[u].at = "idle"
  BY <1>1, <1>2, Stops DEF ShapeInv
<1>4. ShapeInv'
  BY <1>1, <1>2, <1>3 DEF ShapeInv
<1> QED
  BY <1>1, <1>3, <1>4, CallsKeep

\* Handing out a signing request and configuring the organisation touch
\* neither rows nor calls.
LEMMA AskKeeps ==
  ASSUME PipelineInv,
         \/ \E o \in Fingerprints : SigningRequest(o)
         \/ \E v \in Paid : Reconfigure(v)
  PROVE  PipelineInv'
<1>1. UNCHANGED <<row, pipe, posts, received, truth>>
  BY DEF SigningRequest, Reconfigure
<1>2. asked' \in SUBSET [op : Fingerprints, doc : Docs]
  BY DEF SigningRequest, Reconfigure, PipelineInv, ShapeInv, OperationRecord
<1>3. paid' \in Paid
  BY DEF SigningRequest, Reconfigure, PipelineInv, ShapeInv
<1>4. ShapeInv'
  BY <1>1, <1>2, <1>3 DEF PipelineInv, ShapeInv
<1>5. \A u \in Procs : pipe'[u] = pipe[u] \/ pipe'[u].at = "idle"
  BY <1>1
<1> QED
  BY <1>1, <1>4, <1>5, CallsKeep

----------------------------------------------------------------------------
(* Steps of a process and of True API                                      *)

LEMMA ReserveKeeps ==
  ASSUME PipelineInv, NEW p \in Procs, NEW o \in Fingerprints, ReserveSubmit(p, o)
  PROVE  PipelineInv'
<1> DEFINE c == [at |-> "reserved", op |-> o, got |-> "nothing"]
<1>1. c \in Calls /\ c.at = "reserved" /\ c.op = o
  BY DEF Calls
<1>2. /\ row[o].state = "SIGNED" /\ row' = [row EXCEPT ![o].state = "SUBMITTING"]
      /\ pipe' = [pipe EXCEPT ![p] = c]
      /\ UNCHANGED <<asked, posts, received, truth, paid>>
  BY DEF ReserveSubmit
<1> HIDE DEF c
<1>3. ShapeInv /\ "SUBMITTING" \in WriteState
  BY DEF PipelineInv, WriteState
<1>4. /\ row' \in [Fingerprints -> OperationRecord]
      /\ row'[o].state = "SUBMITTING" /\ row'[o].doc = row[o].doc /\ row'[o].sig = row[o].sig
      /\ \A u \in Fingerprints : u # o => row'[u] = row[u]
  <2>1. row \in [Fingerprints -> OperationRecord]
    BY <1>3 DEF ShapeInv
  <2> QED
    BY <1>2, <1>3, <2>1, RowMoves
<1>5. pipe' \in [Procs -> Calls] /\ pipe'[p] = c /\ \A u \in Procs : u # p => pipe'[u] = pipe[u]
  BY <1>1, <1>2, <1>3 DEF ShapeInv
<1>6. posts[o] = 0 /\ \A u \in Procs : ~Submitting(u, o)
  BY <1>2 DEF PipelineInv, ReserveInv, Early
<1>7. ShapeInv'
  BY <1>2, <1>3, <1>4, <1>5 DEF ShapeInv
<1>8. ReserveInv'
  <2>1. \A u \in Fingerprints : row'[u].state \in Early => u # o /\ row[u].state \in Early
    BY <1>4 DEF Early
  <2>2. \A u \in Fingerprints, q \in Procs :
          Submitting(q, u)' => (q = p /\ u = o) \/ (q # p /\ u # o /\ Submitting(q, u))
    BY <1>1, <1>5, <1>6 DEF Submitting
  <2>3. \A q \in Procs : pipe'[q].at = "reserved" => posts[pipe'[q].op] = 0
    BY <1>1, <1>5, <1>6 DEF PipelineInv, ReserveInv
  <2> QED
    BY <1>2, <2>1, <2>2, <2>3 DEF PipelineInv, ReserveInv
<1>9. AnswerInv'
  <2>1. \A q \in Procs : pipe'[q].at \in {"created", "polled"} => pipe'[q] = pipe[q]
    BY <1>1, <1>5
  <2>2. \A u \in Fingerprints :
          row'[u].state = "RECONCILIATION_REQUIRED" => row[u].state = "RECONCILIATION_REQUIRED"
    BY <1>4
  <2> QED
    BY <1>2, <2>1, <2>2 DEF PipelineInv, AnswerInv
<1>10. BytesInv'
  <2>1. \A u \in Fingerprints : row'[u].doc = row[u].doc /\ row'[u].sig = row[u].sig
    BY <1>4
  <2>2. \A u \in Fingerprints : row'[u].state # "NONE" => row[u].state # "NONE"
    BY <1>2, <1>4
  <2>3. \A u \in Fingerprints : row'[u].state = "SIGNED" => row[u].state = "SIGNED"
    BY <1>4
  <2>4. row[o].sig.doc = row[o].doc
    BY <1>2 DEF PipelineInv, BytesInv
  <2>5. \A q \in Procs : q # p /\ pipe'[q].at = "reserved" =>
          /\ pipe'[q].op \in Fingerprints
          /\ row[pipe'[q].op].sig.doc = row[pipe'[q].op].doc
    BY <1>3, <1>5, CallShape DEF PipelineInv, BytesInv, ShapeInv
  <2>6. \A q \in Procs : pipe'[q].at = "reserved" =>
          row'[pipe'[q].op].sig.doc = row'[pipe'[q].op].doc
    BY <1>1, <1>5, <2>1, <2>4, <2>5
  <2>7. ExactBytesSigned'
    BY <1>2 DEF PipelineInv, BytesInv, ExactBytesSigned
  <2> QED
    BY <2>1, <2>2, <2>3, <2>6, <2>7 DEF PipelineInv, BytesInv
<1> QED
  BY <1>7, <1>8, <1>9, <1>10 DEF PipelineInv

\* What a process that advances its call leaves of it.
LEMMA CallMoves ==
  ASSUME pipe \in [Procs -> Calls], NEW p \in Procs, NEW c \in Calls,
         pipe' = [pipe EXCEPT ![p] = c]
  PROVE  /\ pipe' \in [Procs -> Calls] /\ pipe'[p] = c
         /\ \A u \in Procs : u # p => pipe'[u] = pipe[u]
  OBVIOUS

\* A process that takes its answer, or starts or ends a poll, changes its call
\* only: it submits what it submitted before, and the answer is a true one.
LEMMA AnswerKeeps ==
  ASSUME PipelineInv, NEW p \in Procs, NEW c \in Calls,
         pipe' = [pipe EXCEPT ![p] = c],
         c.at # "reserved",
         c.at \in {"sent", "created"} =>
           c.op = pipe[p].op /\ pipe[p].at \in {"reserved", "sent", "created"},
         c.at = "created" /\ c.got = "CLIENT_ERROR" => truth[c.op] = "REJECTED",
         c.at = "polled" => /\ c.got = "TERMINAL_SUCCESS" => truth[c.op] = "OK"
                            /\ c.got = "TERMINAL_FAILURE" => truth[c.op] = "NOT_OK",
         UNCHANGED <<row, asked, posts, received, truth, paid>>
  PROVE  PipelineInv'
<1>1. /\ pipe' \in [Procs -> Calls] /\ pipe'[p] = c
      /\ \A u \in Procs : u # p => pipe'[u] = pipe[u]
  BY CallMoves DEF PipelineInv, ShapeInv
<1>2. ShapeInv'
  BY <1>1 DEF PipelineInv, ShapeInv
<1>3. ReserveInv'
  <2>1. \A u \in Fingerprints, q \in Procs : Submitting(q, u)' => Submitting(q, u)
    BY <1>1 DEF Submitting
  <2>2. \A q \in Procs : pipe'[q].at = "reserved" => pipe'[q] = pipe[q]
    BY <1>1
  <2> QED
    BY <2>1, <2>2 DEF PipelineInv, ReserveInv
<1>4. AnswerInv'
  BY <1>1 DEF PipelineInv, AnswerInv
<1>5. BytesInv'
  <2>1. \A q \in Procs : pipe'[q].at = "reserved" => pipe'[q] = pipe[q]
    BY <1>1
  <2> QED
    BY <2>1 DEF PipelineInv, BytesInv, ExactBytesSigned
<1> QED
  BY <1>2, <1>3, <1>4, <1>5 DEF PipelineInv

LEMMA CreateReturnsKeeps ==
  ASSUME PipelineInv, NEW p \in Procs, NEW g \in CreateCategory, CreateReturns(p, g)
  PROVE  PipelineInv'
<1> DEFINE c == [at |-> "created", op |-> pipe[p].op, got |-> g]
<1>1. pipe \in [Procs -> Calls] /\ pipe[p].at = "sent" /\ pipe[p].op \in Fingerprints
  BY CallShape DEF PipelineInv, ShapeInv, CreateReturns
<1>2. c \in Calls /\ c.at = "created" /\ c.op = pipe[p].op /\ c.got = g
  BY <1>1 DEF Calls
<1>3. pipe' = [pipe EXCEPT ![p] = c]
  BY DEF CreateReturns
<1>4. g = "CLIENT_ERROR" => truth[pipe[p].op] = "REJECTED"
  BY DEF CreateReturns, CreateAnswers
<1>5. UNCHANGED <<row, asked, posts, received, truth, paid>>
  BY DEF CreateReturns
<1> HIDE DEF c
<1> QED
  BY <1>1, <1>2, <1>3, <1>4, <1>5, AnswerKeeps

LEMMA PollOnceKeeps ==
  ASSUME PipelineInv, NEW p \in Procs, NEW o \in Fingerprints, PollOnce(p, o)
  PROVE  PipelineInv'
<1> DEFINE c == [at |-> "asking", op |-> o, got |-> "nothing"]
<1>1. c \in Calls /\ c.at = "asking"
  BY DEF Calls
<1>2. pipe' = [pipe EXCEPT ![p] = c] /\ UNCHANGED <<row, asked, posts, received, truth, paid>>
  BY DEF PollOnce
<1> HIDE DEF c
<1> QED
  BY <1>1, <1>2, AnswerKeeps

LEMMA PollReturnsKeeps ==
  ASSUME PipelineInv, NEW p \in Procs, NEW g \in PollClassification, PollReturns(p, g)
  PROVE  PipelineInv'
<1> DEFINE c == [at |-> "polled", op |-> pipe[p].op, got |-> g]
<1>1. pipe \in [Procs -> Calls] /\ pipe[p].at = "asking" /\ pipe[p].op \in Fingerprints
  BY CallShape DEF PipelineInv, ShapeInv, PollReturns
<1>2. c \in Calls /\ c.at = "polled" /\ c.op = pipe[p].op /\ c.got = g
  BY <1>1 DEF Calls
<1>3. pipe' = [pipe EXCEPT ![p] = c]
  BY DEF PollReturns
<1>4. /\ g = "TERMINAL_SUCCESS" => truth[pipe[p].op] = "OK"
      /\ g = "TERMINAL_FAILURE" => truth[pipe[p].op] = "NOT_OK"
  BY DEF PollReturns, PollAnswers
<1>5. UNCHANGED <<row, asked, posts, received, truth, paid>>
  BY DEF PollReturns
<1> HIDE DEF c
<1> QED
  BY <1>1, <1>2, <1>3, <1>4, <1>5, AnswerKeeps

\* The one post: the reservation is unique and nothing was posted before it,
\* and the row still holds the bytes that were signed.
LEMMA SendKeeps ==
  ASSUME PipelineInv, NEW p \in Procs, SendCreate(p)
  PROVE  /\ PipelineInv'
         /\ pipe[p].op \in Fingerprints /\ posts[pipe[p].op] = 0
         /\ posts' = [posts EXCEPT ![pipe[p].op] = 1]
<1> DEFINE o == pipe[p].op
           c == [at |-> "sent", op |-> o, got |-> "nothing"]
           r == [doc |-> row[o].doc, sig |-> row[o].sig]
<1>1. pipe \in [Procs -> Calls] /\ pipe[p].at = "reserved" /\ o \in Fingerprints
  BY CallShape DEF PipelineInv, ShapeInv, SendCreate
<1>2. c \in Calls /\ c.at = "sent" /\ c.op = o
  BY <1>1 DEF Calls
<1>3. r.doc = row[o].doc /\ r.sig = row[o].sig
  OBVIOUS
<1>4. /\ posts' = [posts EXCEPT ![o] = @ + 1]
      /\ received' = received \cup {r}
      /\ pipe' = [pipe EXCEPT ![p] = c]
      /\ UNCHANGED <<row, asked, truth, paid>>
  BY DEF SendCreate
<1>5. posts[o] = 0 /\ Submitting(p, o)
  BY <1>1 DEF PipelineInv, ReserveInv, Submitting
<1>6. row[o].state \notin Early
  BY <1>1, <1>5 DEF PipelineInv, ReserveInv
<1> HIDE DEF o, c, r
<1>7. /\ posts' = [posts EXCEPT ![o] = 1]
      /\ posts' \in [Fingerprints -> {0, 1}] /\ posts'[o] = 1
      /\ \A u \in Fingerprints : u # o => posts'[u] = posts[u]
  BY <1>1, <1>4, <1>5 DEF PipelineInv, ShapeInv
<1>8. pipe' \in [Procs -> Calls] /\ pipe'[p] = c /\ \A u \in Procs : u # p => pipe'[u] = pipe[u]
  BY <1>1, <1>2, <1>4, CallMoves
<1>9. ShapeInv'
  BY <1>4, <1>7, <1>8 DEF PipelineInv, ShapeInv
<1>10. ReserveInv'
  <2>1. \A u \in Fingerprints, q \in Procs : Submitting(q, u)' => Submitting(q, u)
    BY <1>2, <1>5, <1>8 DEF Submitting
  <2>2. \A u \in Fingerprints : row'[u].state \in Early => u # o /\ row[u].state \in Early
    BY <1>4, <1>6
  <2>3. \A q \in Procs : pipe'[q].at = "reserved" =>
          q # p /\ pipe'[q] = pipe[q] /\ pipe[q].op \in Fingerprints
    BY <1>1, <1>2, <1>8, CallShape
  <2>4. \A q \in Procs : pipe'[q].at = "reserved" => pipe[q].op # o
    BY <1>1, <1>5, <2>3 DEF PipelineInv, ReserveInv, Submitting
  <2>5. \A q \in Procs : pipe'[q].at = "reserved" => posts'[pipe'[q].op] = 0
    BY <1>7, <2>3, <2>4 DEF PipelineInv, ReserveInv
  <2>6. \A u \in Fingerprints : truth'[u] # "UNKNOWN" => posts'[u] = 1
    BY <1>4, <1>7 DEF PipelineInv, ReserveInv
  <2> QED
    BY <1>7, <2>1, <2>2, <2>5, <2>6 DEF PipelineInv, ReserveInv
<1>11. AnswerInv'
  <2>1. \A q \in Procs : pipe'[q].at \in {"created", "polled"} => pipe'[q] = pipe[q]
    BY <1>2, <1>8
  <2> QED
    BY <1>4, <2>1 DEF PipelineInv, AnswerInv
<1>12. BytesInv'
  <2>1. \A q \in Procs : pipe'[q].at = "reserved" => pipe'[q] = pipe[q]
    BY <1>2, <1>8
  <2>2. r.sig.doc = r.doc /\ r.doc # NoDoc
    BY <1>1, <1>3, <1>6 DEF PipelineInv, BytesInv, Early, o
  <2>3. ExactBytesSigned'
    BY <1>4, <2>2 DEF PipelineInv, BytesInv, ExactBytesSigned
  <2> QED
    BY <1>4, <2>1, <2>3 DEF PipelineInv, BytesInv
<1> QED
  BY <1>1, <1>5, <1>7, <1>9, <1>10, <1>11, <1>12 DEF PipelineInv, o

LEMMA JudgeKeeps ==
  ASSUME PipelineInv, NEW o \in Fingerprints, TrueApiJudges(o)
  PROVE  PipelineInv'
<1>1. UNCHANGED <<row, asked, pipe, posts, received, paid>> /\ posts[o] = 1
  BY DEF TrueApiJudges, PipelineInv, ShapeInv
<1>2. truth[o] \in {"UNKNOWN", "PROCESSING"}
  BY DEF TrueApiJudges
<1>3. PICK v \in {"REJECTED", "PROCESSING", "OK", "NOT_OK"} : truth' = [truth EXCEPT ![o] = v]
  BY DEF TrueApiJudges
<1>4. /\ truth' \in [Fingerprints -> {"UNKNOWN", "REJECTED", "PROCESSING", "OK", "NOT_OK"}]
      /\ \A u \in Fingerprints : u # o => truth'[u] = truth[u]
  BY <1>3 DEF PipelineInv, ShapeInv
<1>5. ShapeInv'
  BY <1>1, <1>4 DEF PipelineInv, ShapeInv
<1>6. ReserveInv'
  <2>1. \A u \in Fingerprints : truth'[u] # "UNKNOWN" => posts'[u] = 1
    BY <1>1, <1>4 DEF PipelineInv, ReserveInv
  <2>2. \A u \in Fingerprints, q \in Procs : Submitting(q, u)' <=> Submitting(q, u)
    BY <1>1 DEF Submitting
  <2> QED
    BY <1>1, <2>1, <2>2 DEF PipelineInv, ReserveInv
<1>7. AnswerInv'
  <2>1. \A u \in Fingerprints : truth[u] \in {"REJECTED", "OK", "NOT_OK"} => truth'[u] = truth[u]
    BY <1>2, <1>4
  <2>2. \A q \in Procs : pipe[q].at \in {"created", "polled"} => pipe[q].op \in Fingerprints
    BY CallShape DEF PipelineInv, ShapeInv
  <2> QED
    BY <1>1, <2>1, <2>2 DEF PipelineInv, AnswerInv
<1>8. BytesInv'
  BY <1>1 DEF PipelineInv, BytesInv, ExactBytesSigned
<1> QED
  BY <1>5, <1>6, <1>7, <1>8 DEF PipelineInv

LEMMA PipelineStep == PipelineInv /\ [PipelineNext]_pipelineVars => PipelineInv'
<1> SUFFICES ASSUME PipelineInv, [PipelineNext]_pipelineVars PROVE PipelineInv'
  OBVIOUS
<1>1. CASE UNCHANGED pipelineVars
  <2>1. UNCHANGED <<row, asked, pipe, posts, received, truth, paid>>
    BY <1>1 DEF pipelineVars
  <2>2. ShapeInv'
    BY <2>1 DEF PipelineInv, ShapeInv
  <2> QED
    BY <2>1, <2>2, CallsKeep
<1>2. CASE \E v \in Paid : Reconfigure(v)
  BY <1>2, AskKeeps
<1>3. CASE \E q \in asked, s \in Signers : AcceptSignature(q, s)
  BY <1>3, SignatureKeeps
<1>4. ASSUME NEW o \in Fingerprints, OperationNext(o) PROVE PipelineInv'
  BY <1>4, PrepareKeeps, AskKeeps, OperatorKeeps, JudgeKeeps DEF OperationNext
<1>5. ASSUME NEW p \in Procs, ProcessNext(p) PROVE PipelineInv'
  BY <1>5, ReserveKeeps, PollOnceKeeps, SendKeeps, CreateReturnsKeeps, CompleteKeeps,
     PollReturnsKeeps, StopKeeps, PollKeeps DEF ProcessNext
<1> QED
  BY <1>1, <1>2, <1>3, <1>4, <1>5 DEF PipelineNext

\* The strengthening holds in every state of the pipeline.
THEOREM PipelineInvHolds == PipelineSpec => []PipelineInv
  BY PipelineInitInv, PipelineStep, PTL DEF PipelineSpec

\* Every document posted to True API carries a signature of exactly its bytes,
\* for any number of operations, processes, signers and configuration changes:
\* what SendCreate reads of the row is what AcceptSignature stored there.
THEOREM PostedBytesWereSigned == PipelineSpec => []ExactBytesSigned
<1>1. PipelineInv => ExactBytesSigned
  BY DEF PipelineInv, BytesInv
<1> QED
  BY <1>1, PipelineInvHolds, PTL

----------------------------------------------------------------------------
(* The pipeline implements SubmissionContract                              *)

Final == {"SUCCEEDED", "FAILED", "MANUAL_REVIEW", "ERROR"}

LEMMA PipelineContractInit == PipelineInit => Contract!Init
  BY DEF PipelineInit, Contract!Init, Verdict, NoRow

\* A row that moves between open states gives no verdict.
LEMMA Undecided ==
  ASSUME UNCHANGED <<posts, truth>>,
         \A u \in Fingerprints : row'[u].state = row[u].state
                                 \/ {row[u].state, row'[u].state} \cap Final = {}
  PROVE  UNCHANGED Contract!cvars
<1>1. \A u \in Fingerprints : Verdict(u)' = Verdict(u)
  BY DEF Verdict, Final
<1> QED
  BY <1>1 DEF Contract!cvars

\* A row that leaves an open state stays open or gets the one verdict that
\* what True API made of its document allows.
LEMMA Decided ==
  ASSUME NEW o \in Fingerprints, UNCHANGED <<posts, truth>>,
         row[o].state \notin Final,
         \A u \in Fingerprints : u # o => row'[u] = row[u],
         row'[o].state = "SUCCEEDED" => truth[o] = "OK",
         row'[o].state = "FAILED" => truth[o] \in {"REJECTED", "NOT_OK"}
  PROVE  [Contract!Next]_(Contract!cvars)
<1>1. CASE row'[o].state \notin Final
  <2>1. UNCHANGED Contract!cvars
    BY <1>1, Undecided
  <2> QED
    BY <2>1
<1>2. CASE row'[o].state \in Final
  <2> DEFINE V == [u \in Fingerprints |-> Verdict(u)]
  <2>1. V[o] = "OPEN"
    BY DEF Verdict, Final
  <2>2. V' = [V EXCEPT ![o] = Verdict(o)']
    <3>1. \A u \in Fingerprints : u # o => Verdict(u)' = Verdict(u)
      BY DEF Verdict
    <3> QED
      BY <3>1
  <2>3. \/ Verdict(o)' = "SUCCEEDED" /\ truth[o] = "OK"
        \/ Verdict(o)' = "FAILED" /\ truth[o] \in {"REJECTED", "NOT_OK"}
        \/ Verdict(o)' = "MANUAL_REVIEW"
    BY <1>2 DEF Verdict, Final
  <2>4. Contract!Conclude(o)
    BY <2>1, <2>2, <2>3 DEF Contract!Conclude
  <2> QED
    BY <2>4 DEF Contract!Next
<1> QED
  BY <1>1, <1>2

\* Preparing, signing and reserving give no verdict.
LEMMA EarlyRows ==
  ASSUME PipelineInv, NEW o \in Fingerprints, UNCHANGED <<posts, truth>>,
         row[o].state \in Early, row'[o].state \in Early \cup {"SUBMITTING"},
         \A u \in Fingerprints : u # o => row'[u] = row[u]
  PROVE  UNCHANGED Contract!cvars
<1>1. {row[o].state, row'[o].state} \cap Final = {}
  BY DEF Early, Final
<1> QED
  BY <1>1, Undecided

LEMMA EarlySteps ==
  ASSUME PipelineInv,
         \/ \E o \in Fingerprints : Prepare(o)
         \/ \E q \in asked, s \in Signers : AcceptSignature(q, s)
         \/ \E p \in Procs, o \in Fingerprints : ReserveSubmit(p, o)
  PROVE  UNCHANGED Contract!cvars
<1>1. ASSUME NEW o \in Fingerprints, Prepare(o) PROVE UNCHANGED Contract!cvars
  <2>1. /\ row[o].state \in Early /\ row'[o].state \in Early
        /\ \A u \in Fingerprints : u # o => row'[u] = row[u]
        /\ UNCHANGED <<posts, truth>>
    BY <1>1 DEF Prepare, Early, PipelineInv, ShapeInv, OperationRecord
  <2> QED
    BY <2>1, EarlyRows
<1>2. ASSUME NEW q \in asked, NEW s \in Signers, AcceptSignature(q, s)
      PROVE  UNCHANGED Contract!cvars
  <2>1. q.op \in Fingerprints
    BY DEF PipelineInv, ShapeInv
  <2>2. /\ row[q.op].state \in Early /\ row'[q.op].state \in Early
        /\ \A u \in Fingerprints : u # q.op => row'[u] = row[u]
        /\ UNCHANGED <<posts, truth>>
    BY <1>2, <2>1 DEF AcceptSignature, Early, PipelineInv, ShapeInv, OperationRecord
  <2> QED
    BY <2>1, <2>2, EarlyRows
<1>3. ASSUME NEW p \in Procs, NEW o \in Fingerprints, ReserveSubmit(p, o)
      PROVE  UNCHANGED Contract!cvars
  <2>1. /\ row[o].state \in Early /\ row'[o].state = "SUBMITTING"
        /\ \A u \in Fingerprints : u # o => row'[u] = row[u]
        /\ UNCHANGED <<posts, truth>>
    BY <1>3 DEF ReserveSubmit, Early, PipelineInv, ShapeInv, OperationRecord
  <2> QED
    BY <2>1, EarlyRows
<1> QED
  BY <1>1, <1>2, <1>3

\* A late answer that finds its row concluded leaves it; one that concludes
\* the row says what True API decided.
LEMMA AnswerConcludes ==
  ASSUME PipelineInv, NEW p \in Procs, CompleteSubmit(p) \/ ApplyPollStatus(p)
  PROVE  [Contract!Next]_(Contract!cvars)
<1> DEFINE o == pipe[p].op
<1>1. o \in Fingerprints /\ row \in [Fingerprints -> OperationRecord]
  BY CallShape DEF PipelineInv, ShapeInv, CompleteSubmit, ApplyPollStatus
<1>2. UNCHANGED <<posts, truth>>
  BY DEF CompleteSubmit, ApplyPollStatus
<1>3. CASE row' = row
  <2>1. UNCHANGED Contract!cvars
    BY <1>2, <1>3, Undecided
  <2> QED
    BY <2>1
<1>4. CASE row' # row
  <2>1. row[o].state \notin Final
    BY <1>4 DEF Final, CompleteSubmit, ApplyPollStatus
  <2>2. CASE CompleteSubmit(p)
    <3> DEFINE t == SubmitTarget(pipe[p].got)
               b == (t = "SUBMITTED")
    <3>1. row' = [row EXCEPT ![o].state = t, ![o].document_id = b]
      BY <1>4, <2>2 DEF CompleteSubmit
    <3>2. t \in WriteState /\ b \in BOOLEAN /\ t # "SUCCEEDED"
      BY DEF SubmitTarget, WriteState
    <3>3. t = "FAILED" => truth[o] = "REJECTED"
      BY <2>2 DEF SubmitTarget, CompleteSubmit, PipelineInv, AnswerInv
    <3> HIDE DEF o, t, b
    <3>4. row'[o].state = t /\ \A u \in Fingerprints : u # o => row'[u] = row[u]
      BY <1>1, <3>1, <3>2, RowCompletes
    <3> QED
      BY <1>1, <1>2, <2>1, <3>2, <3>3, <3>4, Decided
  <2>3. CASE ApplyPollStatus(p)
    <3> DEFINE t == CASE pipe[p].got = "INTERMEDIATE" -> "PROCESSING"
                      [] pipe[p].got = "TERMINAL_SUCCESS" -> "RECONCILIATION_REQUIRED"
                      [] pipe[p].got = "TERMINAL_FAILURE" -> "FAILED"
                      [] OTHER -> "MANUAL_REVIEW"
    <3>1. row' = [row EXCEPT ![o].state = t]
      BY <1>4, <2>3 DEF ApplyPollStatus
    <3>2. t \in WriteState /\ t # "SUCCEEDED"
      BY DEF WriteState
    <3>3. t = "FAILED" => truth[o] = "NOT_OK"
      BY <2>3 DEF ApplyPollStatus, PipelineInv, AnswerInv
    <3> HIDE DEF o, t
    <3>4. row'[o].state = t /\ \A u \in Fingerprints : u # o => row'[u] = row[u]
      BY <1>1, <3>1, <3>2, RowMoves
    <3> QED
      BY <1>1, <1>2, <2>1, <3>2, <3>3, <3>4, Decided
  <2> QED
    BY <2>2, <2>3
<1> QED
  BY <1>3, <1>4

LEMMA OperatorConcludes ==
  ASSUME PipelineInv, NEW o \in Fingerprints,
         \/ MarkManualReview(o) \/ MarkError(o)
         \/ \E confirmed \in BOOLEAN : ReconciliationResult(o, confirmed)
  PROVE  [Contract!Next]_(Contract!cvars)
<1>1. UNCHANGED <<posts, truth>> /\ row[o].state \notin Final
      /\ row \in [Fingerprints -> OperationRecord]
  BY DEF MarkManualReview, MarkError, ReconciliationResult, Final, PipelineInv, ShapeInv
<1>2. PICK t \in {"MANUAL_REVIEW", "ERROR", "SUCCEEDED"} :
        row' = [row EXCEPT ![o].state = t] /\ (t = "SUCCEEDED" => truth[o] = "OK")
  BY DEF MarkManualReview, MarkError, ReconciliationResult, PipelineInv, AnswerInv
<1>3. t \in WriteState /\ t # "FAILED"
  BY DEF WriteState
<1>4. row'[o].state = t /\ \A u \in Fingerprints : u # o => row'[u] = row[u]
  BY <1>1, <1>2, <1>3, RowMoves
<1> QED
  BY <1>1, <1>2, <1>3, <1>4, Decided

LEMMA PostStep ==
  ASSUME PipelineInv, NEW p \in Procs, SendCreate(p)
  PROVE  Contract!Next
<1>1. /\ pipe[p].op \in Fingerprints /\ posts[pipe[p].op] = 0
      /\ posts' = [posts EXCEPT ![pipe[p].op] = 1]
  BY SendKeeps
<1>2. UNCHANGED <<row, truth>>
  BY DEF SendCreate
<1>3. Contract!Post(pipe[p].op)
  BY <1>1, <1>2 DEF Contract!Post, Verdict
<1> QED
  BY <1>1, <1>3 DEF Contract!Next

LEMMA JudgeStep ==
  ASSUME PipelineInv, NEW o \in Fingerprints, TrueApiJudges(o)
  PROVE  Contract!Next
<1>1. posts[o] = 1 /\ UNCHANGED <<posts, row>>
  BY DEF TrueApiJudges, PipelineInv, ShapeInv
<1>2. Contract!Judge(o)
  BY <1>1 DEF TrueApiJudges, Contract!Judge, Verdict
<1> QED
  BY <1>2 DEF Contract!Next

\* Every other step leaves posts, verdicts and documents alone.
LEMMA QuietStep ==
  ASSUME UNCHANGED <<posts, truth, row>>
  PROVE  UNCHANGED Contract!cvars
  BY Undecided

LEMMA PipelineContractStep ==
  PipelineInv /\ [PipelineNext]_pipelineVars => [Contract!Next]_(Contract!cvars)
<1> SUFFICES ASSUME PipelineInv, [PipelineNext]_pipelineVars
             PROVE  [Contract!Next]_(Contract!cvars)
  OBVIOUS
<1>1. CASE UNCHANGED pipelineVars \/ \E v \in Paid : Reconfigure(v)
  BY <1>1, QuietStep DEF pipelineVars, Reconfigure
<1>2. CASE \E q \in asked, s \in Signers : AcceptSignature(q, s)
  BY <1>2, EarlySteps
<1>3. ASSUME NEW o \in Fingerprints, OperationNext(o) PROVE [Contract!Next]_(Contract!cvars)
  <2>1. CASE Prepare(o)
    BY <2>1, EarlySteps
  <2>2. CASE SigningRequest(o)
    BY <2>2, QuietStep DEF SigningRequest
  <2>3. CASE TrueApiJudges(o)
    BY <2>3, JudgeStep
  <2> QED
    BY <1>3, <2>1, <2>2, <2>3, OperatorConcludes DEF OperationNext
<1>4. ASSUME NEW p \in Procs, ProcessNext(p) PROVE [Contract!Next]_(Contract!cvars)
  <2>1. CASE \E o \in Fingerprints : ReserveSubmit(p, o)
    BY <2>1, EarlySteps
  <2>2. CASE \/ \E o \in Fingerprints : PollOnce(p, o)
             \/ \E c \in CreateCategory : CreateReturns(p, c)
             \/ \E c \in PollClassification : PollReturns(p, c)
             \/ PollFails(p) \/ ProcessDies(p)
    BY <2>2, QuietStep DEF PollOnce, CreateReturns, PollReturns, PollFails, ProcessDies
  <2>3. CASE SendCreate(p)
    BY <2>3, PostStep
  <2>4. CASE CompleteSubmit(p) \/ ApplyPollStatus(p)
    BY <2>4, AnswerConcludes
  <2> QED
    BY <1>4, <2>1, <2>2, <2>3, <2>4 DEF ProcessNext
<1> QED
  BY <1>1, <1>2, <1>3, <1>4 DEF PipelineNext

\* The local pipeline keeps the contract of the agent's write path for any
\* number of operations and processes: one create request per operation, one
\* verdict, SUCCEEDED only after True API accepted the document and FAILED
\* only after it refused it (reserve_submit, complete_submit,
\* apply_poll_status and reconciliation_result of write_pipeline.py).
THEOREM PipelineKeepsContract == PipelineSpec => KeepsContract
  BY PipelineContractInit, PipelineContractStep, PipelineInvHolds, PTL
  DEF PipelineSpec, KeepsContract, Contract!Spec

----------------------------------------------------------------------------
(* The document tracker                                                    *)

\* A tracker only follows a registered document.
TrackerInv ==
  /\ TrackerTypeOK
  /\ \A t \in Trackers : tracker[t] # AtRest => documents[tracker[t].doc] # Unregistered

\* What a tracker in the middle of a refresh holds.
LEMMA Following ==
  ASSUME TrackerInv, NEW t \in Trackers, tracker[t] # AtRest
  PROVE  /\ tracker[t] \in [doc : DocumentIds, report : DocumentStatus \cup {"none"}]
         /\ documents[tracker[t].doc] \in [event : DocumentEvents, status : DocumentStatus]
<1>1. tracker[t] \in [doc : DocumentIds, report : DocumentStatus \cup {"none"}]
  BY DEF TrackerInv, TrackerTypeOK
<1>2. tracker[t].doc \in DocumentIds /\ documents[tracker[t].doc] # Unregistered
  BY <1>1 DEF TrackerInv
<1> QED
  BY <1>1, <1>2 DEF TrackerInv, TrackerTypeOK

LEMMA TrackerStep == TrackerInv /\ [TrackerNext]_trackerVars => TrackerInv'
<1> SUFFICES ASSUME TrackerInv, [TrackerNext]_trackerVars PROVE TrackerInv'
  OBVIOUS
<1>1. ASSUME NEW e \in DocumentEvents, NEW d \in DocumentIds, RegisterDocument(e, d)
      PROVE  TrackerInv'
  <2>1. [event |-> e, status |-> "ACCEPTED"]
          \in [event : DocumentEvents, status : DocumentStatus]
    BY DEF DocumentStatus
  <2>2. [event |-> e, status |-> "ACCEPTED"] # Unregistered
    BY DEF Unregistered
  <2> QED
    BY <1>1, <2>1, <2>2 DEF RegisterDocument, TrackerInv, TrackerTypeOK
<1>2. ASSUME NEW t \in Trackers, NEW d \in DocumentIds, RefreshReads(t, d)
      PROVE  TrackerInv'
  BY <1>2 DEF RefreshReads, TrackerInv, TrackerTypeOK
<1>3. ASSUME NEW t \in Trackers, NEW r \in DocumentStatus, VerifierAnswers(t, r)
      PROVE  TrackerInv'
  <2>1. tracker[t] \in [doc : DocumentIds, report : DocumentStatus \cup {"none"}]
    BY <1>3, Following DEF VerifierAnswers
  <2>2. PICK x \in [doc : DocumentIds, report : DocumentStatus \cup {"none"}] :
          x = [tracker[t] EXCEPT !.report = r] /\ x.doc = tracker[t].doc
    <3>1. [tracker[t] EXCEPT !.report = r]
            \in [doc : DocumentIds, report : DocumentStatus \cup {"none"}]
      BY <2>1
    <3>2. [tracker[t] EXCEPT !.report = r].doc = tracker[t].doc
      BY <2>1
    <3> QED
      BY <3>1, <3>2
  <2>3. tracker' = [tracker EXCEPT ![t] = x] /\ documents' = documents
    BY <1>3, <2>2 DEF VerifierAnswers
  <2>4. documents[x.doc] # Unregistered
    BY <1>3, <2>2 DEF VerifierAnswers, TrackerInv
  <2> QED
    BY <2>2, <2>3, <2>4 DEF TrackerInv, TrackerTypeOK
<1>4. ASSUME NEW t \in Trackers, UpdateDocument(t) PROVE TrackerInv'
  <2>1. /\ tracker[t] \in [doc : DocumentIds, report : DocumentStatus \cup {"none"}]
        /\ documents[tracker[t].doc] \in [event : DocumentEvents, status : DocumentStatus]
    BY <1>4, Following DEF UpdateDocument
  <2>2. PICK x \in [event : DocumentEvents, status : DocumentStatus] :
          x = [documents[tracker[t].doc] EXCEPT !.status = tracker[t].report]
    BY <1>4, <2>1 DEF UpdateDocument
  <2>3. documents' \in {documents, [documents EXCEPT ![tracker[t].doc] = x]}
    BY <1>4, <2>2 DEF UpdateDocument
  <2>4. x # Unregistered
    BY DEF Unregistered, DocumentStatus
  <2>5. tracker' = [tracker EXCEPT ![t] = AtRest]
    BY <1>4 DEF UpdateDocument
  <2> QED
    BY <2>1, <2>3, <2>4, <2>5 DEF TrackerInv, TrackerTypeOK
<1>5. CASE UNCHANGED trackerVars
  BY <1>5 DEF trackerVars, TrackerInv, TrackerTypeOK
<1> QED
  BY <1>1, <1>2, <1>3, <1>4, <1>5 DEF TrackerNext

LEMMA StatusStep ==
  ASSUME TrackerInv, TrackerNext
  PROVE  FinalStatusFixed
<1> SUFFICES ASSUME NEW d \in DocumentIds
    PROVE  /\ documents[d] # Unregistered => documents'[d].event = documents[d].event
           /\ documents[d].status \in Terminal => documents'[d] = documents[d]
  BY DEF FinalStatusFixed
<1>1. documents \in [DocumentIds ->
        [event : DocumentEvents, status : DocumentStatus] \cup {Unregistered}]
  BY DEF TrackerInv, TrackerTypeOK
<1>2. ASSUME NEW e \in DocumentEvents, NEW c \in DocumentIds, RegisterDocument(e, c)
      PROVE  /\ documents[d] # Unregistered => documents'[d].event = documents[d].event
             /\ documents[d].status \in Terminal => documents'[d] = documents[d]
  <2>1. CASE c = d
    BY <1>1, <1>2, <2>1 DEF RegisterDocument, Unregistered, Terminal
  <2>2. CASE c # d
    BY <1>1, <1>2, <2>2 DEF RegisterDocument
  <2> QED
    BY <2>1, <2>2
<1>3. ASSUME NEW t \in Trackers, UpdateDocument(t)
      PROVE  /\ documents[d] # Unregistered => documents'[d].event = documents[d].event
             /\ documents[d].status \in Terminal => documents'[d] = documents[d]
  <2>1. CASE tracker[t].doc = d /\ documents[d].status \notin Terminal
    <3>1. documents[d] \in [event : DocumentEvents, status : DocumentStatus]
      BY <1>3, <2>1, Following DEF UpdateDocument
    <3>2. documents'[d] = [documents[d] EXCEPT !.status = tracker[t].report]
      BY <1>1, <1>3, <2>1 DEF UpdateDocument
    <3> QED
      BY <2>1, <3>1, <3>2
  <2>2. CASE tracker[t].doc # d \/ documents[d].status \in Terminal
    BY <1>1, <1>3, <2>2 DEF UpdateDocument
  <2> QED
    BY <2>1, <2>2
<1>4. CASE UNCHANGED documents
  BY <1>4
<1> QED
  BY <1>2, <1>3, <1>4 DEF TrackerNext, RefreshReads, VerifierAnswers

\* Every document and every tracker of the local store has one of the listed
\* shapes (TrackerTypeOK), and a tracker follows a registered document.
THEOREM TrackersTyped == TrackerSpec => []TrackerInv
<1>1. TrackerInit => TrackerInv
  BY DEF TrackerInit, TrackerInv, TrackerTypeOK
<1> QED
  BY <1>1, TrackerStep, PTL DEF TrackerSpec

\* update_document never changes a final status or the event of a registered
\* document, for any documents and any number of trackers that follow them.
THEOREM FinalStatusKept == Spec => FinalStatusStays
<1>1. TrackerInv /\ [TrackerNext]_trackerVars => [FinalStatusFixed]_trackerVars
  BY StatusStep
<1>2. Init => TrackerInit
  BY DEF Init
<1>3. [Next]_desktopVars => [TrackerNext]_trackerVars
  BY DEF Next, desktopVars
<1> QED
  BY <1>1, <1>2, <1>3, TrackersTyped, PTL DEF Spec, TrackerSpec, FinalStatusStays

----------------------------------------------------------------------------
(* The dry run                                                             *)

\* A request at work has something left to do, all of it imported.
OnImported(x) == x.todo \subseteq events /\ (x.at # "idle" => x.todo # {})

\* Imported rows stay; requests work on imported events; and the property.
LiveInv ==
  /\ LiveTypeOK
  /\ \A w \in imports : RowsOf[w] \subseteq events
  /\ \A t \in Threads : OnImported(thread[t])
  /\ ReadyMeansOrdered

\* The client's part of the state is of the listed shapes.
ClientTyped ==
  /\ ver \in [Kizes -> 0 .. MaxChanges]
  /\ session \in {"none", "live", "expired"}
  /\ preflight \in BOOLEAN /\ usable \in BOOLEAN
  /\ logins \in 0 .. MaxLogins
  /\ cache \in [Kizes -> Entries]

\* The event a request in state x is at, and whether x is between the two
\* writes of its check.
At(x) == CHOOSE e \in x.todo : TRUE
Between(x) == x.at \in {"guard", "demote"}

LEMMA RequestShapes ==
  /\ Nothing \in Entries /\ Failed \in Entries /\ NoAnswer \in [Kizes -> Entries]
  /\ Waiting \in Requests /\ Waiting.at = "idle" /\ Waiting.todo = {}
<1>1. Nothing \in Entries /\ Failed \in Entries
  BY DEF Entries
<1>2. NoAnswer \in [Kizes -> Entries]
  BY <1>1 DEF NoAnswer
<1> QED
  BY <1>1, <1>2 DEF Waiting, Requests

\* Whether a code's history can be put in order only depends on its events.
LEMMA SameHistory ==
  ASSUME NEW k, History(k)' = History(k)
  PROVE  Ambiguous(k)' = Ambiguous(k)
  BY DEF Ambiguous

LEMMA AtWork ==
  ASSUME LiveInv, NEW t \in Threads, thread[t].at # "idle"
  PROVE  /\ thread[t] \in Requests
         /\ At(thread[t]) \in thread[t].todo
         /\ Current(t) = At(thread[t])
         /\ thread[t].todo \subseteq events
         /\ events \subseteq Events
         /\ Current(t) \in events
         /\ Current(t) \in Events
         /\ KizOf[Current(t)] \in Kizes
<1>1. thread[t] \in Requests /\ OnImported(thread[t]) /\ events \subseteq Events
  BY DEF LiveInv, LiveTypeOK
<1>2. thread[t].todo # {} /\ thread[t].todo \subseteq events
  BY <1>1 DEF OnImported
<1>3. At(thread[t]) \in thread[t].todo
  BY <1>2 DEF At
<1>4. Current(t) = At(thread[t])
  BY DEF Current, At
<1> QED
  BY <1>1, <1>2, <1>3, <1>4 DEF Kizes

\* One request moves; the store and the previews stay.  If it was between its
\* two writes it stays there, or the history of its event is in order.
LEMMA RequestMoves ==
  ASSUME LiveInv, NEW t \in Threads, NEW x \in Requests,
         thread' = [thread EXCEPT ![t] = x], OnImported(x), ClientTyped',
         UNCHANGED <<imports, events, preview, cut>>,
         Between(thread[t]) => \/ Between(x) /\ x.todo = thread[t].todo
                               \/ ~Ambiguous(KizOf[Current(t)])
  PROVE  LiveInv'
<1>1. thread \in [Threads -> Requests]
  BY DEF LiveInv, LiveTypeOK
<1>2. LiveTypeOK'
  BY <1>1 DEF LiveInv, LiveTypeOK, ClientTyped
<1>3. (\A w \in imports : RowsOf[w] \subseteq events)'
  BY DEF LiveInv
<1>4. (\A u \in Threads : OnImported(thread[u]))'
  BY <1>1 DEF LiveInv, OnImported
<1>5. ReadyMeansOrdered'
  <2> SUFFICES ASSUME NEW e \in Events, preview[e] = "READY", Ambiguous(KizOf[e])'
      PROVE  \/ \E u \in Threads : Between(thread'[u]) /\ At(thread'[u]) = e
             \/ e \in cut
    BY DEF ReadyMeansOrdered, Between, At, Current
  <2>1. Ambiguous(KizOf[e])
    BY SameHistory DEF History
  <2>2. CASE e \in cut
    BY <2>2
  <2>3. CASE e \notin cut
    <3>1. PICK u \in Threads : Between(thread[u]) /\ At(thread[u]) = e
      BY <2>1, <2>3 DEF LiveInv, ReadyMeansOrdered, Between, At, Current
    <3>2. CASE u # t
      BY <1>1, <3>1, <3>2
    <3>3. CASE u = t
      <4>1. Current(t) = e
        BY <3>1, <3>3 DEF Current, At
      <4>2. Between(x) /\ x.todo = thread[t].todo
        BY <2>1, <3>1, <3>3, <4>1
      <4>3. At(x) = e
        BY <3>1, <3>3, <4>2 DEF At
      <4> QED
        BY <1>1, <4>2, <4>3
    <3> QED
      BY <3>2, <3>3
  <2> QED
    BY <2>2, <2>3
<1> QED
  BY <1>2, <1>3, <1>4, <1>5 DEF LiveInv

\* The registry, the certificate or the session changes; nothing stored does.
LEMMA ClientMoves ==
  ASSUME LiveInv, ClientTyped', UNCHANGED <<imports, events, preview, cut, thread>>
  PROVE  LiveInv'
<1>1. LiveTypeOK'
  BY DEF LiveInv, LiveTypeOK, ClientTyped
<1>2. (\A w \in imports : RowsOf[w] \subseteq events)'
  BY DEF LiveInv
<1>3. (\A u \in Threads : OnImported(thread[u]))'
  BY DEF LiveInv, OnImported
<1>4. ReadyMeansOrdered'
  <2> SUFFICES ASSUME NEW e \in Events, preview[e] = "READY", Ambiguous(KizOf[e])'
      PROVE  \/ \E u \in Threads : thread[u].at \in {"guard", "demote"} /\ Current(u) = e
             \/ e \in cut
    BY DEF ReadyMeansOrdered, Current
  <2>1. Ambiguous(KizOf[e])
    BY SameHistory DEF History
  <2> QED
    BY <2>1 DEF LiveInv, ReadyMeansOrdered
<1> QED
  BY <1>1, <1>2, <1>3, <1>4 DEF LiveInv

LEMMA ImportKeeps ==
  ASSUME LiveInv, NEW w \in Workbooks, ImportWorkbook(w)
  PROVE  LiveInv'
<1> DEFINE changed == {KizOf[e] : e \in RowsOf[w] \ events}
           stale == {e \in Events : KizOf[e] \in changed}
<1>1. /\ imports' = imports \cup {w}
      /\ events' = events \cup RowsOf[w]
      /\ preview' = [e \in Events |-> IF e \in stale THEN "none" ELSE preview[e]]
      /\ cut' = cut \ stale
      /\ thread' = thread
      /\ UNCHANGED <<ver, session, preflight, usable, logins, cache>>
  BY DEF ImportWorkbook, clientVars
<1>2. RowsOf[w] \subseteq Events
  BY LiveCheckAssumption
<1>3. LiveTypeOK'
  <2>1. preview' \in [Events -> Decisions]
    BY <1>1 DEF LiveInv, LiveTypeOK, Decisions
  <2>2. \A e \in Events : preview'[e] # "none" => e \in events'
    BY <1>1 DEF LiveInv, LiveTypeOK
  <2> QED
    BY <1>1, <1>2, <2>1, <2>2 DEF LiveInv, LiveTypeOK
<1>4. (\A v \in imports : RowsOf[v] \subseteq events)'
  BY <1>1 DEF LiveInv
<1>5. (\A u \in Threads : OnImported(thread[u]))'
  BY <1>1 DEF LiveInv, OnImported
<1>6. ReadyMeansOrdered'
  <2> SUFFICES ASSUME NEW e \in Events, preview'[e] = "READY", Ambiguous(KizOf[e])'
      PROVE  \/ \E u \in Threads : thread[u].at \in {"guard", "demote"} /\ Current(u) = e
             \/ e \in cut'
    BY <1>1 DEF ReadyMeansOrdered, Current
  <2>1. e \notin stale /\ preview[e] = "READY"
    BY <1>1
  <2>2. History(KizOf[e])' = History(KizOf[e])
    BY <1>1, <2>1 DEF History
  <2>3. Ambiguous(KizOf[e])
    BY <2>2, SameHistory
  <2> QED
    BY <1>1, <2>1, <2>3 DEF LiveInv, ReadyMeansOrdered
<1> QED
  BY <1>3, <1>4, <1>5, <1>6 DEF LiveInv

\* A preview of the current event is written and the request moves to x.
LEMMA PreviewWritten ==
  ASSUME LiveInv, NEW t \in Threads, thread[t].at # "idle",
         NEW x \in Requests, OnImported(x),
         thread' = [thread EXCEPT ![t] = x],
         NEW d \in Decisions,
         preview' = [preview EXCEPT ![Current(t)] = d],
         cut' = cut \ {Current(t)},
         UNCHANGED <<imports, events, ver, clientVars, cache>>,
         d = "READY" => Between(x) /\ x.todo = thread[t].todo
  PROVE  LiveInv'
<1>1. thread \in [Threads -> Requests]
  BY DEF LiveInv, LiveTypeOK
<1>2. Current(t) \in events /\ Current(t) \in Events /\ Current(t) = At(thread[t])
  BY AtWork
<1>3. LiveTypeOK'
  BY <1>1, <1>2 DEF LiveInv, LiveTypeOK, clientVars
<1>4. (\A w \in imports : RowsOf[w] \subseteq events)'
  BY DEF LiveInv
<1>5. (\A u \in Threads : OnImported(thread[u]))'
  BY <1>1 DEF LiveInv, OnImported
<1>6. ReadyMeansOrdered'
  <2> SUFFICES ASSUME NEW e \in Events, preview'[e] = "READY", Ambiguous(KizOf[e])'
      PROVE  \/ \E u \in Threads : Between(thread'[u]) /\ At(thread'[u]) = e
             \/ e \in cut'
    BY DEF ReadyMeansOrdered, Between, At, Current
  <2>1. Ambiguous(KizOf[e])
    BY SameHistory DEF History
  <2>2. preview \in [Events -> Decisions]
    BY DEF LiveInv, LiveTypeOK
  <2>3. CASE e = Current(t)
    <3>1. Between(x) /\ x.todo = thread[t].todo
      BY <1>2, <2>2, <2>3
    <3>2. At(x) = e
      BY <1>2, <2>3, <3>1 DEF At
    <3> QED
      BY <1>1, <3>1, <3>2
  <2>4. CASE e # Current(t)
    <3>1. preview[e] = "READY"
      BY <1>2, <2>2, <2>4
    <3>2. CASE e \in cut
      BY <2>4, <3>2
    <3>3. CASE e \notin cut
      <4>1. PICK u \in Threads : Between(thread[u]) /\ At(thread[u]) = e
        BY <2>1, <3>1, <3>3 DEF LiveInv, ReadyMeansOrdered, Between, At, Current
      <4>2. u # t
        BY <1>2, <2>4, <4>1
      <4> QED
        BY <1>1, <4>1, <4>2
    <3> QED
      BY <3>2, <3>3
  <2> QED
    BY <2>3, <2>4
<1> QED
  BY <1>3, <1>4, <1>5, <1>6 DEF LiveInv

\* What is left of a request after its current event.
LEMMA FinishedShape ==
  ASSUME LiveInv, NEW t \in Threads, thread[t].at # "idle"
  PROVE  Finished(t) \in Requests /\ OnImported(Finished(t))
<1> DEFINE rest == thread[t].todo \ {Current(t)}
<1>1. thread[t] \in Requests /\ thread[t].todo \subseteq events
  BY AtWork
<1>2. CASE rest = {}
  BY <1>2, RequestShapes DEF Finished, OnImported
<1>3. CASE rest # {}
  <2>1. PICK x \in Requests : x = [thread[t] EXCEPT !.at = "check", !.todo = rest, !.used = Nothing]
          /\ x.at = "check" /\ x.todo = rest
    <3>1. [thread[t] EXCEPT !.at = "check", !.todo = rest, !.used = Nothing] \in Requests
      BY <1>1, RequestShapes DEF Requests
    <3>2. /\ [thread[t] EXCEPT !.at = "check", !.todo = rest, !.used = Nothing].at = "check"
          /\ [thread[t] EXCEPT !.at = "check", !.todo = rest, !.used = Nothing].todo = rest
      BY <1>1, RequestShapes DEF Requests
    <3> QED
      BY <3>1, <3>2
  <2>2. Finished(t) = x
    BY <1>3, <2>1 DEF Finished
  <2> QED
    BY <1>1, <1>3, <2>1, <2>2 DEF OnImported
<1> QED
  BY <1>2, <1>3

LEMMA SaveKeeps ==
  ASSUME LiveInv, NEW t \in Threads, SaveCheck(t)
  PROVE  LiveInv'
<1>1. thread[t].at = "save" /\ thread[t].at # "idle"
  BY DEF SaveCheck
<1>2. thread[t] \in Requests /\ thread[t].todo \subseteq events
  BY <1>1, AtWork
<1>3. PICK x \in Requests : x = [thread[t] EXCEPT !.at = "guard"]
        /\ x.at = "guard" /\ x.todo = thread[t].todo
  <2>1. [thread[t] EXCEPT !.at = "guard"] \in Requests
    BY <1>2 DEF Requests
  <2>2. /\ [thread[t] EXCEPT !.at = "guard"].at = "guard"
        /\ [thread[t] EXCEPT !.at = "guard"].todo = thread[t].todo
    BY <1>2 DEF Requests
  <2> QED
    BY <2>1, <2>2
<1>4. thread' = [thread EXCEPT ![t] = x]
  BY <1>3 DEF SaveCheck
<1>5. OnImported(x)
  BY <1>1, <1>2, <1>3 DEF LiveInv, OnImported
<1>6. PICK d \in Decisions : d = Decide(thread[t].used)
  BY DEF Decide, Decisions
<1>7. Between(x)
  BY <1>3 DEF Between
<1>8. /\ preview' = [preview EXCEPT ![Current(t)] = d]
      /\ cut' = cut \ {Current(t)}
      /\ UNCHANGED <<imports, events, ver, clientVars, cache>>
  BY <1>6 DEF SaveCheck, storeVars
<1> QED
  BY <1>1, <1>3, <1>4, <1>5, <1>7, <1>8, PreviewWritten

LEMMA DemoteKeeps ==
  ASSUME LiveInv, NEW t \in Threads, Demote(t)
  PROVE  LiveInv'
<1>1. thread[t].at # "idle"
  BY DEF Demote
<1>2. Finished(t) \in Requests /\ OnImported(Finished(t))
  BY <1>1, FinishedShape
<1>3. "MANUAL_REVIEW" \in Decisions
  BY DEF Decisions
<1>4. /\ preview' = [preview EXCEPT ![Current(t)] = "MANUAL_REVIEW"]
      /\ cut' = cut \ {Current(t)}
      /\ thread' = [thread EXCEPT ![t] = Finished(t)]
      /\ UNCHANGED <<imports, events, ver, clientVars, cache>>
  BY DEF Demote, storeVars
<1> QED
  BY <1>1, <1>2, <1>3, <1>4, PreviewWritten

LEMMA GuardKeeps ==
  ASSUME LiveInv, NEW t \in Threads, HistoryGuard(t)
  PROVE  LiveInv'
<1>1. thread[t].at = "guard" /\ thread[t].at # "idle"
  BY DEF HistoryGuard
<1>2. thread[t] \in Requests /\ thread[t].todo \subseteq events
  BY <1>1, AtWork
<1>3. ClientTyped' /\ UNCHANGED <<imports, events, preview, cut>>
  BY DEF HistoryGuard, storeVars, clientVars, LiveInv, LiveTypeOK, ClientTyped
<1>4. CASE Ambiguous(KizOf[Current(t)])
  <2>1. PICK x \in Requests : x = [thread[t] EXCEPT !.at = "demote"]
          /\ x.at = "demote" /\ x.todo = thread[t].todo
    <3>1. [thread[t] EXCEPT !.at = "demote"] \in Requests
      BY <1>2 DEF Requests
    <3>2. /\ [thread[t] EXCEPT !.at = "demote"].at = "demote"
          /\ [thread[t] EXCEPT !.at = "demote"].todo = thread[t].todo
      BY <1>2 DEF Requests
    <3> QED
      BY <3>1, <3>2
  <2>2. thread' = [thread EXCEPT ![t] = x]
    BY <1>4, <2>1 DEF HistoryGuard
  <2>3. OnImported(x)
    BY <1>1, <1>2, <2>1 DEF LiveInv, OnImported
  <2>4. Between(x)
    BY <2>1 DEF Between
  <2> QED
    BY <1>3, <2>1, <2>2, <2>3, <2>4, RequestMoves
<1>5. CASE ~Ambiguous(KizOf[Current(t)])
  <2>1. Finished(t) \in Requests /\ OnImported(Finished(t))
    BY <1>1, FinishedShape
  <2>2. thread' = [thread EXCEPT ![t] = Finished(t)]
    BY <1>5 DEF HistoryGuard
  <2> QED
    BY <1>3, <1>5, <2>1, <2>2, RequestMoves
<1> QED
  BY <1>4, <1>5

\* A request outside its two writes goes on with the same events.
LEMMA RequestGoesOn ==
  ASSUME LiveInv, NEW t \in Threads, NEW x \in Requests,
         thread' = [thread EXCEPT ![t] = x], ClientTyped',
         thread[t].at \notin {"idle", "guard", "demote"}, x.todo = thread[t].todo,
         UNCHANGED <<imports, events, preview, cut>>
  PROVE  LiveInv'
<1>1. OnImported(x)
  BY AtWork DEF OnImported
<1>2. ~Between(thread[t])
  BY DEF Between
<1> QED
  BY <1>1, <1>2, RequestMoves

LEMMA RequestEnds ==
  ASSUME LiveInv, NEW t \in Threads, thread' = [thread EXCEPT ![t] = Waiting],
         ClientTyped', thread[t].at \notin {"guard", "demote"},
         UNCHANGED <<imports, events, preview, cut>>
  PROVE  LiveInv'
<1>1. Waiting \in Requests /\ OnImported(Waiting)
  BY RequestShapes DEF OnImported
<1>2. ~Between(thread[t])
  BY DEF Between
<1> QED
  BY <1>1, <1>2, RequestMoves

LEMMA BeginKeeps ==
  ASSUME LiveInv, NEW t \in Threads, NEW w \in Workbooks,
         NEW sel \in SUBSET RowsOf[w], BeginCheck(t, w, sel)
  PROVE  LiveInv'
<1>1. sel \subseteq events /\ events \subseteq Events /\ sel # {}
  BY DEF BeginCheck, LiveInv, LiveTypeOK
<1>2. Missing(sel) \subseteq Kizes
  BY <1>1 DEF Missing, Kizes
<1>3. PICK x \in Requests :
        x = [Waiting EXCEPT !.at = "prime", !.todo = sel, !.need = Missing(sel)] /\ x.todo = sel
  <2>1. [Waiting EXCEPT !.at = "prime", !.todo = sel, !.need = Missing(sel)] \in Requests
    BY <1>1, <1>2, RequestShapes DEF Requests
  <2>2. [Waiting EXCEPT !.at = "prime", !.todo = sel, !.need = Missing(sel)].todo = sel
    BY RequestShapes DEF Requests
  <2> QED
    BY <2>1, <2>2
<1>4. thread' = [thread EXCEPT ![t] = x]
  BY <1>3 DEF BeginCheck
<1>5. ClientTyped' /\ UNCHANGED <<imports, events, preview, cut>>
  BY DEF BeginCheck, storeVars, clientVars, LiveInv, LiveTypeOK, ClientTyped
<1>6. OnImported(x)
  BY <1>1, <1>3 DEF OnImported
<1>7. ~Between(thread[t])
  BY DEF BeginCheck, Between
<1> QED
  BY <1>3, <1>4, <1>5, <1>6, <1>7, RequestMoves

LEMMA PrimeKeeps ==
  ASSUME LiveInv, NEW t \in Threads, NEW ok \in BOOLEAN, PrimeRequest(t, ok)
  PROVE  LiveInv'
<1> DEFINE answer == [k \in Kizes |-> IF k \notin thread[t].need THEN Nothing
                                      ELSE IF ok THEN State(k) ELSE Failed]
<1>1. thread[t].at \notin {"idle", "guard", "demote"}
  BY DEF PrimeRequest
<1>2. thread[t] \in Requests
  BY <1>1, AtWork
<1>3. \A k \in Kizes : State(k) \in Entries
  BY DEF State, Entries, LiveInv, LiveTypeOK
<1>4. answer \in [Kizes -> Entries]
  BY <1>3, RequestShapes
<1> HIDE DEF answer
<1>5. PICK x \in Requests : x = [thread[t] EXCEPT !.at = "fill", !.got = answer]
        /\ x.todo = thread[t].todo
  <2>1. [thread[t] EXCEPT !.at = "fill", !.got = answer] \in Requests
    BY <1>2, <1>4 DEF Requests
  <2>2. [thread[t] EXCEPT !.at = "fill", !.got = answer].todo = thread[t].todo
    BY <1>2, <1>4 DEF Requests
  <2> QED
    BY <2>1, <2>2
<1>6. thread' = [thread EXCEPT ![t] = x]
  BY <1>5 DEF PrimeRequest, answer, LiveInv, LiveTypeOK
<1>7. ClientTyped' /\ UNCHANGED <<imports, events, preview, cut>>
  BY DEF PrimeRequest, storeVars, clientVars, LiveInv, LiveTypeOK, ClientTyped
<1> QED
  BY <1>1, <1>5, <1>6, <1>7, RequestGoesOn

LEMMA StoresKeeps ==
  ASSUME LiveInv, NEW t \in Threads, PrimeStores(t)
  PROVE  LiveInv'
<1>1. thread[t].at \notin {"idle", "guard", "demote"}
  BY DEF PrimeStores
<1>2. thread[t] \in Requests
  BY <1>1, AtWork
<1>3. PICK x \in Requests : x = [thread[t] EXCEPT !.at = "check", !.got = NoAnswer, !.need = {}]
        /\ x.todo = thread[t].todo
  <2>1. [thread[t] EXCEPT !.at = "check", !.got = NoAnswer, !.need = {}] \in Requests
    BY <1>2, RequestShapes DEF Requests
  <2>2. [thread[t] EXCEPT !.at = "check", !.got = NoAnswer, !.need = {}].todo = thread[t].todo
    BY <1>2, RequestShapes DEF Requests
  <2> QED
    BY <2>1, <2>2
<1>4. thread' = [thread EXCEPT ![t] = x]
  BY <1>3 DEF PrimeStores, LiveInv, LiveTypeOK
<1>5. cache' \in [Kizes -> Entries]
  BY <1>2 DEF PrimeStores, LiveInv, LiveTypeOK, Requests
<1>6. ClientTyped' /\ UNCHANGED <<imports, events, preview, cut>>
  BY <1>5 DEF PrimeStores, storeVars, clientVars, LiveInv, LiveTypeOK, ClientTyped
<1> QED
  BY <1>1, <1>3, <1>4, <1>6, RequestGoesOn

LEMMA GetStateKeeps ==
  ASSUME LiveInv, NEW t \in Threads, GetKiState(t)
  PROVE  LiveInv'
<1> DEFINE k == KizOf[Current(t)]
<1>1. thread[t].at \notin {"idle", "guard", "demote"}
  BY DEF GetKiState
<1>2. thread[t] \in Requests /\ k \in Kizes
  BY <1>1, AtWork
<1>3. cache \in [Kizes -> Entries] /\ cache[k] \in Entries
  BY <1>2 DEF LiveInv, LiveTypeOK
<1>4. session' \in {"none", "live", "expired"}
  BY DEF GetKiState, LiveInv, LiveTypeOK
<1>5. ClientTyped' /\ UNCHANGED <<imports, events, preview, cut>>
  BY <1>4 DEF GetKiState, storeVars, clientVars, LiveInv, LiveTypeOK, ClientTyped
<1> HIDE DEF k
<1>6. ASSUME NEW u \in Entries, thread' = [thread EXCEPT ![t].at = "save", ![t].used = u]
      PROVE  LiveInv'
  <2>1. PICK x \in Requests : x = [thread[t] EXCEPT !.at = "save", !.used = u]
          /\ x.todo = thread[t].todo
    <3>1. [thread[t] EXCEPT !.at = "save", !.used = u] \in Requests
      BY <1>2 DEF Requests
    <3>2. [thread[t] EXCEPT !.at = "save", !.used = u].todo = thread[t].todo
      BY <1>2 DEF Requests
    <3> QED
      BY <3>1, <3>2
  <2>2. thread' = [thread EXCEPT ![t] = x]
    BY <1>6, <2>1 DEF LiveInv, LiveTypeOK
  <2> QED
    BY <1>1, <1>5, <2>1, <2>2, RequestGoesOn
<1>7. ASSUME thread' = [thread EXCEPT ![t].at = "lookup", ![t].need = {k}]
      PROVE  LiveInv'
  <2>1. PICK x \in Requests : x = [thread[t] EXCEPT !.at = "lookup", !.need = {k}]
          /\ x.todo = thread[t].todo
    <3>1. [thread[t] EXCEPT !.at = "lookup", !.need = {k}] \in Requests
      BY <1>2 DEF Requests
    <3>2. [thread[t] EXCEPT !.at = "lookup", !.need = {k}].todo = thread[t].todo
      BY <1>2 DEF Requests
    <3> QED
      BY <3>1, <3>2
  <2>2. thread' = [thread EXCEPT ![t] = x]
    BY <1>7, <2>1 DEF LiveInv, LiveTypeOK
  <2> QED
    BY <1>1, <1>5, <2>1, <2>2, RequestGoesOn
<1>8. \/ thread' = [thread EXCEPT ![t].at = "save", ![t].used = cache[k]]
      \/ thread' = [thread EXCEPT ![t].at = "lookup", ![t].need = {k}]
      \/ thread' = [thread EXCEPT ![t].at = "save", ![t].used = Failed]
  BY DEF GetKiState, k
<1> QED
  BY <1>3, <1>6, <1>7, <1>8, RequestShapes

LEMMA RefusedKeeps ==
  ASSUME LiveInv, NEW t \in Threads, PrimeRefused(t) \/ LookupRefused(t)
  PROVE  LiveInv'
<1>1. thread[t].at \notin {"idle", "guard", "demote"}
  BY DEF PrimeRefused, LookupRefused
<1>2. ClientTyped' /\ UNCHANGED <<imports, events, preview, cut>>
  BY DEF PrimeRefused, LookupRefused, storeVars, LiveInv, LiveTypeOK, ClientTyped
<1>3. CASE PrimeRefused(t)
  BY <1>1, <1>2, <1>3, RequestEnds DEF PrimeRefused
<1>4. CASE LookupRefused(t)
  <2>1. thread[t] \in Requests
    BY <1>1, AtWork
  <2>2. PICK x \in Requests : x = [thread[t] EXCEPT !.at = "save", !.used = Failed, !.need = {}]
          /\ x.todo = thread[t].todo
    <3>1. [thread[t] EXCEPT !.at = "save", !.used = Failed, !.need = {}] \in Requests
      BY <2>1, RequestShapes DEF Requests
    <3>2. [thread[t] EXCEPT !.at = "save", !.used = Failed, !.need = {}].todo = thread[t].todo
      BY <2>1, RequestShapes DEF Requests
    <3> QED
      BY <3>1, <3>2
  <2>3. thread' = [thread EXCEPT ![t] = x]
    BY <1>4, <2>2 DEF LookupRefused, LiveInv, LiveTypeOK
  <2> QED
    BY <1>1, <1>2, <2>2, <2>3, RequestGoesOn
<1> QED
  BY <1>3, <1>4

\* The end of the server notes the events it cut off between the two writes.
LEMMA StopsKeeps ==
  ASSUME LiveInv, ServerStops
  PROVE  LiveInv'
<1> DEFINE off == {Current(t) : t \in {u \in Threads : thread[u].at \in {"guard", "demote"}}}
<1>1. /\ cut' = cut \cup off
      /\ thread' = [t \in Threads |-> Waiting]
      /\ UNCHANGED <<imports, events, preview, ver, usable, logins>>
      /\ session' = "none" /\ preflight' = FALSE /\ cache' = [k \in Kizes |-> Nothing]
  BY DEF ServerStops, storeVars
<1>2. off \subseteq Events
  BY AtWork
<1>3. LiveTypeOK'
  BY <1>1, <1>2, RequestShapes DEF LiveInv, LiveTypeOK
<1>4. (\A w \in imports : RowsOf[w] \subseteq events)'
  BY <1>1 DEF LiveInv
<1>5. (\A u \in Threads : OnImported(thread[u]))'
  BY <1>1, RequestShapes DEF OnImported
<1>6. ReadyMeansOrdered'
  <2> SUFFICES ASSUME NEW e \in Events, preview[e] = "READY", Ambiguous(KizOf[e])'
      PROVE  e \in cut'
    BY <1>1 DEF ReadyMeansOrdered
  <2>1. Ambiguous(KizOf[e])
    BY <1>1, SameHistory DEF History
  <2> QED
    BY <1>1, <2>1 DEF LiveInv, ReadyMeansOrdered
<1> QED
  BY <1>3, <1>4, <1>5, <1>6 DEF LiveInv

LEMMA LiveStep == LiveInv /\ [LiveNext]_liveVars => LiveInv'
<1> SUFFICES ASSUME LiveInv, [LiveNext]_liveVars PROVE LiveInv'
  OBVIOUS
<1>1. ASSUME NEW k \in Kizes, RegistryChanges(k) PROVE LiveInv'
  <2>1. ver' \in [Kizes -> 0 .. MaxChanges]
    BY <1>1, LiveCheckAssumption DEF RegistryChanges, LiveInv, LiveTypeOK
  <2>2. ClientTyped' /\ UNCHANGED <<imports, events, preview, cut, thread>>
    BY <1>1, <2>1 DEF RegistryChanges, storeVars, clientVars, LiveInv, LiveTypeOK, ClientTyped
  <2> QED
    BY <2>2, ClientMoves
<1>2. CASE CertificateLapses \/ Preflight \/ SessionExpires
  <2>1. ClientTyped' /\ UNCHANGED <<imports, events, preview, cut, thread>>
    BY <1>2 DEF CertificateLapses, Preflight, SessionExpires, storeVars, LiveInv, LiveTypeOK,
                ClientTyped
  <2> QED
    BY <2>1, ClientMoves
<1>3. CASE Authenticate
  <2>1. logins' \in 0 .. MaxLogins
    BY <1>3, LiveCheckAssumption DEF Authenticate, LiveInv, LiveTypeOK
  <2>2. ClientTyped' /\ UNCHANGED <<imports, events, preview, cut, thread>>
    BY <1>3, <2>1, RequestShapes DEF Authenticate, storeVars, LiveInv, LiveTypeOK, ClientTyped
  <2> QED
    BY <2>2, ClientMoves
<1>4. CASE UNCHANGED liveVars
  <2>1. ClientTyped' /\ UNCHANGED <<imports, events, preview, cut, thread>>
    BY <1>4 DEF liveVars, LiveInv, LiveTypeOK, ClientTyped
  <2> QED
    BY <2>1, ClientMoves
<1>5. ASSUME NEW t \in Threads, ThreadNext(t) PROVE LiveInv'
  BY <1>5, BeginKeeps, RefusedKeeps, PrimeKeeps, StoresKeeps, GetStateKeeps, SaveKeeps,
     GuardKeeps, DemoteKeeps DEF ThreadNext
<1> QED
  BY <1>1, <1>2, <1>3, <1>4, <1>5, ImportKeeps, StopsKeeps DEF LiveNext

LEMMA LiveStart == LiveInit => LiveInv
<1> SUFFICES ASSUME LiveInit PROVE LiveInv
  OBVIOUS
<1>1. LiveTypeOK
  <2>1. ver \in [Kizes -> 0 .. MaxChanges] /\ logins \in 0 .. MaxLogins
    BY LiveCheckAssumption DEF LiveInit
  <2>2. cache \in [Kizes -> Entries] /\ thread \in [Threads -> Requests]
    BY RequestShapes DEF LiveInit
  <2> QED
    BY <2>1, <2>2 DEF LiveInit, LiveTypeOK, Decisions
<1>2. ReadyMeansOrdered
  BY DEF LiveInit, ReadyMeansOrdered
<1> QED
  BY <1>1, <1>2, RequestShapes DEF LiveInv, LiveInit, OnImported

\* However imports, checks and restarts interleave, an event whose code has a
\* history that cannot be put in order is ready to act on only while its check
\* is between save_check and the history guard, or was cut off there.
THEOREM ReadyIsOrdered == LiveSpec => []ReadyMeansOrdered
<1>1. LiveInv => ReadyMeansOrdered
  BY DEF LiveInv
<1> QED
  BY <1>1, LiveStart, LiveStep, PTL DEF LiveSpec

\* The whole local program: each face keeps its property while the others
\* take their steps (Desktop's composition).
THEOREM DesktopIsSound == Spec => [](ReadyMeansOrdered /\ ExactBytesSigned) /\ KeepsContract
<1>1. Init => LiveInit /\ PipelineInit
  BY DEF Init
<1>2. [Next]_desktopVars => [LiveNext]_liveVars /\ [PipelineNext]_pipelineVars
  BY DEF Next, desktopVars
<1>3. Spec => LiveSpec /\ PipelineSpec
  BY <1>1, <1>2, PTL DEF Spec, LiveSpec, PipelineSpec
<1> QED
  BY <1>3, ReadyIsOrdered, PostedBytesWereSigned, PipelineKeepsContract, PTL

=============================================================================
