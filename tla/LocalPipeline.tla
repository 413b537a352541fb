--------------------------- MODULE LocalPipeline ---------------------------
(***************************************************************************)
(* The local write pipeline of wbcz/write_pipeline.py: approved decision,  *)
(* exact document, signature, create, poll, reconciliation.  The rows live *)
(* in one SQLite file; every store operation is one BEGIN IMMEDIATE        *)
(* transaction that re-reads the row's state, so a store operation is one  *)
(* step and the network call between two of them is where other processes, *)
(* other calls and crashes come in.                                        *)
(*                                                                         *)
(* External, from how the pipeline uses it: True API, which accepts or     *)
(* refuses a posted document, then processes it; a refused create is       *)
(* answered with a client error only when it really was refused.           *)
(***************************************************************************)
EXTENDS Naturals

CONSTANTS
  Withdrawals,  \* business fingerprints of approved withdrawals
  Returns,      \* business fingerprints of approved returns
  Procs,        \* processes (connections) working on the file
  Signers,      \* who may answer a signing request
  MaxReplays    \* bound on changes of the organisation's configuration

ASSUME PipelineAssumption ==
  /\ Withdrawals \cap Returns = {}
  /\ "none" \notin Withdrawals \cup Returns
  /\ MaxReplays \in Nat

Fingerprints == Withdrawals \cup Returns

VARIABLES
  row,       \* write_operations, by business fingerprint
  asked,     \* signing requests handed out: [op, doc]
  pipe,      \* what each process is in the middle of
  posts,     \* how often the create request of an operation was sent
  received,  \* [doc, sig] pairs True API was sent
  truth,     \* what True API made of the operation's document
  paid,      \* remote_sale_return_paid of the organisation: NULL, TRUE, FALSE
  replays

pipelineVars == <<row, asked, pipe, posts, received, truth, paid, replays>>

Paid == {"unset", "yes", "no"}
NoDoc == [op |-> "none", paid |-> "unset"]
Docs == [op : Fingerprints, paid : Paid] \cup {NoDoc}
NoSig == [doc |-> NoDoc, by |-> "none"]
Sigs == [doc : Docs, by : Signers] \cup {NoSig}

WriteState == {"NONE", "AWAITING_SIGNATURE", "SIGNED", "SUBMITTING", "SUBMITTED",
  "PROCESSING", "RECONCILIATION_REQUIRED", "SUCCEEDED", "FAILED",
  "MANUAL_REVIEW", "ERROR"}

OperationRecord ==
  [state : WriteState, doc : Docs, sig : Sigs, document_id : BOOLEAN]

NoRow == [state |-> "NONE", doc |-> NoDoc, sig |-> NoSig, document_id |-> FALSE]

CreateCategory == {"SUCCESS_WITH_ID", "SUCCESS_CONTRACT_UNCONFIRMED",
  "CLIENT_ERROR", "SERVER_ERROR", "EXCEPTION"}

PollClassification ==
  {"INTERMEDIATE", "TERMINAL_SUCCESS", "TERMINAL_FAILURE", "UNKNOWN"}

Idle == [at |-> "idle", op |-> "none", got |-> "nothing"]

Calls == {Idle}
  \cup [at : {"reserved", "sent", "asking"}, op : Fingerprints, got : {"nothing"}]
  \cup [at : {"created"}, op : Fingerprints, got : CreateCategory]
  \cup [at : {"polled"}, op : Fingerprints, got : PollClassification]

PipelineTypeOK ==
  /\ row \in [Fingerprints -> OperationRecord]
  /\ asked \in SUBSET [op : Fingerprints, doc : Docs]
  /\ pipe \in [Procs -> Calls]
  /\ posts \in [Fingerprints -> Nat]
  /\ received \in SUBSET [doc : Docs, sig : Sigs]
  /\ truth \in [Fingerprints -> {"UNKNOWN", "REJECTED", "PROCESSING", "OK", "NOT_OK"}]
  /\ paid \in Paid
  /\ replays \in 0 .. MaxReplays

PipelineInit ==
  /\ row = [o \in Fingerprints |-> NoRow]
  /\ asked = {}
  /\ pipe = [p \in Procs |-> Idle]
  /\ posts = [o \in Fingerprints |-> 0]
  /\ received = {}
  /\ truth = [o \in Fingerprints |-> "UNKNOWN"]
  /\ paid = "unset"
  /\ replays = 0

----------------------------------------------------------------------------
(* Preparing and signing                                                   *)

\* Only a return's bytes depend on the paid flag; without the flag the
\* assembler refuses to build one (REMOTE_SALE_RETURN_PAID_REQUIRED).
Buildable(o) == o \in Withdrawals \/ paid # "unset"

BuildExact(o) ==
  [op |-> o, paid |-> IF o \in Withdrawals THEN "unset" ELSE paid]

\* The operator configures the organisation again.
Reconfigure(v) ==
  /\ v # paid
  /\ replays < MaxReplays
  /\ paid' = v
  /\ replays' = replays + 1
  /\ UNCHANGED <<row, asked, pipe, posts, received, truth>>

\* Wrong variant: a replay with other bytes replaces the prepared document.
PrepareReplaces(o) ==
  /\ Buildable(o)
  /\ row[o].state \in {"NONE", "AWAITING_SIGNATURE", "SIGNED"}
  /\ row' = [row EXCEPT ![o].doc = BuildExact(o),
                        ![o].state = IF @ = "NONE" THEN "AWAITING_SIGNATURE" ELSE @]
  /\ UNCHANGED <<asked, pipe, posts, received, truth, paid, replays>>

\* The row is inserted PREPARED and becomes AWAITING_SIGNATURE in the same
\* transaction.  A replay of the same fingerprint returns the stored row, or
\* raises ReplayConflict when its bytes differ: the row stays as it is.
Prepare(o) ==
  /\ Buildable(o)
  /\ row[o].state = "NONE"
  /\ row' = [row EXCEPT ![o].state = "AWAITING_SIGNATURE",
                        ![o].doc = BuildExact(o)]
  /\ UNCHANGED <<asked, pipe, posts, received, truth, paid, replays>>

SigningRequest(o) ==
  /\ row[o].state = "AWAITING_SIGNATURE"
  /\ asked' = asked \cup {[op |-> o, doc |-> row[o].doc]}
  /\ UNCHANGED <<row, pipe, posts, received, truth, paid, replays>>

\* An answer to any request that was ever handed out, at any time.  Only a
\* row that still waits changes; an equal signature for a later row is a
\* replay, any other answer raises.
AcceptSignature(q, s) ==
  /\ q \in asked
  /\ row[q.op].doc = q.doc
  /\ row[q.op].state = "AWAITING_SIGNATURE"
  /\ row' = [row EXCEPT ![q.op].state = "SIGNED",
                        ![q.op].sig = [doc |-> q.doc, by |-> s]]
  /\ UNCHANGED <<asked, pipe, posts, received, truth, paid, replays>>

----------------------------------------------------------------------------
(* Submitting                                                              *)

\* Wrong variant: a reservation whose process disappeared is taken again.
ReserveAgain(p, o) ==
  /\ pipe[p] = Idle
  /\ row[o].state \in {"SIGNED", "SUBMITTING"}
  /\ row' = [row EXCEPT ![o].state = "SUBMITTING"]
  /\ pipe' = [pipe EXCEPT ![p] = [at |-> "reserved", op |-> o, got |-> "nothing"]]
  /\ UNCHANGED <<asked, posts, received, truth, paid, replays>>

\* reserve_submit: any state other than SIGNED raises, a row that was
\* reserved before raises DuplicateSubmitBlocked.
ReserveSubmit(p, o) ==
  /\ pipe[p] = Idle
  /\ row[o].state = "SIGNED"
  /\ row' = [row EXCEPT ![o].state = "SUBMITTING"]
  /\ pipe' = [pipe EXCEPT ![p] = [at |-> "reserved", op |-> o, got |-> "nothing"]]
  /\ UNCHANGED <<asked, posts, received, truth, paid, replays>>

\* The POST leaves with the document and the signature of the row.
SendCreate(p) ==
  /\ pipe[p].at = "reserved"
  /\ LET o == pipe[p].op
     IN  /\ posts' = [posts EXCEPT ![o] = @ + 1]
         /\ received' = received \cup {[doc |-> row[o].doc, sig |-> row[o].sig]}
  /\ pipe' = [pipe EXCEPT ![p] = [at |-> "sent", op |-> @.op, got |-> "nothing"]]
  /\ UNCHANGED <<row, asked, truth, paid, replays>>

\* External: what True API does with a document that was sent to it.
TrueApiJudges(o) ==
  /\ posts[o] > 0
  /\ \/ truth[o] = "UNKNOWN" /\ truth' = [truth EXCEPT ![o] = "REJECTED"]
     \/ truth[o] = "UNKNOWN" /\ truth' = [truth EXCEPT ![o] = "PROCESSING"]
     \/ truth[o] = "PROCESSING" /\ truth' = [truth EXCEPT ![o] = "OK"]
     \/ truth[o] = "PROCESSING" /\ truth' = [truth EXCEPT ![o] = "NOT_OK"]
  /\ UNCHANGED <<row, asked, pipe, posts, received, paid, replays>>

\* How TrueApiWriteAdapter.create may see it: 200 or 201 with or without a
\* document id the parser confirms, a client error, a 5xx, or an exception
\* (no answer, an answer the parser cannot read).
CreateAnswers(o) ==
  {"SERVER_ERROR", "EXCEPTION"}
    \cup (IF truth[o] \in {"PROCESSING", "OK", "NOT_OK"}
          THEN {"SUCCESS_WITH_ID", "SUCCESS_CONTRACT_UNCONFIRMED"} ELSE {})
    \cup (IF truth[o] = "REJECTED" THEN {"CLIENT_ERROR"} ELSE {})

CreateReturns(p, c) ==
  /\ pipe[p].at = "sent"
  /\ c \in CreateAnswers(pipe[p].op)
  /\ pipe' = [pipe EXCEPT ![p] = [at |-> "created", op |-> @.op, got |-> c]]
  /\ UNCHANGED <<row, asked, posts, received, truth, paid, replays>>

SubmitTarget(c) ==
  CASE c = "SUCCESS_WITH_ID" -> "SUBMITTED"
    [] c = "CLIENT_ERROR" -> "FAILED"
    [] OTHER -> "MANUAL_REVIEW"

\* complete_submit, or mark_submit_ambiguous after an exception.  Both raise
\* when the row is no longer SUBMITTING and leave it as it is.
CompleteSubmit(p) ==
  /\ pipe[p].at = "created"
  /\ LET o == pipe[p].op
         t == SubmitTarget(pipe[p].got)
     IN  row' = IF row[o].state # "SUBMITTING" THEN row
                ELSE [row EXCEPT ![o].state = t, ![o].document_id = (t = "SUBMITTED")]
  /\ pipe' = [pipe EXCEPT ![p] = Idle]
  /\ UNCHANGED <<asked, posts, received, truth, paid, replays>>

MarkManualReview(o) ==
  /\ row[o].state \in {"AWAITING_SIGNATURE", "SIGNED", "SUBMITTING", "SUBMITTED",
                       "PROCESSING", "RECONCILIATION_REQUIRED"}
  /\ row' = [row EXCEPT ![o].state = "MANUAL_REVIEW"]
  /\ UNCHANGED <<asked, pipe, posts, received, truth, paid, replays>>

MarkError(o) ==
  /\ row[o].state \in {"AWAITING_SIGNATURE", "SIGNED"}
  /\ row' = [row EXCEPT ![o].state = "ERROR"]
  /\ UNCHANGED <<asked, pipe, posts, received, truth, paid, replays>>

----------------------------------------------------------------------------
(* Polling and reconciliation                                              *)

PollOnce(p, o) ==
  /\ pipe[p] = Idle
  /\ row[o].document_id
  /\ pipe' = [pipe EXCEPT ![p] = [at |-> "asking", op |-> o, got |-> "nothing"]]
  /\ UNCHANGED <<row, asked, posts, received, truth, paid, replays>>

\* What classify_poll_status makes of an answer: any status but 200, and any
\* status the table does not list, is UNKNOWN.
PollAnswers(o) ==
  {"UNKNOWN",
   CASE truth[o] = "OK" -> "TERMINAL_SUCCESS"
     [] truth[o] = "NOT_OK" -> "TERMINAL_FAILURE"
     [] OTHER -> "INTERMEDIATE"}

PollReturns(p, c) ==
  /\ pipe[p].at = "asking"
  /\ c \in PollAnswers(pipe[p].op)
  /\ pipe' = [pipe EXCEPT ![p] = [at |-> "polled", op |-> @.op, got |-> c]]
  /\ UNCHANGED <<row, asked, posts, received, truth, paid, replays>>

\* A transport error is noted in the audit and changes nothing else.
PollFails(p) ==
  /\ pipe[p].at = "asking"
  /\ pipe' = [pipe EXCEPT ![p] = Idle]
  /\ UNCHANGED <<row, asked, posts, received, truth, paid, replays>>

\* apply_poll_status looks at the state twice, before and inside the
\* transaction; either look that fails raises and changes nothing.
ApplyPollStatus(p) ==
  /\ pipe[p].at = "polled"
  /\ LET o == pipe[p].op
     IN  row' = IF row[o].state \notin {"SUBMITTED", "PROCESSING"} THEN row
                ELSE [row EXCEPT ![o].state =
                  CASE pipe[p].got = "INTERMEDIATE" -> "PROCESSING"
                    [] pipe[p].got = "TERMINAL_SUCCESS" -> "RECONCILIATION_REQUIRED"
                    [] pipe[p].got = "TERMINAL_FAILURE" -> "FAILED"
                    [] OTHER -> "MANUAL_REVIEW"]
  /\ pipe' = [pipe EXCEPT ![p] = Idle]
  /\ UNCHANGED <<asked, posts, received, truth, paid, replays>>

ReconciliationResult(o, confirmed) ==
  /\ row[o].state = "RECONCILIATION_REQUIRED"
  /\ row' = [row EXCEPT ![o].state = IF confirmed THEN "SUCCEEDED" ELSE "MANUAL_REVIEW"]
  /\ UNCHANGED <<asked, pipe, posts, received, truth, paid, replays>>

\* The process dies; what it committed stays.
ProcessDies(p) ==
  /\ pipe[p] # Idle
  /\ pipe' = [pipe EXCEPT ![p] = Idle]
  /\ UNCHANGED <<row, asked, posts, received, truth, paid, replays>>

OperationNext(o) ==
  \/ Prepare(o)
  \/ SigningRequest(o)
  \/ MarkManualReview(o)
  \/ MarkError(o)
  \/ TrueApiJudges(o)
  \/ \E confirmed \in BOOLEAN : ReconciliationResult(o, confirmed)

ProcessNext(p) ==
  \/ \E o \in Fingerprints : ReserveSubmit(p, o) \/ PollOnce(p, o)
  \/ SendCreate(p)
  \/ \E c \in CreateCategory : CreateReturns(p, c)
  \/ CompleteSubmit(p)
  \/ \E c \in PollClassification : PollReturns(p, c)
  \/ PollFails(p)
  \/ ApplyPollStatus(p)
  \/ ProcessDies(p)

PipelineNext ==
  \/ \E v \in Paid : Reconfigure(v)
  \/ \E q \in asked, s \in Signers : AcceptSignature(q, s)
  \/ \E o \in Fingerprints : OperationNext(o)
  \/ \E p \in Procs : ProcessNext(p)

PipelineSpec == PipelineInit /\ [][PipelineNext]_pipelineVars

----------------------------------------------------------------------------
(* What the pipeline promises                                              *)

\* The bytes that reach True API are the bytes somebody signed, whatever
\* replays of prepare, changes of configuration, late signatures and second
\* processes came in between (docstring of ExactDocumentBuilder: "Freeze the
\* exact UTF-8 bytes once").
ExactBytesSigned == \A r \in received : r.sig.doc = r.doc /\ r.doc # NoDoc

Verdict(o) ==
  IF row[o].state \in {"SUCCEEDED", "FAILED", "MANUAL_REVIEW", "ERROR"}
  THEN IF row[o].state = "ERROR" THEN "MANUAL_REVIEW" ELSE row[o].state
  ELSE "OPEN"

Contract == INSTANCE SubmissionContract
  WITH Ops <- Fingerprints, sent <- posts,
       verdict <- [o \in Fingerprints |-> Verdict(o)]

\* The local pipeline keeps the same promise as the agent's write path: one
\* create per operation, one final verdict, SUCCEEDED only for a document
\* True API accepted and FAILED only for one it refused or rejected.
KeepsContract == Contract!Spec

============================================================================
