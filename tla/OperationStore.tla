------------------------- MODULE OperationStore -------------------------
(***************************************************************************)
(* The write-operation store of the backend: the states a write operation  *)
(* goes through and the transitions the store and its broker make, as      *)
(* functions from one operation row to the next.  A row keeps its state    *)
(* and the document id True API gave it; signatures, hashes, audit rows    *)
(* and timestamps are abstracted.                                          *)
(*                                                                         *)
(* src/wbcz_web/repositories/agent.py  (SqlAlchemyWriteOperationStore)     *)
(* src/wbcz/windows_agent.py           (VpsAgentBroker)                    *)
(* src/wbcz/write_pipeline.py          (classify_poll_status)              *)
(***************************************************************************)
EXTENDS Naturals

(* "ABSENT" stands for "no row": prepare() inserts the row directly in
   AWAITING_SIGNATURE, so PREPARED is only ever an audit entry.  SIGNED and
   SUBMITTING exist inside one transaction of the web store and are never
   committed by it. *)
WriteStates ==
    {"ABSENT", "AWAITING_SIGNATURE", "SIGNED", "SUBMITTING", "SUBMITTED",
     "PROCESSING", "RECONCILIATION_REQUIRED", "SUCCEEDED", "FAILED",
     "MANUAL_REVIEW"}

(* Create responses by category.  CLIENT_ERROR stands for BAD_REQUEST,
   UNAUTHORIZED, FORBIDDEN, UNPROCESSABLE and HTTP_ERROR, which the store
   treats alike. *)
CreateCategories ==
    {"SUCCESS_WITH_ID", "SUCCESS_CONTRACT_UNCONFIRMED", "SERVER_ERROR",
     "CLIENT_ERROR"}

(* What the status parser makes of a poll answer.  IN_PROGRESS stands for
   WAIT_FOR_CONTINUATION too, CHECKED_NOT_OK for PARSE_ERROR and
   PROCESSING_ERROR, and OTHER for a status string nobody listed. *)
RemoteStatuses == {"IN_PROGRESS", "CHECKED_OK", "CHECKED_NOT_OK", "OTHER"}

None == "NONE"
NoDoc == 0

(* One AgentResult: only the fields the backend branches on. *)
AgentResults ==
    [outcome  : {None, "SUBMITTED", "MANUAL_REVIEW", "FAILED", "INTERMEDIATE",
                 "RECONCILIATION_REQUIRED", "CIS_CHECKED"},
     category : CreateCategories \cup {None},
     doc      : Nat,
     remote   : RemoteStatuses \cup {None},
     cis      : {None, "CONFIRMS", "DIFFERS"},
     error    : {None, "LOCAL_FAILURE", "AgentCreateOutcomeUnresolved",
                 "TRANSPORT_FAILURE", "LEDGER_FAILURE", "POLL_HTTP_ERROR"}]

NoResult == [outcome |-> None, category |-> None, doc |-> NoDoc,
             remote |-> None, cis |-> None, error |-> None]

Operations == [state : WriteStates, doc : Nat]
AbsentOperation == [state |-> "ABSENT", doc |-> NoDoc]

TerminalStates == {"SUCCEEDED", "FAILED", "MANUAL_REVIEW"}

-----------------------------------------------------------------------------
(* Wrong variant: a status nobody listed is taken for a failure. *)
ClassifyUnknownIsFailure(remote) ==
    CASE remote = "IN_PROGRESS" -> "INTERMEDIATE"
      [] remote = "CHECKED_OK"  -> "TERMINAL_SUCCESS"
      [] OTHER                  -> "TERMINAL_FAILURE"

(* classify_poll_status: every status that is not listed, and no status at
   all, asks for a human. *)
Classify(remote) ==
    CASE remote = "IN_PROGRESS"    -> "INTERMEDIATE"
      [] remote = "CHECKED_OK"     -> "TERMINAL_SUCCESS"
      [] remote = "CHECKED_NOT_OK" -> "TERMINAL_FAILURE"
      [] OTHER                     -> "MANUAL_REVIEW"

(* SqlAlchemyWriteOperationStore.prepare: a replay returns the stored row. *)
Prepare(op) ==
    IF op.state = "ABSENT"
    THEN [state |-> "AWAITING_SIGNATURE", doc |-> NoDoc] ELSE op

(* Wrong variant: a 5xx answer is taken for a refusal. *)
CompleteSubmitServerErrorFails(op, res) ==
    CASE res.category = "SUCCESS_WITH_ID" ->
           [state |-> "SUBMITTED", doc |-> res.doc]
      [] res.category = "SUCCESS_CONTRACT_UNCONFIRMED" ->
           [state |-> "MANUAL_REVIEW", doc |-> NoDoc]
      [] OTHER ->
           [state |-> "FAILED", doc |-> NoDoc]

(* complete_submit: only a success that carries an id becomes SUBMITTED. *)
CompleteSubmit(op, res) ==
    CASE res.category = "SUCCESS_WITH_ID" ->
           [state |-> "SUBMITTED", doc |-> res.doc]
      [] res.category \in {"SERVER_ERROR", "SUCCESS_CONTRACT_UNCONFIRMED"} ->
           [state |-> "MANUAL_REVIEW", doc |-> NoDoc]
      [] OTHER ->
           [state |-> "FAILED", doc |-> NoDoc]

(* VpsAgentBroker._apply_write_result: accept_signature, reserve_submit and
   complete_submit in one transaction; a row past SUBMITTING is left alone. *)
ApplyWriteResult(op, res) ==
    IF op.state \in {"AWAITING_SIGNATURE", "SIGNED", "SUBMITTING"}
    THEN CompleteSubmit(op, res) ELSE op

(* apply_poll_status, as _apply_poll_result guards it. *)
ApplyPollResult(op, res) ==
    IF op.state \notin {"SUBMITTED", "PROCESSING"} THEN op
    ELSE [op EXCEPT !.state =
            CASE Classify(res.remote) = "INTERMEDIATE"     -> "PROCESSING"
              [] Classify(res.remote) = "TERMINAL_SUCCESS" -> "RECONCILIATION_REQUIRED"
              [] Classify(res.remote) = "TERMINAL_FAILURE" -> "FAILED"
              [] OTHER                                     -> "MANUAL_REVIEW"]

(* VpsAgentBroker.submit_result before it completes the job: the result's own
   fields decide what is applied, not the job's purpose.  A result with none
   of these fields leaves the operation as it is. *)
ApplyCore(op, res) ==
    CASE res.category # None -> ApplyWriteResult(op, res)
      [] res.category = None /\ (res.remote # None \/ res.error = "POLL_HTTP_ERROR") ->
           ApplyPollResult(op, res)
      [] OTHER -> op

(* mark_manual_review, from the states its callers can be in. *)
MarkManualReview(op) == [op EXCEPT !.state = "MANUAL_REVIEW"]

(* _apply_reconciliation and reconciliation_result: the fresh CIS read must
   confirm the expected business state; an error is not a confirmation. *)
ReconciliationResult(op, res) ==
    IF op.state # "RECONCILIATION_REQUIRED" THEN op
    ELSE [op EXCEPT !.state =
            IF res.cis = "CONFIRMS" THEN "SUCCEEDED" ELSE "MANUAL_REVIEW"]
=============================================================================
