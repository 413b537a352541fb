-------------------------- MODULE ControlDecision --------------------------
(***************************************************************************)
(* The decision rules of the backend: what one WB event and one fresh      *)
(* Chestny ZNAK snapshot of its KIZ lead to (decide), which event of a     *)
(* KIZ's history counts (resolve_wb_sequence), and when a reconciliation   *)
(* read confirms a write (_apply_reconciliation).                          *)
(*                                                                         *)
(* src/wbcz/control_engine.py, src/wbcz_web/services/wb_sequence.py,       *)
(* src/wbcz_web/services/agent_orchestration.py                            *)
(***************************************************************************)
EXTENDS Naturals

(* The fields of an event that decide() reads.  `legal` is the optional flag
   legal_entity_sale; a time of 0 stands for a missing occurred_at. *)
EventFacts == [operation : {"SALE", "RETURN"},
               legal     : {"FALSE", "TRUE", "UNKNOWN"},
               receipt   : BOOLEAN,
               time      : Nat]

Undated == 0

(* A snapshot: product group and owner compared with the ones expected, the
   two status fields, and the withdrawal reason. *)
KiStates == [group  : {"ABSENT", "LP", "OTHER"},
             owner  : {"UNKNOWN", "OWN", "OTHER"},
             status : {"IN_CIRCULATION", "WITHDRAWN", "OTHER"},
             statusEx : {"EMPTY", "SAME", "OTHER"},
             reason : {"EMPTY", "DISTANCE", "OTHER"}]

Outcome(d, r) == [decision |-> d, reason |-> r]
NoOutcome == Outcome("NONE", "NONE")
ReadyDecisions == {"READY_TO_WITHDRAW", "READY_TO_RETURN"}

HasSaleReceiptEvidence(e) == e.receipt /\ e.time # Undated

(* Wrong variant: the withdrawal reason is not looked at. *)
DecideAnyWithdrawal(e, s) ==
    CASE s.group = "OTHER" \/ s.owner # "OWN" \/ s.status = "OTHER" \/ s.statusEx = "OTHER" ->
           Outcome("MANUAL_REVIEW", "UNKNOWN_CHZ_STATUS")
      [] OTHER ->
           IF s.status = "IN_CIRCULATION"
           THEN IF e.operation = "RETURN"
                THEN Outcome("ALREADY_DONE", "RETURN_ALREADY_IN_CIRCULATION")
                ELSE Outcome("READY_TO_WITHDRAW", "SALE_IN_CIRCULATION")
           ELSE IF e.operation = "SALE"
                THEN Outcome("ALREADY_DONE", "SALE_ALREADY_WITHDRAWN_DISTANCE")
                ELSE Outcome("READY_TO_RETURN", "RETURN_WITHDRAWN_DISTANCE")

(* Wrong variant: a return is actionable whatever the state. *)
DecideReturnAlways(e, s) ==
    IF s.owner # "OWN" THEN Outcome("MANUAL_REVIEW", "OWNER_MISMATCH")
    ELSE IF e.operation = "RETURN"
    THEN Outcome("READY_TO_RETURN", "RETURN_WITHDRAWN_DISTANCE")
    ELSE IF s.status = "IN_CIRCULATION"
    THEN Outcome("READY_TO_WITHDRAW", "SALE_IN_CIRCULATION")
    ELSE Outcome("ALREADY_DONE", "SALE_ALREADY_WITHDRAWN_DISTANCE")

(* decide(): the checks in the code's order, the first that applies wins. *)
Decide(e, s) ==
    IF s.group = "OTHER" THEN Outcome("MANUAL_REVIEW", "WRONG_PRODUCT_GROUP")
    ELSE IF s.owner = "UNKNOWN" THEN Outcome("MANUAL_REVIEW", "OWNER_UNKNOWN")
    ELSE IF s.owner # "OWN" THEN Outcome("MANUAL_REVIEW", "OWNER_MISMATCH")
    ELSE IF s.status = "OTHER" \/ s.statusEx = "OTHER"
    THEN Outcome("MANUAL_REVIEW", "UNKNOWN_CHZ_STATUS")
    ELSE IF s.status = "IN_CIRCULATION"
    THEN IF s.reason # "EMPTY" THEN Outcome("MANUAL_REVIEW", "UNKNOWN_CHZ_STATUS")
         ELSE IF e.operation = "RETURN"
         THEN Outcome("ALREADY_DONE", "RETURN_ALREADY_IN_CIRCULATION")
         ELSE IF e.legal # "FALSE"
         THEN Outcome("MANUAL_REVIEW", "LEGAL_ENTITY_RULES_UNDEFINED")
         ELSE IF s.group # "ABSENT" /\ ~HasSaleReceiptEvidence(e)
         THEN Outcome("MANUAL_REVIEW", "SALE_RECEIPT_MISSING")
         ELSE Outcome("READY_TO_WITHDRAW", "SALE_IN_CIRCULATION")
    ELSE IF s.reason # "DISTANCE"
    THEN Outcome("MANUAL_REVIEW", "NON_DISTANCE_OR_UNKNOWN_WITHDRAWAL")
    ELSE IF e.operation = "SALE"
    THEN Outcome("ALREADY_DONE", "SALE_ALREADY_WITHDRAWN_DISTANCE")
    ELSE Outcome("READY_TO_RETURN", "RETURN_WITHDRAWN_DISTANCE")

-----------------------------------------------------------------------------
(* prepare_approved_write: the document a READY decision leads to. *)
DocumentType(decision) ==
    IF decision = "READY_TO_WITHDRAW" THEN "LK_RECEIPT" ELSE "LP_RETURN"

(* Wrong variant: the two expected reasons are mixed up. *)
ConfirmedBySwapped(e, docType, s) ==
    Decide(e, s) = Outcome("ALREADY_DONE",
                           IF docType = "LK_RECEIPT"
                           THEN "RETURN_ALREADY_IN_CIRCULATION"
                           ELSE "SALE_ALREADY_WITHDRAWN_DISTANCE")

(* _apply_reconciliation: decide() on the fresh state must say that the very
   change the document asked for is already there. *)
ConfirmedBy(e, docType, s) ==
    Decide(e, s) = Outcome("ALREADY_DONE",
                           IF docType = "LK_RECEIPT"
                           THEN "SALE_ALREADY_WITHDRAWN_DISTANCE"
                           ELSE "RETURN_ALREADY_IN_CIRCULATION")

(* What a document does to the code once True API accepts it (external). *)
Effect(docType, s) ==
    IF docType = "LK_RECEIPT"
    THEN [s EXCEPT !.status = "WITHDRAWN", !.reason = "DISTANCE"]
    ELSE [s EXCEPT !.status = "IN_CIRCULATION", !.reason = "EMPTY"]

-----------------------------------------------------------------------------
(* resolve_wb_sequence on the history of one KIZ: `hist` is its set of event
   ids, `time` their timestamps.  Two events need different, known times. *)
Ambiguous(hist, time) ==
    \E x, y \in hist :
        x # y /\ (time[x] = Undated \/ time[y] = Undated \/ time[x] = time[y])

LatestOf(hist, time) == {x \in hist : \A y \in hist : time[y] <= time[x]}

(* sequence_outcome_for_event, NoOutcome standing for None. *)
SequenceOutcome(x, hist, time) ==
    IF Ambiguous(hist, time)
    THEN Outcome("MANUAL_REVIEW", "HISTORY_ORDER_AMBIGUOUS")
    ELSE IF hist # {} /\ x \notin LatestOf(hist, time)
    THEN Outcome("NO_ACTION", "SUPERSEDED_BY_LATER_WB_EVENT")
    ELSE NoOutcome
=============================================================================
