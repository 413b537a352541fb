--------------------------- MODULE DecisionCycle ---------------------------
(***************************************************************************)
(* One WB event and the state of its KIZ through the whole business cycle: *)
(* control decides, an approved document takes effect at Chestny ZNAK      *)
(* (unless another party changes the code first), and the reconciliation   *)
(* read judges the result with the same decide().                          *)
(***************************************************************************)
EXTENDS ControlDecision

CONSTANT Times    \* event timestamps used, Undated among them

ASSUME TimesAssumption == Times \subseteq Nat

VARIABLES
    event,     \* the facts of the WB event
    ki,        \* the state of the KIZ at Chestny ZNAK
    outcome,   \* what control concluded
    phase      \* how far the cycle is

cycleVars == <<event, ki, outcome, phase>>

CycleInit ==
    /\ event \in [operation : {"SALE", "RETURN"},
                  legal : {"FALSE", "TRUE", "UNKNOWN"},
                  receipt : BOOLEAN, time : Times]
    /\ ki \in KiStates
    /\ outcome = NoOutcome
    /\ phase = "imported"

(* _apply_control_cis for an event no other event competes with. *)
Control ==
    /\ phase = "imported"
    /\ outcome' = Decide(event, ki)
    /\ phase' = "decided"
    /\ UNCHANGED <<event, ki>>

(* prepare_approved_write refuses anything but READY; the document is then
   signed, posted and accepted. *)
DocumentTakesEffect ==
    /\ phase = "decided"
    /\ outcome.decision \in ReadyDecisions
    /\ ki' = Effect(DocumentType(outcome.decision), ki)
    /\ phase' = "done"
    /\ UNCHANGED <<event, outcome>>

(* Another participant changes the code before the reconciliation read. *)
OtherPartyActs ==
    /\ phase = "done"
    /\ \E r \in {"EMPTY", "DISTANCE", "OTHER"}, st \in {"IN_CIRCULATION", "WITHDRAWN"},
          ow \in {"OWN", "OTHER"} :
          ki' = [ki EXCEPT !.status = st, !.reason = r, !.owner = ow]
    /\ phase' = "touched"
    /\ UNCHANGED <<event, outcome>>

(* _apply_reconciliation *)
Reconcile ==
    /\ phase \in {"done", "touched"}
    /\ phase' = IF ConfirmedBy(event, DocumentType(outcome.decision), ki)
                THEN "confirmed" ELSE "manual_review"
    /\ UNCHANGED <<event, ki, outcome>>

CycleNext == Control \/ DocumentTakesEffect \/ OtherPartyActs \/ Reconcile

CycleSpec == CycleInit /\ [][CycleNext]_cycleVars

-----------------------------------------------------------------------------
(* The variables stay in the domains of the code's Event, KiState, Outcome,
   and control leaves an outcome for every event it looked at. *)
CycleTypeOK ==
    /\ event \in EventFacts
    /\ ki \in KiStates
    /\ outcome \in [decision : {"NONE", "MANUAL_REVIEW", "ALREADY_DONE",
                                "READY_TO_WITHDRAW", "READY_TO_RETURN"},
                    reason : {"NONE", "WRONG_PRODUCT_GROUP", "OWNER_UNKNOWN",
                              "OWNER_MISMATCH", "UNKNOWN_CHZ_STATUS",
                              "RETURN_ALREADY_IN_CIRCULATION",
                              "LEGAL_ENTITY_RULES_UNDEFINED", "SALE_RECEIPT_MISSING",
                              "SALE_IN_CIRCULATION",
                              "NON_DISTANCE_OR_UNKNOWN_WITHDRAWAL",
                              "SALE_ALREADY_WITHDRAWN_DISTANCE",
                              "RETURN_WITHDRAWN_DISTANCE"}]
    /\ phase \in {"imported", "decided", "done", "touched", "confirmed",
                  "manual_review"}
    /\ phase # "imported" <=> outcome # NoOutcome

(* decide() and the reconciliation rule agree: a document that took effect
   and that nobody touched afterwards is always confirmed, so a successful
   write never ends in manual review because of the rules themselves. *)
EffectIsConfirmed ==
    phase = "done" => ConfirmedBy(event, DocumentType(outcome.decision), ki)

(* A confirmation is evidence: SUCCEEDED is only ever written for a code that
   we own and that really is in the state the document asked for, even if
   others acted on it in between. *)
ConfirmationIsEvidence ==
    phase = "confirmed" =>
        /\ ki.owner = "OWN"
        /\ ki.group # "OTHER"
        /\ outcome.decision = "READY_TO_WITHDRAW" =>
              ki.status = "WITHDRAWN" /\ ki.reason = "DISTANCE"
        /\ outcome.decision = "READY_TO_RETURN" =>
              ki.status = "IN_CIRCULATION" /\ ki.reason = "EMPTY"

(* Opposite operations are never both actionable, nor both already done, on
   the same snapshot: a sale and a return of one code cannot both be READY. *)
OppositesExclude ==
    LET flipped == [event EXCEPT !.operation =
                       IF event.operation = "SALE" THEN "RETURN" ELSE "SALE"]
        one == Decide(event, ki).decision
        two == Decide(flipped, ki).decision
    IN  /\ ~(one \in ReadyDecisions /\ two \in ReadyDecisions)
        /\ ~(one = "ALREADY_DONE" /\ two = "ALREADY_DONE")
        /\ one \in ReadyDecisions => two = "ALREADY_DONE"
=============================================================================
