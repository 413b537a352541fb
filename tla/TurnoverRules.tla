---------------------------- MODULE TurnoverRules ----------------------------
(***************************************************************************)
(* The turnover contract (M5): which document a turnover operation sends,  *)
(* what it requires of a code's snapshot, and when its effect is confirmed.*)
(* Pure operators over a snapshot                                          *)
(*   [status, ex, reason, emission, indi, ours, parent, fresh]             *)
(* of one code: registry status, special status, withdrawal reason,        *)
(* emission type, individual commissioning confirmed, owned by the         *)
(* participant, the package it is in, and read within the age limit.       *)
(***************************************************************************)
EXTENDS Naturals, FiniteSets, Sequences

CONSTANT None

Introductions == {"INTRODUCE_DOMESTIC", "INTRODUCE_FROM_INDIVIDUAL",
                  "INTRODUCE_IMPORT_PRE_MANDATORY", "INTRODUCE_EAEU",
                  "INTRODUCE_REMAINS", "INTRODUCE_CONTRACT", "INTRODUCE_FTS"}

Returns == {"RETURN_TO_CIRCULATION", "RETURN_REMOTE_SALE"}

TurnoverKinds == Introductions \cup Returns
                 \cup {"WITHDRAW", "WITHDRAW_DISTANCE", "REMARK",
                       "WRITE_OFF", "CANCEL_WITHDRAWAL"}

DocumentType ==
    [INTRODUCE_DOMESTIC             |-> "LP_INTRODUCE_GOODS",
     INTRODUCE_FROM_INDIVIDUAL      |-> "LK_INDI_COMMISSIONING",
     INTRODUCE_IMPORT_PRE_MANDATORY |-> "LP_GOODS_IMPORT",
     INTRODUCE_EAEU                 |-> "CROSSBORDER",
     INTRODUCE_REMAINS              |-> "LP_INTRODUCE_OST",
     INTRODUCE_CONTRACT             |-> "LK_CONTRACT_COMMISSIONING",
     INTRODUCE_FTS                  |-> "LP_FTS_INTRODUCE",
     WITHDRAW                       |-> "LK_RECEIPT",
     WITHDRAW_DISTANCE              |-> "LK_RECEIPT",
     RETURN_TO_CIRCULATION          |-> "LP_RETURN",
     RETURN_REMOTE_SALE             |-> "LP_RETURN",
     REMARK                         |-> "LK_REMARK",
     WRITE_OFF                      |-> "WRITE_OFF",
     CANCEL_WITHDRAWAL              |-> "LK_RECEIPT_CANCEL"]

\* Kinds with a document class; the bare WITHDRAW is a registry entry only.
ExpectedClass == TurnoverKinds \ {"WITHDRAW"}

KnownReturnTypes == {"REMOTE_SALE_RETURN", "RETAIL_RETURN", "OWN_USE_RETURN",
                     "STATE_CONTRACT_RETURN", "NOT_FOR_SALE_RETURN"}

ReturnReasonMatrix ==
    ({"DISTANCE", "BY_SAMPLES"} \X {"REMOTE_SALE_RETURN"})
    \cup ({"RETAIL", "BY_SAMPLES", "DISTANCE"} \X {"RETAIL_RETURN"})
    \cup ({"OWN_USE", "PRODUCTION_USE", "MEDICAL_USE", "VETERINARY_USE"}
              \X {"OWN_USE_RETURN"})
    \cup ({"STATE_SECRET"} \X {"STATE_CONTRACT_RETURN"})
    \cup ({"DONATION", "OWN_USE", "PRODUCTION_USE", "STATE_CONTRACT"}
              \X {"NOT_FOR_SALE_RETURN"})

(***************************************************************************)
(* Documents: [kind, codes, old, cause, paid, primary].  codes is the      *)
(* sequence of product codes, old the set of codes a remark replaces,      *)
(* cause the return type, the remarking cause or the dropout reason, paid  *)
(* and primary the two fields of a return that its type governs.           *)
(***************************************************************************)
Distinct(s) == \A i, j \in DOMAIN s : s[i] = s[j] => i = j

CodesOf(d) == {d.codes[i] : i \in DOMAIN d.codes}

\* Only these document classes reject a repeated product code.
UniqueProducts == {"INTRODUCE_REMAINS", "WITHDRAW_DISTANCE", "WRITE_OFF"}
                  \cup Returns

LpReturnDocument(d) ==
    /\ d.cause \in KnownReturnTypes
    /\ \/ d.cause = "REMOTE_SALE_RETURN" /\ d.paid # None /\ (d.paid <=> d.primary)
       \/ d.cause \in {"RETAIL_RETURN", "NOT_FOR_SALE_RETURN"}
          /\ d.paid = None /\ d.primary
       \/ d.cause \in {"OWN_USE_RETURN", "STATE_CONTRACT_RETURN"}
          /\ d.paid = None /\ ~d.primary

LkRemarkDocument(d) ==
    /\ d.cause = "DESCRIPTION_ERRORS" => d.old # {}
    /\ d.primary => d.cause \in {"RETAIL_RETURN", "REMOTE_SALE_RETURN"}

WriteOffDocument(d) == d.cause \in {"DESTRUCTION", "EAS_TRADE", "OTHER"}

\* to_wire of the document class accepts the document.
ToWire(d) ==
    /\ d.codes # <<>> \/ d.kind = "CANCEL_WITHDRAWAL"
    /\ d.kind \in UniqueProducts => Distinct(d.codes)
    /\ d.kind \in Returns => LpReturnDocument(d)
    /\ d.kind = "REMARK" => LkRemarkDocument(d)
    /\ d.kind = "WRITE_OFF" => WriteOffDocument(d)

\* prepare_turnover_document: class, registry and wire checks.
Prepare(d) ==
    /\ d.kind \in ExpectedClass
    /\ d.kind = "RETURN_REMOTE_SALE" => d.cause = "REMOTE_SALE_RETURN"
    /\ ToWire(d)

(***************************************************************************)
(* OperationPreconditionService: what a snapshot must show.                *)
(***************************************************************************)
Plain(s) == s.ex = None

IntroducedFromApplied(s, emission) ==
    s.ours /\ Plain(s) /\ s.status = "APPLIED" /\ s.emission = emission

ValidateIndividual(s) == s.ours /\ Plain(s) /\ s.status = "APPLIED" /\ s.indi

ValidateFts(s) ==
    /\ s.ours /\ s.status = "APPLIED" /\ s.emission = "FOREIGN"
    /\ s.ex \in {None, "FTS_RESPOND_NOT_OK", "FTS_CONTROL"}

ValidateDistance(s) == s.ours /\ Plain(s) /\ s.status = "INTRODUCED"

ValidateReturn(s, type) ==
    /\ type \in KnownReturnTypes
    /\ s.ours /\ Plain(s) /\ s.status = "RETIRED"
    /\ <<s.reason, type>> \in ReturnReasonMatrix

\* The new code of a remark is not checked for its owner; the old one is.
ValidateRemarkNew(s) ==
    Plain(s) /\ s.status = "APPLIED" /\ s.emission \in {"REMARK", "REAPPLY"}

ValidateRemarkOld(s, cause) ==
    /\ s.ours /\ Plain(s) /\ s.status \in {"INTRODUCED", "RETIRED"}
    /\ cause \in {"REMOTE_SALE_RETURN", "RETAIL_RETURN"} => s.status = "RETIRED"

ValidateWriteOff(s) ==
    /\ s.ours
    /\ s.status \in {"EMITTED", "APPLIED", "INTRODUCED", "APPLIED_NOT_PAID"}
    /\ s.ex \in {None, "IN_GRAY_ZONE"}

\* The state half of the check of one code, which the registry makes too.
StateAllows(d, s) ==
    CASE d.kind \in {"INTRODUCE_DOMESTIC", "INTRODUCE_CONTRACT"} ->
             IntroducedFromApplied(s, "LOCAL")
      [] d.kind \in {"INTRODUCE_IMPORT_PRE_MANDATORY", "INTRODUCE_EAEU"} ->
             IntroducedFromApplied(s, "FOREIGN")
      [] d.kind = "INTRODUCE_REMAINS" -> IntroducedFromApplied(s, "REMAINS")
      [] d.kind = "INTRODUCE_FROM_INDIVIDUAL" -> ValidateIndividual(s)
      [] d.kind = "INTRODUCE_FTS" -> ValidateFts(s)
      [] d.kind = "WITHDRAW_DISTANCE" -> ValidateDistance(s)
      [] d.kind = "RETURN_TO_CIRCULATION" -> ValidateReturn(s, d.cause)
      [] d.kind = "RETURN_REMOTE_SALE" -> ValidateReturn(s, "REMOTE_SALE_RETURN")
      [] d.kind = "REMARK" -> ValidateRemarkNew(s)
      [] d.kind = "WRITE_OFF" -> ValidateWriteOff(s)
      [] OTHER -> FALSE

\* Each validate_* checks the age of every snapshot it is given.
Validate(d, snap) ==
    /\ \A c \in CodesOf(d) : snap[c] # None /\ snap[c].fresh /\ StateAllows(d, snap[c])
    /\ \A c \in d.old :
           snap[c] # None /\ snap[c].fresh /\ ValidateRemarkOld(snap[c], d.cause)

\* validate_cancel_withdrawal: the source document is our last, confirmed one.
ValidateCancelWithdrawal(sourceStatus, senderOurs, latest) ==
    sourceStatus = "CHECKED_OK" /\ senderOurs /\ latest

(***************************************************************************)
(* OperationReconciliationService.                                         *)
(***************************************************************************)
Postcondition(d, s, restore) ==
    CASE d.kind = "WITHDRAW_DISTANCE" -> s.status = "RETIRED" /\ s.reason = "DISTANCE"
      [] d.kind \in Introductions \cup Returns \cup {"REMARK"} ->
             s.status = "INTRODUCED" /\ Plain(s)
      [] d.kind = "WRITE_OFF" -> s.status = "WRITTEN_OFF" /\ Plain(s)
      [] d.kind = "CANCEL_WITHDRAWAL" -> <<s.status, s.reason>> = restore
      [] OTHER -> FALSE

(***************************************************************************)
(* reconcile_m5_aggregation_side_effect for one complete observation o:    *)
(* the code was in package o.pre of type o.type and now is in o.post,      *)
(* o.left says its history shows a disaggregation, o.target is the code's  *)
(* own package type, o.kept that a returned aggregate kept its relation,   *)
(* o.oldStatus and o.replaced are what a remark found and confirmed.       *)
(***************************************************************************)
\* Wrong variant: the relations of the codes are not looked at.
RelationIgnored(kind, o) == kind \in TurnoverKinds

SideEffectConfirmed(kind, o) ==
    LET gone == o.post # o.pre /\ o.left
    IN \/ o.pre = None
       \/ kind = "CANCEL_WITHDRAWAL"
       \/ kind \in Introductions \cup {"WITHDRAW_DISTANCE"} /\ gone
       \/ kind = "INTRODUCE_FTS" /\ o.colorSize /\ o.post = o.pre
       \/ kind \in Returns /\ IF o.target \in {"SET", "GROUP"} THEN o.kept ELSE gone
       \/ kind = "WRITE_OFF" /\ o.type # "SET" /\ (o.type \in {"BOX", "ATK"} => gone)
       \/ /\ kind = "REMARK"
          /\ o.type = "BOX" => gone
          /\ o.type = "SET" =>
                 \/ o.oldStatus = "INTRODUCED" /\ o.replaced /\ o.post = o.pre
                 \/ o.oldStatus = "RETIRED" /\ gone

FailedDocument == {"CHECKED_NOT_OK", "PARSE_ERROR", "PROCESSING_ERROR"}

\* reconcile: the state recorded for document status docStatus, the snapshots
\* snap of the codes cs and the relation observations obs made of them; read
\* says that the relations were read completely.
ReconcileTurnover(d, docStatus, cs, snap, restore, obs, read) ==
    CASE docStatus \in FailedDocument -> "MANUAL_REVIEW"
      [] docStatus \notin FailedDocument \cup {"CHECKED_OK"} -> "RECONCILIATION_PENDING"
      [] docStatus = "CHECKED_OK" ->
         IF d.kind = "WITHDRAW" \/ (d.kind = "CANCEL_WITHDRAWAL" /\ restore = None)
         THEN "MANUAL_REVIEW"
         ELSE IF \/ cs = {}
                 \/ \E c \in cs : ~Postcondition(d, snap[c], restore)
                 \/ ~read /\ \E c \in cs : obs[c].pre # None
         THEN "RECONCILIATION_PENDING"
         ELSE IF \A c \in cs : SideEffectConfirmed(d.kind, obs[c])
         THEN "RECONCILED"
         ELSE "MANUAL_REVIEW"
==============================================================================
