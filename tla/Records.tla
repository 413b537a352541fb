------------------------------ MODULE Records ------------------------------
(***************************************************************************)
(* What an organisation keeps of its work: the operations on documents     *)
(* (services/turnover.py, services/aggregation.py) and the audit history   *)
(* that every one of their steps is appended to (services/audit_history.py)*)
(* in the step's own transaction.  The history reads none of the           *)
(* operations' rows and they none of its, so a behaviour follows one of    *)
(* the two: `record' is drawn once.                                        *)
(***************************************************************************)
EXTENDS DocumentOperations, AuditChain

VARIABLE record

vars == <<record, documentVars, auditVars>>

Init ==
  /\ record \in {"documents", "history"}
  /\ DocumentInit /\ AuditInit
  \* The other one rests in one of its initial states.
  /\ record = "documents" => \A o \in Orgs : role[o] = NoRole
  /\ record = "history" => /\ ptype = "BOX"
                          /\ \A c \in Units : /\ reg[c].status = "INTRODUCED" /\ reg[c].indi
                                              /\ reg[c].parent = None

Next ==
  \/ record = "documents" /\ DocumentNext /\ UNCHANGED <<record, auditVars>>
  \/ record = "history" /\ AuditNext /\ UNCHANGED <<record, documentVars>>

Spec == Init /\ [][Next]_vars

\* The rows, documents and chains have the shapes the code gives them.
TypeOK == record \in {"documents", "history"} /\ DocumentTypeOK /\ AuditTypeOK

=============================================================================
