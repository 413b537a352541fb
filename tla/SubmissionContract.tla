------------------------ MODULE SubmissionContract ------------------------
(***************************************************************************)
(* What the write path promises of one write operation, without leases,    *)
(* messages, ledgers or crashes: its document is posted to True API at     *)
(* most once, and at most one final verdict is ever given.  SUCCEEDED is   *)
(* given only to a document True API accepted, FAILED only to one it       *)
(* refused or rejected; MANUAL_REVIEW may be given at any time.            *)
(* Step 6, 8 and 9 of docs/M15_FIRST_REAL_WRITE_RUNBOOK.md.                *)
(***************************************************************************)
EXTENDS Naturals

CONSTANT Ops

VARIABLES
    sent,     \* number of create requests posted
    truth,    \* what True API made of the document
    verdict   \* what the backend concluded

cvars == <<sent, truth, verdict>>

Init ==
    /\ sent = [o \in Ops |-> 0]
    /\ truth = [o \in Ops |-> "UNKNOWN"]
    /\ verdict = [o \in Ops |-> "OPEN"]

Post(o) ==
    /\ sent[o] = 0
    /\ sent' = [sent EXCEPT ![o] = 1]
    /\ UNCHANGED <<truth, verdict>>

Judge(o) ==
    /\ sent[o] = 1
    /\ \/ truth[o] = "UNKNOWN" /\ truth' = [truth EXCEPT ![o] = "REJECTED"]
       \/ truth[o] = "UNKNOWN" /\ truth' = [truth EXCEPT ![o] = "PROCESSING"]
       \/ truth[o] = "PROCESSING" /\ truth' = [truth EXCEPT ![o] = "OK"]
       \/ truth[o] = "PROCESSING" /\ truth' = [truth EXCEPT ![o] = "NOT_OK"]
    /\ UNCHANGED <<sent, verdict>>

Conclude(o) ==
    /\ verdict[o] = "OPEN"
    /\ \/ /\ truth[o] = "OK"
          /\ verdict' = [verdict EXCEPT ![o] = "SUCCEEDED"]
       \/ /\ truth[o] \in {"REJECTED", "NOT_OK"}
          /\ verdict' = [verdict EXCEPT ![o] = "FAILED"]
       \/ verdict' = [verdict EXCEPT ![o] = "MANUAL_REVIEW"]
    /\ UNCHANGED <<sent, truth>>

Next == \E o \in Ops : Post(o) \/ Judge(o) \/ Conclude(o)

Spec == Init /\ [][Next]_cvars
=============================================================================
