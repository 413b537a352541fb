-------------------------- MODULE DocumentTracker --------------------------
(***************************************************************************)
(* The documents table of the local event store and the trackers that poll *)
(* the status of a registered document (wbcz/status_verifier.py).  A       *)
(* tracker reads the stored status, asks the verifier (external) and       *)
(* stores the answer; two trackers may follow the same document.           *)
(***************************************************************************)
EXTENDS Naturals

CONSTANTS
  DocumentIds, DocumentEvents, Trackers

VARIABLES
  documents,  \* [event, status], event "none" when the id is not registered
  tracker     \* [doc, report]: what each tracker is in the middle of

trackerVars == <<documents, tracker>>

DocumentStatus ==
  {"ACCEPTED", "PROCESSING", "SUCCEEDED", "REJECTED", "VERIFICATION_ERROR"}
Terminal == {"SUCCEEDED", "REJECTED"}

Unregistered == [event |-> "none", status |-> "none"]
AtRest == [doc |-> "none", report |-> "none"]

TrackerTypeOK ==
  /\ documents \in [DocumentIds ->
       [event : DocumentEvents, status : DocumentStatus] \cup {Unregistered}]
  /\ tracker \in [Trackers ->
       [doc : DocumentIds, report : DocumentStatus \cup {"none"}] \cup {AtRest}]

TrackerInit ==
  /\ documents = [d \in DocumentIds |-> Unregistered]
  /\ tracker = [t \in Trackers |-> AtRest]

\* register_document: the same pair again is a no-op, another event raises.
RegisterDocument(e, d) ==
  /\ documents[d] = Unregistered
  /\ documents' = [documents EXCEPT ![d] = [event |-> e, status |-> "ACCEPTED"]]
  /\ UNCHANGED tracker

\* refresh: a terminal document is returned as it is, without a call.
RefreshReads(t, d) ==
  /\ tracker[t] = AtRest
  /\ documents[d] # Unregistered /\ documents[d].status \notin Terminal
  /\ tracker' = [tracker EXCEPT ![t] = [doc |-> d, report |-> "none"]]
  /\ UNCHANGED documents

\* Any exception of the verifier becomes VERIFICATION_ERROR.
VerifierAnswers(t, r) ==
  /\ tracker[t] # AtRest /\ tracker[t].report = "none"
  /\ tracker' = [tracker EXCEPT ![t].report = r]
  /\ UNCHANGED documents

\* Wrong variant: the status read before the call is trusted after it.
UpdateTrustsRead(t) ==
  /\ tracker[t] # AtRest /\ tracker[t].report # "none"
  /\ documents' = [documents EXCEPT ![tracker[t].doc].status = tracker[t].report]
  /\ tracker' = [tracker EXCEPT ![t] = AtRest]

\* update_document re-reads the status under the write lock; a different
\* report for a terminal document raises.
UpdateDocument(t) ==
  /\ tracker[t] # AtRest /\ tracker[t].report # "none"
  /\ LET d == tracker[t].doc
     IN  documents' = IF documents[d].status \in Terminal THEN documents
                      ELSE [documents EXCEPT ![d].status = tracker[t].report]
  /\ tracker' = [tracker EXCEPT ![t] = AtRest]

TrackerNext ==
  \/ \E e \in DocumentEvents, d \in DocumentIds : RegisterDocument(e, d)
  \/ \E t \in Trackers :
       \/ \E d \in DocumentIds : RefreshReads(t, d)
       \/ \E r \in DocumentStatus : VerifierAnswers(t, r)
       \/ UpdateDocument(t)

TrackerSpec == TrackerInit /\ [][TrackerNext]_trackerVars

\* A final document status, and the event a document belongs to, never
\* change again, although a tracker that read an earlier status may still
\* hold a late or failed answer (update_document's re-check).
FinalStatusFixed ==
  \A d \in DocumentIds :
    /\ documents[d] # Unregistered => documents'[d].event = documents[d].event
    /\ documents[d].status \in Terminal => documents'[d] = documents[d]

============================================================================
