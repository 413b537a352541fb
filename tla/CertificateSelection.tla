------------------------- MODULE CertificateSelection -------------------------
(***************************************************************************)
(* The True API connection of a participant: which certificate the Windows *)
(* agent is to sign with, what its inventories and health answers say of   *)
(* it, and the health checks that go through the agent's job queue         *)
(* (services/integration_settings.py, integration_status.py).              *)
(*                                                                         *)
(* A certificate is its thumbprint.  What an inventory says of one is      *)
(* "ready", "bad" (expired, no key, another participant's INN, the wrong   *)
(* provider, not yet valid) or "absent".  `rows[b][c]' are the observation *)
(* rows of a certificate in the order of observed_at.                      *)
(***************************************************************************)
EXTENDS AgentBindings, Sequences, SequencesExt, FiniteSetsExt

CONSTANTS Certs, NoCert, Conns, Checks, MaxRows

ASSUME CertificateConstants == /\ NoCert \notin Certs /\ MaxRows \in Nat
                               /\ Conns \subseteq Nat \ {0}

VARIABLES conn,     \* the True API connections, in the order of their creation
          rows,     \* AgentCertificateObservationRecord
          current,  \* capabilities_sanitized.certificate_current_thumbprints
          check,    \* IntegrationHealthCheckRecord
          realRead, \* TRUE_API_REAL_READ_ENABLED
          last      \* ghost: what the primary agent's latest inventory said

certVars == <<conn, rows, current, check, realRead, last>>

NoObservation == <<>>
NoReport == [ready |-> {}, applied |-> NoCert]
NoConn == [state |-> "none", bound |-> NoBinding, desired |-> NoCert, sel |-> "NONE",
           observed |-> NoObservation]
NoCheck == [state |-> "none", conn |-> 0, by |-> NoBinding]

\* IntegrationConnectionRecord, with the observation it points at
Connections ==
  [state : {"none", "ENABLED", "DISABLED", "ARCHIVED"}, bound : Bindings \cup {NoBinding},
   desired : Certs \cup {NoCert}, sel : {"NONE", "PENDING_LOCAL_APPLY", "READY", "MISMATCH"},
   observed : {NoObservation} \cup (Bindings \X Certs \X Nat)]

CheckRows ==
  [state : {"none", "CHECKING", "READY", "DEGRADED", "ERROR", "BLOCKED"},
   conn : Conns \cup {0}, by : Bindings \cup {NoBinding}]

CertTypeOK ==
  /\ conn \in [Conns -> Connections]
  /\ rows \in [Bindings -> [Certs -> Seq({"READY", "NOT_READY"})]]
  /\ current \in [Bindings -> SUBSET Certs]
  /\ check \in [Checks -> CheckRows]
  /\ realRead \in BOOLEAN
  /\ last \in [ready : SUBSET Certs, applied : Certs \cup {NoCert}]

CertInit ==
  /\ conn = [i \in Conns |-> NoConn]
  /\ rows = [b \in Bindings |-> [c \in Certs |-> <<>>]]
  /\ current = [b \in Bindings |-> {}]
  /\ check = [k \in Checks |-> NoCheck]
  /\ realRead \in BOOLEAN
  /\ last = NoReport

\* The participant's live connection: the index lets there be one.
Live == {i \in Conns : conn[i].state \in {"ENABLED", "DISABLED"}}

------------------------------------------------------------------------------
\* certificate_status

\* Rows are read newest first into a dictionary by thumbprint, in which the
\* oldest row of a certificate therefore stays.
StatusRow(b, c) == Head(rows[b][c])

Eligible(b) == {c \in current[b] : StatusRow(b, c) = "READY"}

CertificateStatus ==
  LET b == Primary
      desired == IF Live = {} THEN NoCert ELSE conn[CHOOSE i \in Live : TRUE].desired
      sel == IF Live = {} THEN "NONE" ELSE conn[CHOOSE i \in Live : TRUE].sel
  IN IF b = NoBinding \/ Eligible(b) = {} THEN "NOT_READY"
     ELSE IF desired # NoCert
       THEN IF desired \notin Eligible(b) THEN "NOT_READY"
            ELSE IF sel = "READY" THEN "ACTIVE_READY"
            ELSE IF sel = "PENDING_LOCAL_APPLY" THEN "SELECTED_PENDING_APPLY" ELSE "NOT_READY"
     ELSE IF Cardinality(Eligible(b)) > 1 THEN "SELECTION_REQUIRED" ELSE "DISCOVERED_READY"

------------------------------------------------------------------------------
\* Connections

\* create_true_api
CreateTrueApi(i) ==
  /\ conn[i].state = "none" /\ Live = {} /\ \A j \in Conns : j < i => conn[j].state # "none"
  /\ \E b \in {NoBinding, Primary} :
       conn' = [conn EXCEPT ![i] = [NoConn EXCEPT !.state = "ENABLED", !.bound = b]]
  /\ UNCHANGED <<rows, current, check, realRead, last, budget>>

\* lifecycle
Lifecycle(i, to) ==
  /\ conn[i].state # "none"
  /\ \/ to \in {"ENABLED", "DISABLED"} /\ conn[i].state # "ARCHIVED"
     \/ to = "ARCHIVED"
  /\ Charge
  /\ conn' = [conn EXCEPT ![i].state = to]
  /\ UNCHANGED <<rows, current, check, realRead, last>>

\* Wrong variant: the selection keeps the verdict on the certificate before it.
SelectKeepsVerdict(i, c) ==
  /\ conn[i].state # "none" /\ Primary # NoBinding
  /\ c \in current[Primary] /\ Last(rows[Primary][c]) = "READY"
  /\ conn' = [conn EXCEPT ![i].desired = c]
  /\ Charge
  /\ UNCHANGED <<rows, current, check, realRead, last>>

\* select_certificate: a certificate of the primary agent's latest list whose
\* newest row is READY.  The observation the connection points at stays.
SelectCertificate(i, c) ==
  /\ conn[i].state # "none" /\ Primary # NoBinding
  /\ c \in current[Primary] /\ Last(rows[Primary][c]) = "READY"
  /\ conn' = [conn EXCEPT ![i].desired = c, ![i].sel = "PENDING_LOCAL_APPLY"]
  /\ Charge
  /\ UNCHANGED <<rows, current, check, realRead, last>>

------------------------------------------------------------------------------
\* record_certificate_inventory

Readiness(s) == IF s = "ready" THEN "READY" ELSE "NOT_READY"

\* A listed certificate's newest row is updated, or its first one inserted.
Observed(b, said) ==
  [rows EXCEPT ![b] = [c \in Certs |->
     IF said[c] = "absent" THEN rows[b][c]
     ELSE IF rows[b][c] = <<>> THEN <<Readiness(said[c])>>
     ELSE [rows[b][c] EXCEPT ![Len(rows[b][c])] = Readiness(said[c])]]]

\* The desired certificate is dropped when it is gone or no longer ready, ...
DesiredDropped(r, said) ==
  IF r.desired # NoCert /\ said[r.desired] # "ready"
    THEN [r EXCEPT !.desired = NoCert, !.sel = "NONE", !.observed = NoObservation]
    ELSE r

\* ... the only eligible one is desired when none is, ...
AutoSelected(r, said) ==
  LET eligible == {c \in Certs : said[c] = "ready"}
  IN IF r.desired = NoCert /\ Cardinality(eligible) = 1
       THEN [r EXCEPT !.desired = CHOOSE c \in eligible : TRUE, !.sel = "PENDING_LOCAL_APPLY"]
       ELSE r

\* ... and what the agent has applied is compared with it.
Compared(r, b, said, applied, newRows) ==
  IF r.desired = NoCert THEN r
  ELSE IF applied = NoCert THEN [r EXCEPT !.sel = "PENDING_LOCAL_APPLY", !.observed = NoObservation]
  ELSE IF applied = r.desired /\ said[r.desired] = "ready"
    THEN [r EXCEPT !.sel = "READY", !.observed = <<b, r.desired, Len(newRows[b][r.desired])>>]
  ELSE [r EXCEPT !.sel = "MISMATCH", !.observed = NoObservation]

Reconsidered(r, b, said, applied, newRows) ==
  Compared(AutoSelected(DesiredDropped(r, said), said), b, said, applied, newRows)

RecordCertificateInventory(b, said, applied) ==
  /\ Authenticates(b) /\ Charge
  /\ rows' = Observed(b, said)
  /\ conn' = [i \in Conns |->
                IF i \in Live THEN Reconsidered(conn[i], b, said, applied, Observed(b, said))
                              ELSE conn[i]]
  /\ current' = [current EXCEPT ![b] = {c \in Certs : said[c] # "absent"}]
  /\ last' = IF b = Primary THEN [ready |-> {c \in Certs : said[c] = "ready"}, applied |-> applied] ELSE last
  /\ UNCHANGED <<check, realRead>>

------------------------------------------------------------------------------
\* Health checks

InFlight(i) == \E k \in Checks : check[k].state = "CHECKING" /\ check[k].conn = i
Unstarted == {k \in Checks : check[k].state = "none"}

\* check, _check_true_api and _start_check (a READY check of the last seconds
\* is answered again and the user's rate limit refuses: neither changes
\* anything).  Without real reads the check ends at once, from the inventory.
CheckTrueApi(i, k) ==
  /\ conn[i].state = "ENABLED" /\ Primary # NoBinding /\ k \in Unstarted
  /\ conn[i].bound \in {NoBinding, Primary}
  /\ ~InFlight(i)
  /\ conn' = [conn EXCEPT ![i].bound = Primary]
  /\ check' = [check EXCEPT ![k] =
       [state |-> IF realRead THEN "CHECKING"
                  ELSE IF CertificateStatus = "ACTIVE_READY" THEN "BLOCKED" ELSE "ERROR",
        conn |-> i, by |-> Primary]]
  /\ UNCHANGED <<rows, current, realRead, last, budget>>

\* The certificate part of apply_agent_health_result: a new row, and a verdict
\* on the selection.
Answered(r, b, c, ready, newRows) ==
  LET seen == [r EXCEPT !.observed = <<b, c, Len(newRows[b][c])>>]
  IN IF r.desired # NoCert THEN [seen EXCEPT !.sel = IF r.desired = c /\ ready THEN "READY" ELSE "MISMATCH"]
     ELSE IF ready THEN [seen EXCEPT !.sel = "READY"] ELSE seen

\* Wrong variant: an answer for a connection that is not enabled is dropped.
AnswerDropped(k, said, auth, outcome) ==
  /\ check[k].state = "CHECKING" /\ Authenticates(check[k].by)
  /\ conn[check[k].conn].state = "ENABLED"
  /\ check' = [check EXCEPT ![k].state = "ERROR"]
  /\ UNCHANGED <<conn, rows, current, realRead, last, budget>>

\* apply_agent_health_result.  The agent's word on one certificate, or none; the
\* connection may have been disabled or archived meanwhile.  The binding's
\* capabilities are replaced, the thumbprints of its inventory with them.
ApplyAgentHealthResult(k, said, auth, outcome) ==
  LET b == check[k].by
      i == check[k].conn
      c == IF said = NoObservation THEN NoCert ELSE said[1]
      ready == c # NoCert /\ said[2] /\ conn[i].desired \in {NoCert, c}
      newRows == IF c = NoCert THEN rows
                 ELSE [rows EXCEPT ![b][c] = Append(@, IF ready THEN "READY" ELSE "NOT_READY")]
      newConn == IF c = NoCert THEN conn[i] ELSE Answered(conn[i], b, c, ready, newRows)
      o == newConn.observed
      certReady == o # NoObservation /\ newRows[o[1]][o[2]][o[3]] = "READY"
  IN /\ check[k].state = "CHECKING" /\ Authenticates(b)
     /\ c # NoCert => Len(rows[b][c]) < MaxRows
     /\ rows' = newRows
     /\ conn' = [conn EXCEPT ![i] = newConn]
     /\ current' = [current EXCEPT ![b] = {}]
     /\ check' = [check EXCEPT ![k].state =
                    IF outcome = "HEALTH_READY" /\ certReady /\ auth THEN "READY"
                    ELSE IF outcome \in {"HEALTH_READY", "HEALTH_DEGRADED"} /\ auth THEN "DEGRADED"
                    ELSE "ERROR"]
     /\ UNCHANGED <<realRead, last, budget>>

Answers == {NoObservation} \cup (Certs \X BOOLEAN)
Outcomes == {"HEALTH_READY", "HEALTH_DEGRADED", "HEALTH_FAILED"}

\* WindowsAgentExecutor._integration_health: the agent logs in only with a
\* certificate it could inspect, and answers READY or DEGRADED (the INN of the
\* certificate is unknown) exactly when the login succeeded.  Whether the
\* backend finds the certificate ready is the backend's own judgement.
HealthAnswer(said, auth, outcome) ==
  /\ auth => said # NoObservation
  /\ auth <=> outcome \in {"HEALTH_READY", "HEALTH_DEGRADED"}

CertNext ==
  \/ \E i \in Conns : CreateTrueApi(i)
  \/ \E i \in Conns, to \in {"ENABLED", "DISABLED", "ARCHIVED"} : Lifecycle(i, to)
  \/ \E i \in Conns, c \in Certs : SelectCertificate(i, c)
  \/ \E b \in Bindings, said \in [Certs -> {"ready", "bad", "absent"}], applied \in Certs \cup {NoCert} :
       RecordCertificateInventory(b, said, applied)
  \/ \E i \in Conns, k \in Checks : CheckTrueApi(i, k)
  \/ \E k \in Checks, said \in Answers, auth \in BOOLEAN, outcome \in Outcomes :
       HealthAnswer(said, auth, outcome) /\ ApplyAgentHealthResult(k, said, auth, outcome)

------------------------------------------------------------------------------
\* Properties

\* certificate_status answers ACTIVE_READY only for a certificate that the
\* primary agent's latest inventory found ready and had applied, through every
\* selection, health answer, change of agent and new connection in between.
ActiveReadyIsApplied ==
  CertificateStatus = "ACTIVE_READY"
    => \E i \in Live : /\ conn[i].desired = last.applied
                       /\ conn[i].desired \in last.ready

\* A health check that waits for the agent (_check_true_api) ends, unless the
\* agent was disabled or lost its credential: nothing else ends it, and while it
\* waits every other check of the connection is refused.
CheckEnds ==
  \A k \in Checks : check[k].state = "CHECKING"
    ~> check[k].state # "CHECKING" \/ ~Authenticates(check[k].by)

==============================================================================
