--------------------------- MODULE PrintDelivery ---------------------------
(* Print jobs, the encryption keys of agent bindings and the delivery of one *)
(* marking code to one agent: the backend half of printing.                  *)
(* services/printing.py, services/printing_sensitive_delivery.py and         *)
(* AgentBindingService.disable.  Every handler is one transaction; the       *)
(* agent routes commit also when the handler rejects the call.               *)
EXTENDS Naturals, Sequences, FiniteSets, FiniteSetsExt

CONSTANTS Jobs,          \* print jobs that may be created
          Kms,           \* marking codes
          Agents,        \* agent bindings, one process each
          MaxAttempts,   \* bound on the executions of one item
          MaxIssue,      \* print_delivery_max_issuance
          MaxKeys        \* bound on the key versions of one binding

ASSUME PrintDeliveryAssumption ==
    /\ MaxAttempts \in Nat \ {0}
    /\ MaxIssue \in Nat \ {0}
    /\ MaxKeys \in Nat \ {0}
    /\ "none" \notin Agents

VARIABLES job,      \* print_jobs.state
          printer,  \* the binding of print_jobs.printer_profile_id, or "none"
          item,     \* print_job_items.state
          exec,     \* print_executions
          res,      \* print_payload_delivery_reservations
          acked,    \* executions in the order of payload_delivered_at
          keys,     \* agent_binding_encryption_keys.state
          intents,  \* pending print_encryption_key_intents
          binding,  \* agent_bindings.state
          lapsed    \* live reservations past expires_at, retiring keys past their TTL

backend == <<job, printer, item, exec, res, acked, keys, intents, binding, lapsed>>

----------------------------------------------------------------------------
(* Rows.  A job item is a job and a code; an execution is an attempt at it.  *)

Items == Jobs \X Kms
Executions == Jobs \X Kms \X (1 .. MaxAttempts)
ItemOf(e) == <<e[1], e[2]>>
AttemptsAt(i) == {<<i[1], i[2], n>> : n \in 1 .. MaxAttempts}
ItemsOf(j) == {i \in {j} \X Kms : item[i] # "NONE"}
Versions == 1 .. MaxKeys

Terminal == {"SPOOLER_ACCEPTED", "FAILED_PRE_SPOOL", "BLOCKED",
             "UNKNOWN_AFTER_SPOOL"}
PreSpoolIssuable == {"PAYLOAD_AVAILABLE", "PAYLOAD_ISSUED"}
Nonterminal == PreSpoolIssuable \cup {"PAYLOAD_DELIVERED", "RENDERED_VERIFIED",
                                      "SPOOL_SUBMITTING", "SPOOL_JOB_CREATED"}
Live == {"AVAILABLE", "ISSUED"}

NoExecution == [state |-> "NONE", agent |-> "none", boundary |-> FALSE, winjob |-> 0]
NoReservation == [state |-> "NONE", count |-> 0, key |-> 0]

DeliveryInit ==
    /\ job = [j \in Jobs |-> "NONE"]
    /\ printer = [j \in Jobs |-> "none"]
    /\ item = [i \in Items |-> "NONE"]
    /\ exec = [e \in Executions |-> NoExecution]
    /\ res = [e \in Executions |-> NoReservation]
    /\ acked = <<>>
    /\ keys = [a \in Agents |-> [v \in Versions |-> "NONE"]]
    /\ intents = {}
    /\ binding = [a \in Agents |-> "ACTIVE"]
    /\ lapsed = {}

----------------------------------------------------------------------------
(* Print jobs.                                                               *)

\* create_print_job: a job with one pending item for each code.  A printer
\* profile belongs to one binding; a job may name none.
CreatePrintJob(j, codes, p) ==
    /\ job[j] = "NONE"
    /\ codes # {}
    /\ job' = [job EXCEPT ![j] = "READY_FOR_AGENT"]
    /\ printer' = [printer EXCEPT ![j] = p]
    /\ item' = [i \in Items |-> IF i \in {j} \X codes THEN "PENDING" ELSE item[i]]
    /\ UNCHANGED <<exec, res, acked, keys, intents, binding, lapsed>>

\* reprint: a new job for the codes of a job whose completion event exists.
Reprint(original, j) ==
    /\ job[original] = "COMPLETED"
    /\ CreatePrintJob(j, {i[2] : i \in ItemsOf(original)}, printer[original])

\* explicit_reprint_unknown, with acknowledge_duplicate_risk.
ExplicitReprintUnknown(e, j) ==
    /\ exec[e].state = "UNKNOWN_AFTER_SPOOL"
    /\ printer[e[1]] # "none"
    /\ CreatePrintJob(j, {e[2]}, printer[e[1]])

----------------------------------------------------------------------------
(* Encryption keys of a binding.                                             *)

KeysIn(a, states) == {v \in Versions : keys[a][v] \in states}
ActiveKeys(a) == KeysIn(a, {"ACTIVE"})
BoundLive(a, vs) ==
    {e \in Executions : res[e].state \in Live /\ exec[e].agent = a /\ res[e].key \in vs}

NextVersion(a) == Max({v \in Versions : keys[a][v] # "NONE"} \cup {0}) + 1

\* create_key_intent; MaxKeys bounds it too.
CreateKeyIntent(a, purpose) ==
    /\ binding[a] = "ACTIVE"
    /\ NextVersion(a) <= MaxKeys
    /\ (purpose = "FIRST_REGISTRATION") <=> (ActiveKeys(a) = {})
    /\ intents' = intents \cup
          {[agent |-> a, purpose |-> purpose, base |-> Max(ActiveKeys(a) \cup {0})]}
    /\ UNCHANGED <<job, printer, item, exec, res, acked, keys, binding, lapsed>>

\* A lapsed intent is marked EXPIRED when it is presented.
IntentExpires(t) ==
    /\ t \in intents
    /\ intents' = intents \ {t}
    /\ UNCHANGED <<job, printer, item, exec, res, acked, keys, binding, lapsed>>

\* Wrong variant: the reservations of a dead key stay live.
RevokedReservationsForgotten(gone) == res

\* _revoke_key_reservations, as the new rows.
RevokedReservations(gone) ==
    [e \in Executions |-> IF e \in gone THEN [res[e] EXCEPT !.state = "REVOKED"]
                                        ELSE res[e]]
RevokedExecutions(gone) ==
    [e \in Executions |-> IF e \in gone /\ exec[e].state \in Nonterminal
                          THEN [exec[e] EXCEPT !.state = "BLOCKED"]
                          ELSE exec[e]]

\* register_public_key: the base must still be the active key.
RegisterPublicKey(a, t) ==
    LET gone == IF t.purpose = "REPLACE_LOST" THEN BoundLive(a, ActiveKeys(a)) ELSE {}
        old == IF t.purpose = "REPLACE_LOST" THEN "REVOKED" ELSE "RETIRING"
    IN  /\ binding[a] = "ACTIVE"
        /\ t \in intents /\ t.agent = a
        /\ t.base = Max(ActiveKeys(a) \cup {0})
        /\ NextVersion(a) <= MaxKeys
        /\ keys' = [keys EXCEPT ![a] =
               [v \in Versions |-> CASE v \in ActiveKeys(a) -> old
                                     [] v = NextVersion(a) -> "ACTIVE"
                                     [] OTHER -> keys[a][v]]]
        /\ res' = RevokedReservations(gone)
        /\ exec' = RevokedExecutions(gone)
        /\ intents' = intents \ {t}
        /\ lapsed' = lapsed \ gone
        /\ UNCHANGED <<job, printer, item, acked, binding>>

----------------------------------------------------------------------------
(* Authorisation of a delivery, and the clock.                               *)

\* A reservation or a retiring key outlives print_delivery_reservation_ttl.
\* A key retires after its reservations were authorised, so it lapses last.
ReservationLapses(e) ==
    /\ res[e].state \in Live /\ e \notin lapsed
    /\ lapsed' = lapsed \cup {e}
    /\ UNCHANGED <<job, printer, item, exec, res, acked, keys, intents, binding>>

RetiringKeyLapses(a, v) ==
    /\ keys[a][v] = "RETIRING" /\ <<a, v>> \notin lapsed
    /\ BoundLive(a, {v}) \subseteq lapsed
    /\ lapsed' = lapsed \cup {<<a, v>>}
    /\ UNCHANGED <<job, printer, item, exec, res, acked, keys, intents, binding>>

\* revoke_expired_retiring_keys: the key versions it revokes.
ExpiredRetiring(a) == {v \in KeysIn(a, {"RETIRING"}) : <<a, v>> \in lapsed}

\* No execution of the item is active (the ones revoked just before are not)
\* and none has crossed the spool boundary.
MayAttempt(i, gone) ==
    \A e \in AttemptsAt(i) :
        /\ exec[e].state \in Nonterminal => e \in gone
        /\ ~exec[e].boundary
        /\ exec[e].state \notin {"SPOOLER_ACCEPTED", "UNKNOWN_AFTER_SPOOL"}

Authorizable(i) == job[i[1]] = "READY_FOR_AGENT" /\ item[i] = "PENDING"

NextAttempt(i) ==
    Max({0} \cup {n \in 1 .. MaxAttempts : exec[<<i[1], i[2], n>>].state # "NONE"}) + 1

\* authorize_delivery: one new execution and its reservation.
AuthorizeDelivery(i, a) ==
    LET gone == BoundLive(a, ExpiredRetiring(a))
        e == <<i[1], i[2], NextAttempt(i)>>
    IN  /\ Authorizable(i)
        /\ binding[a] = "ACTIVE"
        /\ printer[i[1]] \in {a, "none"}
        /\ ActiveKeys(a) # {}
        /\ MayAttempt(i, gone)
        /\ NextAttempt(i) <= MaxAttempts
        /\ keys' = [keys EXCEPT ![a] =
               [v \in Versions |-> IF v \in ExpiredRetiring(a) THEN "REVOKED" ELSE @[v]]]
        /\ exec' = [RevokedExecutions(gone) EXCEPT ![e] =
               [NoExecution EXCEPT !.state = "PAYLOAD_AVAILABLE", !.agent = a]]
        /\ res' = [RevokedReservations(gone) EXCEPT ![e] =
               [state |-> "AVAILABLE", count |-> 0, key |-> Max(ActiveKeys(a))]]
        /\ lapsed' = lapsed \ (gone \cup {<<a, v>> : v \in ExpiredRetiring(a)})
        /\ UNCHANGED <<job, printer, item, acked, intents, binding>>

\* Wrong variant: an execution past the spool boundary is blocked like the others.
DisableBindingForgetsBoundary(a) ==
    LET gone == BoundLive(a, KeysIn(a, {"ACTIVE", "RETIRING"}))
    IN  /\ binding[a] = "ACTIVE"
        /\ binding' = [binding EXCEPT ![a] = "DISABLED"]
        /\ res' = RevokedReservations(gone)
        /\ exec' = [e \in Executions |->
               IF exec[e].agent = a /\ exec[e].state \in Nonterminal
               THEN [exec[e] EXCEPT !.state = "BLOCKED"]
               ELSE exec[e]]
        /\ keys' = [keys EXCEPT ![a] =
               [v \in Versions |-> IF @[v] \in {"ACTIVE", "RETIRING"} THEN "REVOKED"
                                                                     ELSE @[v]]]
        /\ lapsed' = lapsed \ (gone \cup ({a} \X Versions))
        /\ UNCHANGED <<job, printer, item, acked, intents>>

\* AgentBindingService.disable: reservations, executions and keys end here.
DisableBinding(a) ==
    LET own(e) == exec[e].agent = a
        gone == BoundLive(a, KeysIn(a, {"ACTIVE", "RETIRING"}))
    IN  /\ binding[a] = "ACTIVE"
        /\ binding' = [binding EXCEPT ![a] = "DISABLED"]
        /\ res' = RevokedReservations(gone)
        /\ exec' = [e \in Executions |->
               CASE own(e) /\ exec[e].state \in {"SPOOL_SUBMITTING", "SPOOL_JOB_CREATED"} ->
                        [exec[e] EXCEPT !.state = "UNKNOWN_AFTER_SPOOL"]
                 [] own(e) /\ exec[e].state \in Nonterminal
                                    \ {"SPOOL_SUBMITTING", "SPOOL_JOB_CREATED"} ->
                        [exec[e] EXCEPT !.state = "BLOCKED"]
                 [] OTHER -> exec[e]]
        /\ keys' = [keys EXCEPT ![a] =
               [v \in Versions |-> IF @[v] \in {"ACTIVE", "RETIRING"} THEN "REVOKED"
                                                                     ELSE @[v]]]
        /\ lapsed' = lapsed \ (gone \cup ({a} \X Versions))
        /\ UNCHANGED <<job, printer, item, acked, intents>>

----------------------------------------------------------------------------
(* The agent's delivery calls.                                               *)

\* next_control: what the delivery queue offers.  authorized_at orders the
\* queue; the model offers any of its rows.
Offered(a) == {e \in Executions :
    /\ exec[e].agent = a
    /\ res[e].state \in Live
    /\ e \notin lapsed
    /\ res[e].count < MaxIssue}

\* issue, where the reservation ends instead.
IssueEnds(e) ==
    /\ res[e].state \in Live
    /\ e \in lapsed \/ res[e].count >= MaxIssue
    /\ res' = [res EXCEPT ![e].state = IF e \in lapsed THEN "EXPIRED" ELSE "BLOCKED"]
    /\ lapsed' = lapsed \ {e}
    /\ UNCHANGED <<job, printer, item, exec, acked, keys, intents, binding>>

\* issue, where the code is decrypted and sealed for the bound key.
MayIssue(e) ==
    /\ res[e].state \in Live
    /\ e \notin lapsed
    /\ res[e].count < MaxIssue
    /\ exec[e].state \in PreSpoolIssuable
    /\ keys[exec[e].agent][res[e].key] \in {"ACTIVE", "RETIRING"}

Issue(e) ==
    /\ MayIssue(e)
    /\ res' = [res EXCEPT ![e].state = "ISSUED", ![e].count = @ + 1]
    /\ exec' = [exec EXCEPT ![e].state = "PAYLOAD_ISSUED"]
    /\ UNCHANGED <<job, printer, item, acked, keys, intents, binding, lapsed>>

\* Wrong variant: the reservation's state is not looked at.
AcknowledgeAnyState(e) ==
    /\ res' = [res EXCEPT ![e].state = "ACKNOWLEDGED"]
    /\ exec' = [exec EXCEPT ![e].state = "PAYLOAD_DELIVERED"]
    /\ acked' = Append(acked, e)
    /\ lapsed' = lapsed \ {e}
    /\ UNCHANGED <<job, printer, item, keys, intents, binding>>

\* acknowledge with the right hashes; a replay of it is only answered.
Acknowledge(e) ==
    \/ /\ res[e].state = "ACKNOWLEDGED"
       /\ UNCHANGED backend
    \/ /\ res[e].state = "ISSUED"
       /\ res' = [res EXCEPT ![e].state = "ACKNOWLEDGED"]
       /\ exec' = [exec EXCEPT ![e].state = "PAYLOAD_DELIVERED"]
       /\ acked' = Append(acked, e)
       /\ lapsed' = lapsed \ {e}
       /\ UNCHANGED <<job, printer, item, keys, intents, binding>>

\* acknowledge with a wrong hash: the execution fails, the item does not.
AcknowledgeMismatch(e) ==
    /\ res[e].state = "ISSUED"
    /\ res' = [res EXCEPT ![e].state = "BLOCKED"]
    /\ exec' = [exec EXCEPT ![e].state = "FAILED_PRE_SPOOL"]
    /\ lapsed' = lapsed \ {e}
    /\ UNCHANGED <<job, printer, item, acked, keys, intents, binding>>

=============================================================================
