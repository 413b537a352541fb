---------------------------- MODULE PrintSpool ----------------------------
(* Physical printing: the backend's PhysicalPrintingService, the agent's     *)
(* PhysicalPrintRuntime with its durable replay ledger, and Windows, around  *)
(* the deliveries of PrintDelivery.  An agent is one process that holds one  *)
(* code in memory at a time; a crash, a lost answer or a refused call ends   *)
(* its run and the code in memory is gone.                                   *)
EXTENDS PrintDelivery

CONSTANT Faults    \* which faults happen, of PossibleFaults

PossibleFaults == {"crash", "lose", "lapse", "corrupt", "printer", "disable", "rekey"}

ASSUME PrintSpoolAssumption == Faults \subseteq PossibleFaults

VARIABLES ledger,    \* print_physical_replay.state, on the agent's disk
          localKey,  \* server_key_version in the agent's key file, 0: not bound
          run,       \* what the agent process is doing
          started    \* number of Windows spool jobs of an execution (history)

agentVars == <<ledger, localKey, run, started>>
vars == <<backend, agentVars>>

Irreversible == {"SPOOL_SUBMITTING", "SPOOL_JOB_CREATED", "SPOOLER_ACCEPTED",
                 "UNKNOWN_AFTER_SPOOL", "FAILED_PRE_SPOOL"}
Run(pc, e, verdict, doc) == [pc |-> pc, exec |-> e, verdict |-> verdict, doc |-> doc]
Idle == Run("idle", <<>>, "NONE", 0)

----------------------------------------------------------------------------
(* Backend handlers.  _graph asks for a printer profile of the execution's   *)
(* binding and an acknowledged reservation; its other checks (profile state, *)
(* hashes) can refuse a call at any time: see Call.                          *)

\* The agent's credential is accepted and the execution is its own.
Admitted(a, e) == binding[a] = "ACTIVE" /\ exec[e].agent = a

Graph(e) == printer[e[1]] = exec[e].agent /\ res[e].state = "ACKNOWLEDGED"

MayMarkRendered(e) ==
    exec[e].state = "PAYLOAD_DELIVERED" /\ Graph(e)

MarkRendered(e) ==
    /\ exec' = [exec EXCEPT ![e].state = "RENDERED_VERIFIED"]
    /\ item' = [item EXCEPT ![ItemOf(e)] = "RENDERED"]
    /\ UNCHANGED <<job, printer, res, acked, keys, intents, binding, lapsed>>

MayBeginSpool(e) ==
    exec[e].state = "RENDERED_VERIFIED" /\ Graph(e)

BeginSpool(e) ==
    /\ exec' = [exec EXCEPT ![e].state = "SPOOL_SUBMITTING", ![e].boundary = TRUE]
    /\ UNCHANGED <<job, printer, item, res, acked, keys, intents, binding, lapsed>>

\* report_result: the states a verdict may follow, and the spool job it names.
VerdictFollows ==
    [SPOOL_JOB_CREATED |-> {"SPOOL_SUBMITTING", "SPOOL_JOB_CREATED"},
     FAILED_PRE_SPOOL |-> {"PAYLOAD_DELIVERED", "RENDERED_VERIFIED", "SPOOL_SUBMITTING"},
     BLOCKED |-> {"PAYLOAD_DELIVERED", "RENDERED_VERIFIED"},
     UNKNOWN_AFTER_SPOOL |-> {"SPOOL_SUBMITTING", "SPOOL_JOB_CREATED"},
     SPOOLER_ACCEPTED |-> {"SPOOL_JOB_CREATED"}]

MayReport(e, verdict, doc) ==
    /\ Graph(e)
    /\ exec[e].state \in VerdictFollows[verdict]
    /\ CASE verdict \in {"SPOOL_JOB_CREATED", "UNKNOWN_AFTER_SPOOL"} ->
                exec[e].winjob \in {0, doc}
         [] verdict = "FAILED_PRE_SPOOL" -> doc = 0 /\ exec[e].winjob = 0
         [] verdict = "BLOCKED" -> ~exec[e].boundary /\ exec[e].winjob = 0
         [] verdict = "SPOOLER_ACCEPTED" -> exec[e].winjob = doc

ItemVerdict == [FAILED_PRE_SPOOL |-> "FAILED", BLOCKED |-> "BLOCKED",
                UNKNOWN_AFTER_SPOOL |-> "BLOCKED", SPOOLER_ACCEPTED |-> "COMPLETED"]

\* Wrong variant: the job completes with its first item.
JobVerdictTooEarly(j, verdict) ==
    CASE verdict = "FAILED_PRE_SPOOL" -> "FAILED"
      [] verdict \in {"BLOCKED", "UNKNOWN_AFTER_SPOOL"} -> "BLOCKED"
      [] OTHER -> "COMPLETED"

\* The job fails with its item and completes with its last item.
JobVerdict(j, verdict) ==
    CASE verdict = "FAILED_PRE_SPOOL" -> "FAILED"
      [] verdict \in {"BLOCKED", "UNKNOWN_AFTER_SPOOL"} -> "BLOCKED"
      [] OTHER -> IF \A i \in ItemsOf(j) : item'[i] = "COMPLETED" THEN "COMPLETED"
                                                                 ELSE job[j]

ReportResult(e, verdict, doc) ==
    /\ exec' = [exec EXCEPT ![e].state = verdict, ![e].winjob = IF doc = 0 THEN @ ELSE doc]
    /\ IF verdict = "SPOOL_JOB_CREATED"
       THEN UNCHANGED <<job, item>>
       ELSE /\ item' = [item EXCEPT ![ItemOf(e)] = ItemVerdict[verdict]]
            /\ job' = [job EXCEPT ![e[1]] = JobVerdict(e[1], verdict)]
    /\ UNCHANGED <<printer, res, acked, keys, intents, binding, lapsed>>

\* A call of the agent: the handler answers, or its answer is lost, or the
\* call is refused or never arrives.  The agent sees all but the first alike.
Call(may, handler, answered, failed) ==
    \/ may /\ handler /\ answered
    \/ may /\ handler /\ failed /\ "lose" \in Faults
    \/ UNCHANGED backend /\ failed /\ (~may \/ "lose" \in Faults)

----------------------------------------------------------------------------
(* The agent's key file.                                                     *)

\* AgentPrintKeyStore.generate overwrites the file; nothing is bound yet.
GenerateKey(a) ==
    /\ \E t \in intents : t.agent = a
    /\ localKey[a] # 0
    /\ localKey' = [localKey EXCEPT ![a] = 0]
    /\ UNCHANGED <<backend, ledger, run, started>>

\* register, then bind_server_version if the answer arrives.
RegisterKey(a, t) ==
    /\ localKey[a] = 0
    /\ RegisterPublicKey(a, t)
    /\ localKey' \in {[localKey EXCEPT ![a] = NextVersion(a)]}
                        \cup (IF "lose" \in Faults THEN {localKey} ELSE {})
    /\ UNCHANGED <<ledger, run, started>>

----------------------------------------------------------------------------
(* One run of the agent, in the order of the code.                           *)

At(a, pc) == run[a].pc = pc
Goto(a, pc) == run' = [run EXCEPT ![a].pc = pc]
Stop(a) == run' = [run EXCEPT ![a] = Idle]
Start(a, e, pc) == run' = [run EXCEPT ![a] = Run(pc, e, "NONE", 0)]
Conclude(a, e, verdict, doc) == run' = [run EXCEPT ![a] = Run("verdict", e, verdict, doc)]
Record(e, state) == ledger' = [ledger EXCEPT ![e] = state]

FetchDelivery(a) ==
    /\ At(a, "idle") /\ binding[a] = "ACTIVE"
    /\ \E e \in Offered(a) : Start(a, e, "offered")
    /\ UNCHANGED <<backend, ledger, localKey, started>>

\* issue, and open_verify_ack_then_consume up to the ACK: only the bound key
\* opens the envelope.  A lost answer may be retried on the same reservation.
RequestPayload(a) ==
    LET e == run[a].exec
    IN  /\ At(a, "offered")
        /\ \/ /\ Admitted(a, e) /\ Issue(e)
              /\ \/ localKey[a] = res[e].key /\ Goto(a, "opened")
                 \/ localKey[a] # res[e].key /\ Stop(a)
                 \/ "lose" \in Faults /\ UNCHANGED run
           \/ Admitted(a, e) /\ IssueEnds(e) /\ Stop(a)
           \/ /\ "lose" \in Faults \/ ~(Admitted(a, e) /\ res[e].state \in Live)
              /\ UNCHANGED backend /\ Stop(a)
        /\ UNCHANGED <<ledger, localKey, started>>

\* The acknowledge callback; it may be repeated while the code is in memory.
SendAck(a) ==
    LET e == run[a].exec
    IN  /\ At(a, "opened")
        /\ \/ Admitted(a, e) /\ Acknowledge(e) /\ Goto(a, "delivered")
           \/ Admitted(a, e) /\ Acknowledge(e) /\ "lose" \in Faults
                             /\ (UNCHANGED run \/ Stop(a))
           \/ Admitted(a, e) /\ AcknowledgeMismatch(e) /\ "corrupt" \in Faults /\ Stop(a)
           \/ /\ \/ "lose" \in Faults
                 \/ ~Admitted(a, e)
                 \/ res[e].state \notin {"ISSUED", "ACKNOWLEDGED"}
              /\ UNCHANGED backend /\ Stop(a)
        /\ UNCHANGED <<ledger, localKey, started>>

\* next_control: where the binding's delivered executions with a printer
\* profile are in the order of delivery.
Renderable(a) == {n \in DOMAIN acked : /\ exec[acked[n]].agent = a
                                       /\ exec[acked[n]].state = "PAYLOAD_DELIVERED"
                                       /\ printer[acked[n][1]] # "none"}

\* next_control and render_contract.  The control is for the oldest delivered
\* execution, which may not be the one whose code is in memory.
Control(a) == acked[Min(Renderable(a))]
HasControl(a) == binding[a] = "ACTIVE" /\ Renderable(a) # {}
SameCode(a) == run[a].exec[2] = Control(a)[2]

NoControl(a) ==
    /\ At(a, "delivered") /\ ~HasControl(a)
    /\ Stop(a)
    /\ UNCHANGED <<backend, ledger, localKey, started>>

\* Every check holds and the render is recorded, unless the boundary was crossed.
Render(a) ==
    /\ At(a, "delivered") /\ HasControl(a) /\ SameCode(a)
    /\ IF ledger[Control(a)] \in Irreversible
       THEN UNCHANGED ledger /\ Stop(a)
       ELSE Record(Control(a), "RENDERED_VERIFIED") /\ Start(a, Control(a), "rendered")
    /\ UNCHANGED <<backend, localKey, started>>

\* execute's handler for the errors raised before the boundary.
RenderFails(a) ==
    /\ At(a, "delivered") /\ HasControl(a)
    /\ \E verdict \in {"FAILED_PRE_SPOOL", "BLOCKED"} :
         /\ IF SameCode(a) THEN "printer" \in Faults ELSE verdict = "BLOCKED"
         /\ IF ledger[Control(a)] \in Irreversible
            THEN UNCHANGED ledger /\ Stop(a)
            ELSE Record(Control(a), verdict) /\ Conclude(a, Control(a), verdict, 0)
    /\ UNCHANGED <<backend, localKey, started>>

CallMarkRendered(a) ==
    LET e == run[a].exec
    IN  /\ At(a, "rendered")
        /\ Call(Admitted(a, e) /\ MayMarkRendered(e), MarkRendered(e),
                Goto(a, "marked"), Stop(a))
        /\ UNCHANGED <<ledger, localKey, started>>

\* Wrong variant: the boundary is not written to disk.
CrossSpoolBoundaryUnrecorded(a) ==
    /\ At(a, "marked")
    /\ IF ledger[run[a].exec] = "RENDERED_VERIFIED" THEN Goto(a, "crossed") ELSE Stop(a)
    /\ UNCHANGED <<backend, ledger, localKey, started>>

\* cross_spool_boundary: the intent is durable before the backend is asked.
CrossSpoolBoundary(a) ==
    LET e == run[a].exec
    IN  /\ At(a, "marked")
        /\ IF ledger[e] = "RENDERED_VERIFIED"
           THEN Record(e, "SPOOL_SUBMITTING") /\ Goto(a, "crossed")
           ELSE UNCHANGED ledger /\ Stop(a)
        /\ UNCHANGED <<backend, localKey, started>>

CallBeginSpool(a) ==
    LET e == run[a].exec
    IN  /\ At(a, "crossed")
        /\ Call(Admitted(a, e) /\ MayBeginSpool(e), BeginSpool(e),
                Goto(a, "spooling"), Stop(a))
        /\ UNCHANGED <<ledger, localKey, started>>

\* DefinitePreSpoolFailure: no spool job exists.
SpoolFails(a) ==
    /\ At(a, "spooling") /\ "printer" \in Faults
    /\ Record(run[a].exec, "FAILED_PRE_SPOOL")
    /\ Conclude(a, run[a].exec, "FAILED_PRE_SPOOL", 0)
    /\ UNCHANGED <<backend, localKey, started>>

\* Another error of the second resolve leaves execute as it is.
ResolveRaises(a) ==
    /\ At(a, "spooling") /\ "printer" \in Faults
    /\ Stop(a)
    /\ UNCHANGED <<backend, ledger, localKey, started>>

\* StartDoc returns a positive job id.
StartDoc(a) ==
    LET e == run[a].exec
    IN  /\ At(a, "spooling")
        /\ started' = [started EXCEPT ![e] = @ + 1]
        /\ run' = [run EXCEPT ![a] = Run("started", e, "NONE", started[e] + 1)]
        /\ UNCHANGED <<backend, ledger, localKey>>

\* on_job_created: the ledger first, then the backend.
RecordJobCreated(a) ==
    /\ At(a, "started")
    /\ Record(run[a].exec, "SPOOL_JOB_CREATED")
    /\ Goto(a, "created")
    /\ UNCHANGED <<backend, localKey, started>>

CallJobCreated(a) ==
    LET e == run[a].exec
    IN  /\ At(a, "created")
        /\ Call(Admitted(a, e) /\ MayReport(e, "SPOOL_JOB_CREATED", run[a].doc),
                ReportResult(e, "SPOOL_JOB_CREATED", run[a].doc),
                Goto(a, "feeding"), Goto(a, "ambiguous"))
        /\ UNCHANGED <<ledger, localKey, started>>

\* Wrong variant: a document that failed half way is started again.
RecordOutcomeRetries(a, verdict) ==
    /\ \/ At(a, "feeding") /\ (verdict = "SPOOLER_ACCEPTED" \/ "printer" \in Faults)
       \/ At(a, "ambiguous") /\ verdict = "UNKNOWN_AFTER_SPOOL"
    /\ Record(run[a].exec, verdict)
    /\ IF verdict = "UNKNOWN_AFTER_SPOOL" THEN Goto(a, "spooling")
                                          ELSE Conclude(a, run[a].exec, verdict, run[a].doc)
    /\ UNCHANGED <<backend, localKey, started>>

\* StartPage, the raster, EndPage and EndDoc, then the outcome on disk.  The
\* ledger's SPOOL_JOB_CREATED, repeated before the outcome, changes nothing.
RecordOutcome(a, verdict) ==
    /\ \/ At(a, "feeding") /\ (verdict = "SPOOLER_ACCEPTED" \/ "printer" \in Faults)
       \/ At(a, "ambiguous") /\ verdict = "UNKNOWN_AFTER_SPOOL"
    /\ Record(run[a].exec, verdict)
    /\ Conclude(a, run[a].exec, verdict, run[a].doc)
    /\ UNCHANGED <<backend, localKey, started>>

CallReportResult(a) ==
    LET e == run[a].exec
    IN  /\ At(a, "verdict")
        /\ Call(Admitted(a, e) /\ MayReport(e, run[a].verdict, run[a].doc),
                ReportResult(e, run[a].verdict, run[a].doc), Stop(a), Stop(a))
        /\ UNCHANGED <<ledger, localKey, started>>

\* The process dies; the ledger, the key file and Windows stay.
Crash(a) ==
    /\ "crash" \in Faults /\ ~At(a, "idle")
    /\ Stop(a)
    /\ UNCHANGED <<backend, ledger, localKey, started>>

----------------------------------------------------------------------------

AgentStep(a) ==
    \/ FetchDelivery(a) \/ RequestPayload(a) \/ SendAck(a)
    \/ NoControl(a) \/ Render(a) \/ RenderFails(a) \/ CallMarkRendered(a)
    \/ CrossSpoolBoundary(a) \/ CallBeginSpool(a) \/ SpoolFails(a) \/ ResolveRaises(a)
    \/ StartDoc(a) \/ RecordJobCreated(a) \/ CallJobCreated(a)
    \/ \E verdict \in {"SPOOLER_ACCEPTED", "UNKNOWN_AFTER_SPOOL"} : RecordOutcome(a, verdict)
    \/ CallReportResult(a)

KeyStep(a) ==
    \/ GenerateKey(a)
    \/ \E t \in intents : RegisterKey(a, t)

Operator ==
    /\ \/ \E j \in Jobs : \E codes \in SUBSET Kms, p \in Agents \cup {"none"} :
             CreatePrintJob(j, codes, p)
       \/ \E o, j \in Jobs : Reprint(o, j)
       \/ \E e \in Executions : \E j \in Jobs : ExplicitReprintUnknown(e, j)
       \/ \E i \in Items, a \in Agents : AuthorizeDelivery(i, a)
       \/ \E a \in Agents : CreateKeyIntent(a, "FIRST_REGISTRATION")
       \/ /\ "rekey" \in Faults
          /\ \E a \in Agents, p \in {"ROTATE", "REPLACE_LOST"} : CreateKeyIntent(a, p)
       \/ "disable" \in Faults /\ \E a \in Agents : DisableBinding(a)
    /\ UNCHANGED agentVars

Clock ==
    /\ "lapse" \in Faults
    /\ \/ \E e \in Executions : ReservationLapses(e)
       \/ \E a \in Agents, v \in Versions : RetiringKeyLapses(a, v)
       \/ \E t \in intents : IntentExpires(t)
    /\ UNCHANGED agentVars

Init ==
    /\ DeliveryInit
    /\ ledger = [e \in Executions |-> "NONE"]
    /\ localKey = [a \in Agents |-> 0]
    /\ run = [a \in Agents |-> Idle]
    /\ started = [e \in Executions |-> 0]

Next ==
    \/ \E a \in Agents : AgentStep(a) \/ KeyStep(a) \/ Crash(a)
    \/ Operator
    \/ Clock

Spec == Init /\ [][Next]_vars

----------------------------------------------------------------------------
(* Properties.                                                               *)

PCs == {"idle", "offered", "opened", "delivered", "rendered", "marked", "crossed",
        "spooling", "started", "created", "feeding", "ambiguous", "verdict"}

\* Type invariant: rows, ledger and process records have the states the code's
\* tables and check constraints allow.
TypeOK ==
    /\ job \in [Jobs -> {"NONE", "READY_FOR_AGENT", "FAILED", "BLOCKED", "COMPLETED"}]
    /\ printer \in [Jobs -> Agents \cup {"none"}]
    /\ item \in [Items -> {"NONE", "PENDING", "RENDERED", "FAILED", "BLOCKED", "COMPLETED"}]
    /\ exec \in [Executions -> [state : {"NONE"} \cup Nonterminal \cup Terminal,
                                agent : Agents \cup {"none"},
                                boundary : BOOLEAN, winjob : Nat]]
    /\ res \in [Executions -> [state : {"NONE", "ACKNOWLEDGED", "EXPIRED", "BLOCKED",
                                        "REVOKED"} \cup Live,
                               count : 0 .. MaxIssue, key : 0 .. MaxKeys]]
    /\ acked \in Seq(Executions)
    /\ keys \in [Agents -> [Versions -> {"NONE", "ACTIVE", "RETIRING", "REVOKED"}]]
    /\ intents \subseteq [agent : Agents,
                          purpose : {"FIRST_REGISTRATION", "ROTATE", "REPLACE_LOST"},
                          base : 0 .. MaxKeys]
    /\ binding \in [Agents -> {"ACTIVE", "DISABLED"}]
    /\ lapsed \subseteq Executions \cup (Agents \X Versions)
    /\ ledger \in [Executions -> {"NONE", "RENDERED_VERIFIED", "BLOCKED"} \cup Irreversible]
    /\ localKey \in [Agents -> 0 .. MaxKeys]
    /\ started \in [Executions -> Nat]
    /\ run \in [Agents -> [pc : PCs, exec : Executions \cup {<<>>},
                           verdict : Terminal \cup {"NONE"}, doc : Nat]]

\* The Windows spool jobs of an item, numbered within an execution.
LabelsOf(i) == UNION {{e} \X (1 .. started[e]) : e \in AttemptsAt(i)}

\* One item never becomes two Windows spool jobs, whatever crashes, lost
\* answers, disabled bindings, replaced keys and new attempts happen
\* ("One PrintJobItem maps to one Windows spool job").
OneLabelPerItem == \A i \in Items : Cardinality(LabelsOf(i)) <= 1

\* The backend's verdict agrees with Windows: FAILED_PRE_SPOOL and BLOCKED mean
\* that no spool job exists, SPOOLER_ACCEPTED names the one that does.
VerdictsMatchSpooler ==
    \A e \in Executions :
        /\ exec[e].state \in {"FAILED_PRE_SPOOL", "BLOCKED"} => started[e] = 0
        /\ exec[e].state = "SPOOLER_ACCEPTED" => started[e] = 1 /\ exec[e].winjob = 1

\* A job is COMPLETED, which licenses its reprint, exactly when Windows has
\* accepted one label for each of its items: verdicts of other items, in any
\* order, neither fake the completion nor take it back.
CompletedJobIsPrinted ==
    \A j \in {jj \in Jobs : job[jj] # "NONE"} :
        job[j] = "COMPLETED" <=>
            \A i \in ItemsOf(j) :
                \E e \in AttemptsAt(i) : exec[e].state = "SPOOLER_ACCEPTED" /\ started[e] = 1

\* A code that may still be disclosed to an agent belongs to an item that has
\* not reached the spooler and to a key that is not revoked: disable, key
\* replacement and new attempts leave no live reservation behind.
DisclosureStaysSafe ==
    \A e \in Executions : res[e].state \in Live =>
        /\ LabelsOf(ItemOf(e)) = {}
        /\ exec[e].state \in PreSpoolIssuable
        /\ keys[exec[e].agent][res[e].key] \in {"ACTIVE", "RETIRING"}

\* The agent's disk knows of every spool job before Windows does, and keeps
\* knowing: a restart finds an irreversible state and never prints again.
LedgerLeadsSpooler ==
    \A e \in Executions : started[e] > 0 => ledger[e] \in Irreversible \ {"FAILED_PRE_SPOOL"}

\* A concluded execution is immutable evidence: no late result, ACK, key
\* revocation or disable changes it.
ConcludedIsFinal ==
    [][\A e \in Executions : exec[e].state \in Terminal => exec'[e] = exec[e]]_vars

=============================================================================
