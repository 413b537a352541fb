----------------------------- MODULE KizControl -----------------------------
(***************************************************************************)
(* Imports, control results and bulk writes as concurrent transactions on  *)
(* one tenant's WB history.  The database runs READ COMMITTED: a statement *)
(* sees what is committed when it runs, and only the advisory locks on the *)
(* KIZ keep an import and a bulk write of the same code apart.             *)
(*                                                                         *)
(* src/wbcz_web/services/imports.py, workspace.py, kiz_transaction_lock.py *)
(* src/wbcz_web/services/agent_orchestration.py, document_orchestration.py *)
(***************************************************************************)
EXTENDS ControlDecision, Integers, FiniteSets

CONSTANTS
    Kizzes,        \* marking codes, numbered in the order sorted() puts them
    Events,        \* WB events that may be imported
    KizOf,         \* the code of an event
    FactsOf,       \* its EventFacts
    Assemblable,   \* events for which build_exact can make a document
    Files,         \* the workbooks that may be imported, as sets of events
    MaxControls,   \* bound: control runs in one behaviour
    Txns,          \* request handlers that may run at the same time
    NoTxn          \* nobody holds the lock

ASSUME KizzesAssumption == Kizzes \subseteq Nat
ASSUME EventsAssumption == /\ KizOf \in [Events -> Kizzes]
                           /\ FactsOf \in [Events -> EventFacts]
                           /\ Assemblable \subseteq Events
                           /\ Files \subseteq SUBSET Events
ASSUME MaxControlsAssumption == MaxControls \in Nat
ASSUME NoTxnAssumption == NoTxn \notin Txns

VARIABLES
    history,   \* committed EventRecord rows
    checks,    \* latest committed CheckRecord per event: decision and source
    writes,    \* write operation per event: "NONE", "AWAITING" or "ADVANCED"
    asked,     \* events with a control read queued for the agent
    controls,  \* control runs so far
    locks,     \* advisory locks: Kizzes -> Txns \cup {NoTxn}
    txn        \* per handler: where it is and what it has not committed yet

vars == <<history, checks, writes, asked, controls, locks, txn>>

Decisions == {"NONE", "MANUAL_REVIEW", "ERROR", "NO_ACTION", "ALREADY_DONE",
              "READY_TO_WITHDRAW", "READY_TO_RETURN"}
NoCheck == [decision |-> "NONE", live |-> FALSE]

IdleTxn == [pc |-> "idle", kind |-> "none", file |-> {}, want |-> {},
            todo |-> {}, row |-> {}, rows |-> {}, ops |-> {}, review |-> {}]

(* A code of ours in circulation, or withdrawn by a distance sale. *)
Snapshot(status) ==
    [group |-> "LP", owner |-> "OWN", status |-> status, statusEx |-> "SAME",
     reason |-> IF status = "WITHDRAWN" THEN "DISTANCE" ELSE "EMPTY"]

Init ==
    /\ history = {}
    /\ checks = [e \in Events |-> NoCheck]
    /\ writes = [e \in Events |-> "NONE"]
    /\ asked = {}
    /\ controls = 0
    /\ locks = [k \in Kizzes |-> NoTxn]
    /\ txn = [t \in Txns |-> IdleTxn]

-----------------------------------------------------------------------------
(* History as a statement of handler t sees it: the committed rows and its
   own uncommitted ones. *)
HistoryOf(k, rows) == {x \in rows : KizOf[x] = k}

TimeOf == [x \in Events |-> FactsOf[x].time]

PolicyOutcome(e, rows) == SequenceOutcome(e, HistoryOf(KizOf[e], rows), TimeOf)

Ready(e) == checks[e].decision \in ReadyDecisions

Min(S) == CHOOSE x \in S : \A y \in S : x <= y

Release(t) == [k \in Kizzes |-> IF locks[k] = t THEN NoTxn ELSE locks[k]]

(* The request fails: everything of this transaction is rolled back. *)
Rollback(t) ==
    /\ txn' = [txn EXCEPT ![t] = IdleTxn]
    /\ locks' = Release(t)
    /\ UNCHANGED <<history, checks, writes, asked, controls>>

(* acquire_tenant_kiz_locks: one lock after the other, in sorted order. *)
AcquireLock(t) ==
    LET k == Min(txn[t].want) IN
    /\ txn[t].pc = "lock"
    /\ txn[t].want # {}
    /\ locks[k] = NoTxn
    /\ locks' = [locks EXCEPT ![k] = t]
    /\ txn' = [txn EXCEPT ![t].want = @ \ {k}]
    /\ UNCHANGED <<history, checks, writes, asked, controls>>

-----------------------------------------------------------------------------
(* FileImportService.import_xlsx *)

(* Wrong variant: the import takes no lock. *)
BeginImportUnlocked(t, f) ==
    /\ txn[t].pc = "idle"
    /\ txn' = [txn EXCEPT ![t] = [IdleTxn EXCEPT !.pc = "lock", !.kind = "import",
                                                 !.file = f]]
    /\ UNCHANGED <<history, checks, writes, asked, controls, locks>>

BeginImport(t, f) ==
    /\ txn[t].pc = "idle"
    /\ txn' = [txn EXCEPT ![t] = [IdleTxn EXCEPT !.pc = "lock", !.kind = "import",
                                                 !.file = f,
                                                 !.want = {KizOf[e] : e \in f}]]
    /\ UNCHANGED <<history, checks, writes, asked, controls, locks>>

(* event_exists, then insert: the rows stay invisible until the commit. *)
InsertRows(t) ==
    /\ txn[t].pc = "lock" /\ txn[t].kind = "import" /\ txn[t].want = {}
    /\ txn' = [txn EXCEPT ![t].pc = "commit",
                          ![t].rows = txn[t].file \ history]
    /\ UNCHANGED <<history, checks, writes, asked, controls, locks>>

-----------------------------------------------------------------------------
(* Control: AgentControlService.run, the agent's read, _apply_control_cis. *)

(* Events the sequence policy settles get their check at once; for the others
   a CIS read is queued. *)
RunControl(e) ==
    /\ e \in history
    /\ controls < MaxControls
    /\ controls' = controls + 1
    /\ LET policy == PolicyOutcome(e, history) IN
       IF policy # NoOutcome
       THEN /\ checks' = [checks EXCEPT ![e] = [decision |-> policy.decision,
                                                live |-> FALSE]]
            /\ UNCHANGED asked
       ELSE /\ asked' = asked \cup {e}
            /\ UNCHANGED checks
    /\ UNCHANGED <<history, writes, locks, txn>>

(* ControlService.run, the mock provider used when live reads are off: its
   checks look like the others but for their source. *)
MockControl(e) ==
    /\ e \in history
    /\ controls < MaxControls
    /\ controls' = controls + 1
    /\ \E st \in {"IN_CIRCULATION", "WITHDRAWN"} :
         LET policy == PolicyOutcome(e, history)
             d == IF policy # NoOutcome THEN policy.decision
                  ELSE Decide(FactsOf[e], Snapshot(st)).decision
         IN  checks' = [checks EXCEPT ![e] = [decision |-> d, live |-> FALSE]]
    /\ UNCHANGED <<history, writes, asked, locks, txn>>

(* The agent's result is in.  Anyone may change a code at any time, so the
   snapshot is any status; the policy is asked again, and a failed read or an
   unreadable result is an ERROR check for a single read and a MANUAL_REVIEW
   one in a batch.  No lock is taken here. *)
ApplyControl(e) ==
    LET policy == PolicyOutcome(e, history) IN
    /\ e \in asked
    /\ asked' = asked \ {e}
    /\ \E d \in (IF policy # NoOutcome THEN {policy.decision}
                 ELSE {Decide(FactsOf[e], Snapshot("IN_CIRCULATION")).decision,
                       Decide(FactsOf[e], Snapshot("WITHDRAWN")).decision,
                       "ERROR", "MANUAL_REVIEW"}) :
          checks' = [checks EXCEPT ![e] = [decision |-> d, live |-> TRUE]]
    /\ UNCHANGED <<history, writes, controls, locks, txn>>

-----------------------------------------------------------------------------
(* execute_bulk_actions *)

(* The locks are those of the rows that are READY when the request starts. *)
BeginBulk(t, f) ==
    /\ txn[t].pc = "idle"
    /\ f \subseteq history
    /\ txn' = [txn EXCEPT ![t] = [IdleTxn EXCEPT !.pc = "lock", !.kind = "bulk",
                                     !.file = f,
                                     !.want = {KizOf[e] : e \in {x \in f : Ready(x)}}]]
    /\ UNCHANGED <<history, checks, writes, asked, controls, locks>>

(* Every row that is READY now must be live and effective, or the whole batch
   is refused before anything is written. *)
Validate(t) ==
    /\ txn[t].pc = "lock" /\ txn[t].kind = "bulk" /\ txn[t].want = {}
    /\ IF \A e \in txn[t].file :
             Ready(e) => checks[e].live /\ PolicyOutcome(e, history) = NoOutcome
       THEN /\ txn' = [txn EXCEPT ![t].pc = "write", ![t].todo = txn[t].file]
            /\ UNCHANGED <<history, checks, writes, asked, controls, locks>>
       ELSE Rollback(t)

(* A row that needs nothing: not READY, or an operation exists already. *)
SkipRow(t, e) ==
    /\ txn[t].pc = "write" /\ e \in txn[t].todo
    /\ ~Ready(e) \/ writes[e] # "NONE"
    /\ txn' = [txn EXCEPT ![t].todo = @ \ {e}]
    /\ UNCHANGED <<history, checks, writes, asked, controls, locks>>

(* DocumentAssemblyManualReview: the check itself is downgraded. *)
AssemblyFails(t, e) ==
    /\ txn[t].pc = "write" /\ e \in txn[t].todo
    /\ Ready(e) /\ writes[e] = "NONE"
    /\ e \notin Assemblable
    /\ txn' = [txn EXCEPT ![t].todo = @ \ {e}, ![t].review = @ \cup {e}]
    /\ UNCHANGED <<history, checks, writes, asked, controls, locks>>

(* prepare_approved_write of a row that looked READY and new, up to its lock.
   The lock is already held unless the row became READY after the request
   began. *)
EnterPrepare(t, e) ==
    /\ txn[t].pc = "write" /\ e \in txn[t].todo
    /\ Ready(e) /\ writes[e] = "NONE"
    /\ e \in Assemblable
    /\ txn' = [txn EXCEPT ![t].pc = "wait", ![t].row = {e}]
    /\ UNCHANGED <<history, checks, writes, asked, controls, locks>>

(* Wrong variant: prepare_approved_write relies on the locks of the batch. *)
LockRowNot(t) ==
    /\ txn[t].pc = "wait"
    /\ txn' = [txn EXCEPT ![t].pc = "prepare"]
    /\ UNCHANGED <<history, checks, writes, asked, controls, locks>>

LockRow(t) ==
    /\ txn[t].pc = "wait"
    /\ \E e \in txn[t].row :
         /\ locks[KizOf[e]] \in {NoTxn, t}
         /\ locks' = [locks EXCEPT ![KizOf[e]] = t]
    /\ txn' = [txn EXCEPT ![t].pc = "prepare"]
    /\ UNCHANGED <<history, checks, writes, asked, controls>>

(* Wrong variant: the history is not looked at again under the lock. *)
PrepareWriteNoPolicy(t) ==
    /\ txn[t].pc = "prepare"
    /\ \E e \in txn[t].row :
         IF Ready(e) /\ checks[e].live /\ writes[e] # "ADVANCED"
         THEN /\ txn' = [txn EXCEPT ![t].pc = "write", ![t].row = {},
                            ![t].todo = @ \ {e},
                            ![t].ops = IF writes[e] = "NONE" THEN @ \cup {e} ELSE @]
              /\ UNCHANGED <<history, checks, writes, asked, controls, locks>>
         ELSE Rollback(t)

(* The rest of it, under the lock: latest check, source, decision and history
   are read again; an operation that already left AWAITING_SIGNATURE refuses
   the signing request.  Any refusal rolls the whole batch back. *)
PrepareWrite(t) ==
    /\ txn[t].pc = "prepare"
    /\ \E e \in txn[t].row :
         IF /\ Ready(e) /\ checks[e].live
            /\ PolicyOutcome(e, history) = NoOutcome
            /\ writes[e] # "ADVANCED"
         THEN /\ txn' = [txn EXCEPT ![t].pc = "write", ![t].row = {},
                            ![t].todo = @ \ {e},
                            ![t].ops = IF writes[e] = "NONE" THEN @ \cup {e} ELSE @]
              /\ UNCHANGED <<history, checks, writes, asked, controls, locks>>
         ELSE Rollback(t)

FinishBulk(t) ==
    /\ txn[t].pc = "write" /\ txn[t].todo = {}
    /\ txn' = [txn EXCEPT ![t].pc = "commit"]
    /\ UNCHANGED <<history, checks, writes, asked, controls, locks>>

(* The transaction commits; its advisory locks go with it. *)
Commit(t) ==
    /\ txn[t].pc = "commit"
    /\ history' = history \cup txn[t].rows
    /\ writes' = [e \in Events |-> IF e \in txn[t].ops THEN "AWAITING" ELSE writes[e]]
    /\ checks' = [e \in Events |-> IF e \in txn[t].review
                                   THEN [checks[e] EXCEPT !.decision = "MANUAL_REVIEW"]
                                   ELSE checks[e]]
    /\ locks' = Release(t)
    /\ txn' = [txn EXCEPT ![t] = IdleTxn]
    /\ UNCHANGED <<asked, controls>>

-----------------------------------------------------------------------------
(* A handler that needs a lock another one holds. *)
WaitsFor(t, u) ==
    /\ t # u
    /\ \/ txn[t].pc = "lock" /\ txn[t].want # {} /\ locks[Min(txn[t].want)] = u
       \/ txn[t].pc = "wait" /\ \E e \in txn[t].row : locks[KizOf[e]] = u

(* PostgreSQL breaks a cycle of waiting transactions by failing one. *)
DeadlockAbort(t) ==
    /\ \E S \in SUBSET Txns :
         t \in S /\ \A u \in S : \E v \in S : WaitsFor(u, v)
    /\ Rollback(t)

(* The write path takes the operation out of AWAITING_SIGNATURE. *)
Advance(e) ==
    /\ writes[e] = "AWAITING"
    /\ writes' = [writes EXCEPT ![e] = "ADVANCED"]
    /\ UNCHANGED <<history, checks, asked, controls, locks, txn>>

TxnStep(t) ==
    \/ AcquireLock(t)
    \/ InsertRows(t)
    \/ Validate(t)
    \/ \E e \in Events : SkipRow(t, e) \/ AssemblyFails(t, e) \/ EnterPrepare(t, e)
    \/ LockRow(t)
    \/ PrepareWrite(t)
    \/ FinishBulk(t)
    \/ Commit(t)
    \/ DeadlockAbort(t)

Next ==
    \/ \E t \in Txns, f \in Files : BeginImport(t, f) \/ BeginBulk(t, f)
    \/ \E t \in Txns : TxnStep(t)
    \/ \E e \in Events : RunControl(e) \/ MockControl(e) \/ ApplyControl(e) \/ Advance(e)

Spec == Init /\ [][Next]_vars

-----------------------------------------------------------------------------
(* Rows, locks and handlers have the shape the schema and the code give, and
   an advisory lock never outlives the transaction that took it
   (pg_advisory_xact_lock, not pg_advisory_lock). *)
TypeOK ==
    /\ history \subseteq Events
    /\ checks \in [Events -> [decision : Decisions, live : BOOLEAN]]
    /\ writes \in [Events -> {"NONE", "AWAITING", "ADVANCED"}]
    /\ asked \subseteq Events
    /\ controls \in Nat
    /\ locks \in [Kizzes -> Txns \cup {NoTxn}]
    /\ txn \in [Txns -> [pc : {"idle", "lock", "write", "wait", "prepare", "commit"},
                         kind : {"none", "import", "bulk"},
                         file : SUBSET Events, want : SUBSET Kizzes,
                         todo : SUBSET Events, row : SUBSET Events,
                         rows : SUBSET Events, ops : SUBSET Events,
                         review : SUBSET Events]]
    /\ \A k \in Kizzes, t \in Txns : locks[k] = t => txn[t].pc # "idle"

(* No write operation is created against the history: when the batch that
   creates it commits, its event is still the one that counts for its code,
   whatever was imported while the batch ran (prepare_approved_write re-reads
   the sequence under the KIZ lock that every import takes). *)
WritesFollowHistory ==
    [][\A e \in Events :
          writes[e] = "NONE" /\ writes'[e] # "NONE"
             => e \in history' /\ PolicyOutcome(e, history') = NoOutcome]_vars

(* Imports that run at the same time never insert the same event twice: what
   event_exists saw is still true at the commit. *)
ImportsNeverCollide ==
    /\ \A t \in Txns : txn[t].rows \cap history = {}
    /\ \A t, u \in Txns : t # u => txn[t].rows \cap txn[u].rows = {}

(* Two batches never create an operation for the same event. *)
BatchesNeverCollide ==
    /\ \A t \in Txns : \A e \in txn[t].ops : writes[e] = "NONE"
    /\ \A t, u \in Txns : t # u => txn[t].ops \cap txn[u].ops = {}
=============================================================================
