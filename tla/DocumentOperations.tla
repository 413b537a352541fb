-------------------------- MODULE DocumentOperations --------------------------
(***************************************************************************)
(* Turnover and aggregation operations from the first read to the verdict. *)
(* A caller reads codes and packages (M1 snapshots), has the precondition  *)
(* services check them, queues one document per operation id, learns the   *)
(* remote document id, reads the document's status through the document    *)
(* lifecycle service (M4), reads the codes again and reconciles.  The      *)
(* registry is outside this repository: it accepts or rejects a document   *)
(* and its effects on the codes become visible later, one by one.          *)
(***************************************************************************)
EXTENDS AggregationRules

CONSTANTS Units,       \* product codes
          Pack,        \* the one package code
          Ops,         \* operation ids
          Batches,     \* sequences of units a document may name
          Kinds,       \* op -> the operation kinds it may have
          Insides,     \* sets of units that may start inside the package
          Emissions,   \* emission types of the codes
          Causes,      \* return types, remarking causes, dropout reasons
          Quantity,    \* children the set's product card requires
          CallerRereads \* the caller reads the codes after the final status

DocStates == {"IN_PROGRESS", "CHECKED_OK", "CHECKED_NOT_OK", "PARSE_ERROR"}

ASSUME DocumentOperationsAssumption ==
    /\ Pack \notin Units /\ None \notin Units \cup {Pack} \cup Ops \cup DocStates
    /\ Kinds \in [Ops -> SUBSET (TurnoverKinds \cup AggregationKinds)]
    /\ Batches \subseteq Seq(Units)
    /\ CallerRereads \in BOOLEAN

VARIABLES reg,    \* the registry: code -> state
          ptype,  \* package type of Pack
          hist,   \* code -> history semantics recorded since the start
          snap,   \* code -> the caller's last snapshot, or None
          evid,   \* op -> prepared document with its evidence, or None
          led,    \* the ledger: op -> row, for the ops that have one
          jobs,   \* op -> documents enqueued for the agent
          doc,    \* op -> status of the remote document, or None
          todo,   \* op -> accepted effects that are not visible yet
          seen    \* op -> document status the caller has read, or None

documentVars == <<reg, ptype, hist, snap, evid, led, jobs, doc, todo, seen>>

Codes == Units \cup {Pack}
Kids(p) == {c \in Units : reg[c].parent = p}

\* A snapshot as it is read: fresh.
Look(c) == [cis |-> c, status |-> reg[c].status, ex |-> reg[c].ex,
            reason |-> reg[c].reason, emission |-> reg[c].emission,
            indi |-> reg[c].indi, ours |-> reg[c].ours, parent |-> reg[c].parent,
            pkg |-> IF c = Pack THEN ptype ELSE "UNIT", pg |-> "lp",
            tnved |-> "6109", kids |-> IF c = Pack THEN Kids(c) ELSE {}, fresh |-> TRUE]

States == {"RECONCILIATION_PENDING", "RECONCILED", "MANUAL_REVIEW"}

Document(kind, codes, old, cause, paid, primary, source) ==
    [kind |-> kind, codes |-> codes, old |-> old, cause |-> cause, paid |-> paid,
     primary |-> primary, source |-> source]

Affected(d) ==
    CodesOf(d) \cup (IF d.kind \in AggregationKinds THEN {Pack} ELSE {})

DocumentInit ==
    /\ ptype \in {"BOX", "SET", "ATK"}
    /\ \E e \in Emissions, st \in {"APPLIED", "INTRODUCED"}, inside \in Insides :
        \* Only packages that the registry's rules let form.
        /\ ptype = "ATK" /\ inside # {} => st = "APPLIED" /\ e = "FOREIGN"
        /\ ptype = "SET" /\ inside # {} =>
               IF st = "APPLIED" THEN e # "REMARK" ELSE e \in {"LOCAL", "REMAINS"}
        /\ reg = [c \in Codes |->
                 [status |-> IF c = Pack /\ inside = {}
                             THEN IF ptype = "SET" THEN "APPLIED" ELSE "ABSENT" ELSE st,
                  ex |-> None, reason |-> None, emission |-> e, indi |-> e = "LOCAL",
                  ours |-> TRUE, parent |-> IF c \in inside THEN Pack ELSE None]]
    /\ hist = [c \in Codes |-> {}]
    /\ snap = [c \in Codes |-> None]
    /\ evid = [o \in Ops |-> None]
    /\ led = << >>
    /\ jobs = [o \in Ops |-> <<>>]
    /\ doc = [o \in Ops |-> None]
    /\ todo = [o \in Ops |-> {}]
    /\ seen = [o \in Ops |-> None]

(***************************************************************************)
(* The caller's reads: all codes in one request before it validates an     *)
(* operation, code by code when it reconciles one.  Time passes: snapshots *)
(* outlive their age limit.  Bounds: a new attempt at an operation id is   *)
(* made only before its document exists, a second operation starts before  *)
(* the first is queued or after it is confirmed, and snapshots expire only *)
(* before the first operation.                                             *)
(***************************************************************************)
Preparing(o) == evid[o] = None /\ doc[o] = None

\* The service an id is used for, once it has a row.
SameService(o, kinds) == o \in DOMAIN led => led[o].d.kind \in kinds

ReadAll ==
    /\ \E o \in Ops : /\ Preparing(o) /\ o \notin DOMAIN led
                      /\ \A p \in DOMAIN led : seen[p] = "CHECKED_OK"
    /\ snap' = [c \in Codes |-> Look(c)]
    /\ UNCHANGED <<reg, ptype, hist, evid, led, jobs, doc, todo, seen>>

Read(c) ==
    /\ \E o \in DOMAIN led : /\ seen[o] = "CHECKED_OK"
                             /\ c \in Affected(led[o].d) \cup led[o].kids
    /\ snap' = [snap EXCEPT ![c] = Look(c)]
    /\ snap' # snap
    /\ UNCHANGED <<reg, ptype, hist, evid, led, jobs, doc, todo, seen>>

Expire ==
    /\ DOMAIN led = {} /\ \A o \in Ops : Preparing(o)
    /\ \E c \in Codes : snap[c] # None /\ snap[c].fresh
    /\ snap' = [c \in Codes |-> IF snap[c] = None THEN None
                                ELSE [snap[c] EXCEPT !.fresh = FALSE]]
    /\ UNCHANGED <<reg, ptype, hist, evid, led, jobs, doc, todo, seen>>

(***************************************************************************)
(* Validation: prepare the document, check the snapshots and build the     *)
(* evidence.  The evidence keeps the packages the codes were in.           *)
(***************************************************************************)
Evidence(d) ==
    [d |-> d, pre |-> [c \in Units |-> IF snap[c] = None THEN None ELSE snap[c].parent],
     kids |-> IF snap[Pack] = None THEN {} ELSE snap[Pack].kids]

ValidateTurnover(o, d) ==
    /\ Preparing(o) /\ SameService(o, TurnoverKinds)
    /\ d.kind \in TurnoverKinds \ {"CANCEL_WITHDRAWAL"}
    /\ Prepare(d) /\ Validate(d, snap)
    /\ evid' = [evid EXCEPT ![o] = Evidence(d)]
    /\ UNCHANGED <<reg, ptype, hist, snap, led, jobs, doc, todo, seen>>

\* The source withdrawal is ours, confirmed, and the last document sent.
ValidateCancel(o, source) ==
    /\ Preparing(o) /\ source # o /\ source \in DOMAIN led
    /\ "CANCEL_WITHDRAWAL" \in Kinds[o]
    /\ led[source].d.kind = "WITHDRAW_DISTANCE"
    /\ ValidateCancelWithdrawal(seen[source], TRUE,
           DOMAIN led \subseteq {o, source})
    /\ LET d == Document("CANCEL_WITHDRAWAL", led[source].d.codes, {}, None, None,
                         FALSE, source)
       IN /\ Prepare(d)
          /\ \A c \in CodesOf(d) : snap[c] # None /\ snap[c].fresh
          /\ evid' = [evid EXCEPT ![o] = Evidence(d)]
    /\ UNCHANGED <<reg, ptype, hist, snap, led, jobs, doc, todo, seen>>

Known(p) == IF p.status = "ABSENT" THEN None ELSE p

\* A new package is formed by a transport package or an ATK document, and a
\* package is of the type its document forms.
PackageFits(kind, p) ==
    /\ p.status = "ABSENT" => kind \in PackageForms \cup {"FORM_ATK"}
    /\ kind = "FORM_ATK" => p.status = "ABSENT" /\ ptype = "ATK"
    /\ kind \in PackageForms => ptype = "BOX"

ValidateAggregation(o, d) ==
    /\ Preparing(o) /\ SameService(o, AggregationKinds)
    /\ PrepareAggregation(d)
    /\ \A c \in Affected(d) : snap[c] # None /\ snap[c].fresh
    /\ PackageFits(d.kind, snap[Pack])
    /\ ValidateRelation(d.kind, Known(snap[Pack]), {snap[c] : c \in CodesOf(d)}, Quantity)
    /\ evid' = [evid EXCEPT ![o] = Evidence(d)]
    /\ UNCHANGED <<reg, ptype, hist, snap, led, jobs, doc, todo, seen>>

\* The inputs: documents of kinds K; a remark replaces one code or names none.
PlainDocuments(K) ==
    {Document(k, b, {}, None, None, FALSE, None) :
        k \in K \ (Returns \cup {"REMARK", "WRITE_OFF", "CANCEL_WITHDRAWAL"}), b \in Batches}

ReturnDocuments(K) ==
    {Document(k, b, {}, x, p, q, None) :
        k \in K \cap Returns, b \in Batches, x \in Causes, p \in {None} \cup BOOLEAN, q \in BOOLEAN}

WriteOffDocuments(K) ==
    {Document(k, b, {}, x, None, FALSE, None) :
        k \in K \cap {"WRITE_OFF"}, b \in Batches, x \in Causes}

Singles == {<<u>> : u \in Units}
Replaced == {{}} \cup {{u} : u \in Units}
RemarkDocuments(K) ==
    {Document(k, b, old, x, None, FALSE, None) :
        k \in K \cap {"REMARK"}, b \in Singles, old \in Replaced, x \in Causes}

Documents(K) ==
    PlainDocuments(K) \cup ReturnDocuments(K) \cup WriteOffDocuments(K) \cup RemarkDocuments(K)

(***************************************************************************)
(* queue_prevalidated.  A first call stores the row and enqueues the job;  *)
(* a later one with the same document answers from the row, one with       *)
(* another document is a conflict.  The evidence's age is not looked at.   *)
(***************************************************************************)
Row(e, restore) == [d |-> e.d, pre |-> e.pre, kids |-> e.kids,
                    state |-> "RECONCILIATION_PENDING", remote |-> None,
                    restore |-> restore]

Stored(o, row) == [p \in DOMAIN led \cup {o} |-> IF p = o THEN row ELSE led[p]]

\* What a cancelled withdrawal must restore: the source's state before it.
Restore(d) == IF d.kind = "CANCEL_WITHDRAWAL" THEN <<"INTRODUCED", None>> ELSE None

Unqueued == UNCHANGED <<reg, ptype, hist, snap, doc, todo, seen>>

\* Wrong variant: a repeated call enqueues its document again.
ReplayEnqueues(o) ==
    /\ evid[o] # None /\ evid[o].d.kind \in TurnoverKinds /\ Len(jobs[o]) < 2
    /\ led' = IF o \in DOMAIN led THEN led ELSE Stored(o, Row(evid[o], Restore(evid[o].d)))
    /\ jobs' = [jobs EXCEPT ![o] = Append(@, evid[o].d)]
    /\ evid' = [evid EXCEPT ![o] = None]
    /\ Unqueued

QueueTurnover(o) ==
    /\ evid[o] # None /\ evid[o].d.kind \in TurnoverKinds
    /\ IF o \notin DOMAIN led
       THEN /\ led' = Stored(o, Row(evid[o], Restore(evid[o].d)))
            /\ jobs' = [jobs EXCEPT ![o] = Append(@, evid[o].d)]
       ELSE UNCHANGED <<led, jobs>>
    /\ evid' = [evid EXCEPT ![o] = None]
    /\ Unqueued

\* The aggregation service keeps its own ledger; its operation ids are hashed
\* under another prefix, so an id used for both services is two operations.
\* One instance uses an id for one service.
QueueAggregation(o) ==
    /\ evid[o] # None /\ evid[o].d.kind \in AggregationKinds
    /\ IF o \notin DOMAIN led
       THEN /\ led' = Stored(o, Row(evid[o], None))
            /\ jobs' = [jobs EXCEPT ![o] = Append(@, evid[o].d)]
       ELSE UNCHANGED <<led, jobs>>
    /\ evid' = [evid EXCEPT ![o] = None]
    /\ Unqueued

Recordable(o, id, kinds) ==
    /\ o \in DOMAIN led /\ led[o].d.kind \in kinds /\ doc[o] # None
    /\ id = "ours" \/ led[o].remote # None

Recorded(o, id) ==
    /\ led' = [led EXCEPT ![o].remote = id]
    /\ UNCHANGED <<reg, ptype, hist, snap, evid, jobs, doc, todo, seen>>

\* record_remote_document: another id for the same operation is a conflict.
RecordRemoteDocument(o, id) ==
    /\ Recordable(o, id, TurnoverKinds)
    /\ led[o].remote \in {None, id}
    /\ Recorded(o, id)

\* The same in the aggregation service.
RecordAggregationDocument(o, id) ==
    /\ Recordable(o, id, AggregationKinds)
    /\ led[o].remote \in {None, id}
    /\ Recorded(o, id)

(***************************************************************************)
(* The M4 read of the document's status.  A caller that re-reads drops     *)
(* the snapshots it holds of the affected codes.                           *)
(***************************************************************************)
ReadStatus(o) ==
    /\ o \in DOMAIN led /\ led[o].remote # None /\ seen[o] # doc[o]
    /\ seen' = [seen EXCEPT ![o] = doc[o]]
    /\ snap' = IF CallerRereads
               THEN [c \in Codes |-> IF c \in Affected(led[o].d) THEN None ELSE snap[c]]
               ELSE snap
    /\ UNCHANGED <<reg, ptype, hist, evid, led, jobs, doc, todo>>

(***************************************************************************)
(* Reconciliation with the status and the snapshots the caller holds.      *)
(***************************************************************************)
Observations(o) ==
    [c \in CodesOf(led[o].d) |->
        [pre |-> led[o].pre[c], post |-> snap[c].parent, type |-> ptype,
         left |-> hist[c] \cap {"DISAGGREGATION", "AUTO_DISAGGREGATION"} # {},
         target |-> "UNIT", kept |-> FALSE, oldStatus |-> None,
         replaced |-> FALSE, colorSize |-> FALSE]]

TurnoverVerdict(o) ==
    ReconcileTurnover(led[o].d, seen[o], CodesOf(led[o].d), snap, led[o].restore,
                      Observations(o), TRUE)

Expected(r) == CASE RelationDelta(r.d.kind) = "FORM" -> CodesOf(r.d)
                 [] RelationDelta(r.d.kind) = "ADD" -> r.kids \cup CodesOf(r.d)
                 [] RelationDelta(r.d.kind) = "REMOVE" -> r.kids \ CodesOf(r.d)
                 [] RelationDelta(r.d.kind) = "DISAGGREGATE" -> {}

AggregationVerdict(o) ==
    LET r == led[o]
        parentOf == [c \in Units |-> IF snap[c] = None THEN Pack ELSE snap[c].parent]
        former == IF r.d.kind \in Disaggregations THEN r.kids ELSE CodesOf(r.d)
    IN CASE r.d.kind = "FORM_ATK" ->
              ReconcileAtkFormation(seen[o], CodesOf(r.d), parentOf,
                  [p \in {Pack} |-> ptype], [p \in {Pack} |-> snap[Pack].kids])
         [] r.d.kind \in {"TRANSFORM_ATK_ADD", "TRANSFORM_ATK_REMOVE"} ->
              ReconcileAtkTransformation(r.d.kind, seen[o], Pack, Expected(r),
                  CodesOf(r.d), snap[Pack].kids, parentOf)
         [] r.d.kind = "DISAGGREGATE_ATK" ->
              ReconcileAtkDisaggregation(seen[o], Pack, snap[Pack].kids, former,
                  parentOf, hist[Pack])
         [] OTHER ->
              ReconcileRelation(r.d.kind, seen[o], Pack, Expected(r), former,
                  snap[Pack].kids, parentOf, hist[Pack], TRUE)

\* The snapshots the caller hands over: of every affected code, and of every
\* former child of a package that is taken apart.
Reconcilable(o) ==
    /\ o \in DOMAIN led /\ seen[o] # None
    /\ \A c \in Affected(led[o].d) : snap[c] # None
    /\ led[o].d.kind \in AggregationKinds =>
           \A c \in led[o].kids : snap[c] # None

Reconcile(o) ==
    /\ Reconcilable(o) /\ led[o].d.kind \in TurnoverKinds
    /\ led' = [led EXCEPT ![o].state = TurnoverVerdict(o)]
    /\ led' # led
    /\ UNCHANGED <<reg, ptype, hist, snap, evid, jobs, doc, todo, seen>>

RecordReconciliation(o) ==
    /\ Reconcilable(o) /\ led[o].d.kind \in AggregationKinds
    /\ led' = [led EXCEPT ![o].state = AggregationVerdict(o)]
    /\ led' # led
    /\ UNCHANGED <<reg, ptype, hist, snap, evid, jobs, doc, todo, seen>>

(***************************************************************************)
(* External: the agent creates the document, the registry checks it        *)
(* against its own state, and the accepted effects appear one by one.      *)
(***************************************************************************)
Create(o) ==
    /\ jobs[o] # <<>> /\ doc[o] = None /\ evid[o] = None
    /\ doc' = [doc EXCEPT ![o] = "IN_PROGRESS"]
    /\ UNCHANGED <<reg, ptype, hist, snap, evid, led, jobs, todo, seen>>

Busy == UNION {{e[1] : e \in todo[o]} : o \in Ops}

Effects(d) ==
    IF d.kind \in AggregationKinds
    THEN {<<c, "PARENT">> : c \in IF d.kind \in Disaggregations THEN Kids(Pack)
                                  ELSE CodesOf(d)} \cup {<<Pack, "STATE">>}
    ELSE {<<c, "STATE">> : c \in CodesOf(d)}
         \cup {<<c, "PARENT">> : c \in {x \in CodesOf(d) :
                  reg[x].parent # None /\ d.kind # "CANCEL_WITHDRAWAL"}}

\* No code the document concerns is still waiting for another one.
RegistryAllows(d) ==
    /\ (Affected(d) \cup {e[1] : e \in Effects(d)}) \cap Busy = {}
    /\ IF d.kind \in AggregationKinds
       THEN /\ PackageFits(d.kind, Look(Pack))
            /\ ValidateRelation(d.kind, Known(Look(Pack)), {Look(c) : c \in CodesOf(d)},
                                Quantity)
       ELSE IF d.kind = "CANCEL_WITHDRAWAL"
       THEN \A c \in CodesOf(d) : reg[c].status = "RETIRED" /\ reg[c].reason = "DISTANCE"
       ELSE \A c \in CodesOf(d) : StateAllows(d, Look(c))

Process(o) ==
    /\ doc[o] = "IN_PROGRESS"
    /\ \/ /\ RegistryAllows(jobs[o][1])
          /\ doc' = [doc EXCEPT ![o] = "CHECKED_OK"]
          /\ todo' = [todo EXCEPT ![o] = Effects(jobs[o][1])]
       \/ /\ doc' = [doc EXCEPT ![o] = "CHECKED_NOT_OK"]
          /\ UNCHANGED todo
    /\ UNCHANGED <<reg, ptype, hist, snap, evid, led, jobs, seen>>

NewState(d, s) ==
    CASE d.kind = "WITHDRAW_DISTANCE" -> [s EXCEPT !.status = "RETIRED", !.reason = "DISTANCE"]
      [] d.kind = "WRITE_OFF" -> [s EXCEPT !.status = "WRITTEN_OFF", !.ex = None]
      [] d.kind \in Disaggregations -> [s EXCEPT !.status = "DISAGGREGATED"]
      [] d.kind \in Removes -> s
      [] d.kind \in Forms \cup Adds ->
             [s EXCEPT !.status = reg[d.codes[1]].status, !.emission = reg[d.codes[1]].emission]
      [] OTHER -> [s EXCEPT !.status = "INTRODUCED", !.reason = None, !.ex = None]

Appear(o, e) ==
    LET d == jobs[o][1]
        c == e[1]
        in == d.kind \in Forms \cup Adds
    IN /\ e \in todo[o]
       /\ todo' = [todo EXCEPT ![o] = @ \ {e}]
       /\ reg' = [reg EXCEPT ![c] =
                    IF e[2] = "STATE" THEN NewState(d, @)
                    ELSE [@ EXCEPT !.parent = IF in THEN Pack ELSE None]]
       /\ hist' = IF e[2] = "PARENT" /\ ~in
                  THEN [x \in Codes |->
                          IF x \in {c, Pack}
                          THEN hist[x] \cup
                               {IF d.kind \in Disaggregations THEN "DISAGGREGATION"
                                ELSE IF d.kind \in Removes /\ (x = c \/ Kids(Pack) # {c})
                                THEN "TRANSFORMATION" ELSE "AUTO_DISAGGREGATION"}
                          ELSE hist[x]]
                  ELSE hist
       /\ UNCHANGED <<ptype, snap, evid, led, jobs, doc, seen>>

\* Somebody else sells a code that no document is waiting for.
SoldElsewhere(c) ==
    /\ c \in Units \ Busy /\ reg[c].status = "INTRODUCED" /\ reg[c].parent = None
    /\ reg' = [reg EXCEPT ![c].status = "RETIRED", ![c].reason = "RETAIL"]
    /\ UNCHANGED <<ptype, hist, snap, evid, led, jobs, doc, todo, seen>>

DocumentNext ==
    \/ \E c \in Codes : Read(c) \/ SoldElsewhere(c)
    \/ ReadAll \/ Expire
    \/ \E o \in Ops :
          \/ \E d \in Documents(Kinds[o]) : ValidateTurnover(o, d) \/ ValidateAggregation(o, d)
          \/ \E p \in Ops : ValidateCancel(o, p)
          \/ QueueTurnover(o) \/ QueueAggregation(o)
          \/ \E id \in {"ours", "other"} :
                RecordRemoteDocument(o, id) \/ RecordAggregationDocument(o, id)
          \/ ReadStatus(o) \/ Reconcile(o) \/ RecordReconciliation(o)
          \/ Create(o) \/ Process(o)
          \/ \E e \in todo[o] : Appear(o, e)

DocumentSpec == DocumentInit /\ [][DocumentNext]_documentVars

(***************************************************************************)
(* Properties.                                                             *)
(***************************************************************************)
Statuses == {"ABSENT", "APPLIED", "INTRODUCED", "RETIRED", "WRITTEN_OFF", "DISAGGREGATED"}
Reasons == {None, "DISTANCE", "RETAIL"}
Registered == [status : Statuses, ex : {None}, reason : Reasons, emission : Emissions,
               indi : BOOLEAN, ours : BOOLEAN, parent : {None, Pack}]
Snapshots == [cis : Codes, status : Statuses, ex : {None}, reason : Reasons,
              emission : Emissions, indi : BOOLEAN, ours : BOOLEAN, parent : {None, Pack},
              pkg : {"BOX", "SET", "ATK", "UNIT"}, pg : {"lp"}, tnved : {"6109"},
              kids : SUBSET Units, fresh : BOOLEAN]

\* Type correctness: codes and snapshots have the registry's fields, rows a
\* verdict and an id; statuses and effects come from its vocabulary.
DocumentTypeOK ==
    /\ reg \in [Codes -> Registered]
    /\ ptype \in {"BOX", "SET", "ATK"}
    /\ snap \in [Codes -> Snapshots \cup {None}]
    /\ doc \in [Ops -> DocStates \cup {None}]
    /\ seen \in [Ops -> DocStates \cup {None}]
    /\ todo \in [Ops -> SUBSET (Codes \X {"STATE", "PARENT"})]
    /\ \A o \in DOMAIN led : o \in Ops /\ led[o].state \in States /\ led[o].remote \in {None, "ours", "other"}

\* Mutation completion is two-stage: RECONCILED is recorded only when the
\* registry accepted the document and its effect is visible on every code of
\* the operation, the package it had to leave (by the evidence) included.
\* Neither codes that are in the expected state for another reason nor a
\* package left half taken apart may pass for success.
ReconciledMeansVisible ==
    \A o \in DOMAIN led : led[o].state = "RECONCILED" =>
        /\ doc[o] = "CHECKED_OK"
        /\ \A e \in todo[o] :
              IF led[o].d.kind \in AggregationKinds THEN e[2] = "STATE"
              ELSE e[2] = "PARENT" /\ led[o].pre[e[1]] = None

\* An operation id names one document: whatever is queued again under it, the
\* agent gets one job, and it carries the document of the ledger row.
OneDocument ==
    \A o \in DOMAIN led : jobs[o] = <<led[o].d>>
==============================================================================
