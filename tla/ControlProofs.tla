--------------------------- MODULE ControlProofs ---------------------------
(***************************************************************************)
(* The decision rules and the reconciliation rule agree, for every event   *)
(* and every snapshot, whatever timestamps occur (DecisionCycle); and the  *)
(* advisory locks on the codes keep any number of imports and bulk writes  *)
(* apart (KizControl).                                                     *)
(***************************************************************************)
EXTENDS KizControl, DecisionCycle, FiniteSetTheorems, WellFoundedInduction, TLAPS

-----------------------------------------------------------------------------
(* The cycle of one event                                                  *)


(* decide() always returns one of its outcomes. *)
LEMMA DecideType ==
    ASSUME NEW e \in EventFacts, NEW s \in KiStates
    PROVE  /\ Decide(e, s).decision \in {"MANUAL_REVIEW", "ALREADY_DONE",
                                         "READY_TO_WITHDRAW", "READY_TO_RETURN"}
           /\ Decide(e, s) \in [decision : {"MANUAL_REVIEW", "ALREADY_DONE",
                                            "READY_TO_WITHDRAW", "READY_TO_RETURN"},
                                reason : {"WRONG_PRODUCT_GROUP", "OWNER_UNKNOWN",
                                          "OWNER_MISMATCH", "UNKNOWN_CHZ_STATUS",
                                          "RETURN_ALREADY_IN_CIRCULATION",
                                          "LEGAL_ENTITY_RULES_UNDEFINED",
                                          "SALE_RECEIPT_MISSING", "SALE_IN_CIRCULATION",
                                          "NON_DISTANCE_OR_UNKNOWN_WITHDRAWAL",
                                          "SALE_ALREADY_WITHDRAWN_DISTANCE",
                                          "RETURN_WITHDRAWN_DISTANCE"}]
    BY DEF Decide, Outcome

(* A document keeps the snapshot a snapshot. *)
LEMMA EffectType ==
    ASSUME NEW d, NEW s \in KiStates
    PROVE  Effect(d, s) \in KiStates
    BY DEF Effect, KiStates

(* What decide() calls actionable, it calls done once the document took
   effect. *)
LEMMA ReadyThenDone ==
    ASSUME NEW e \in EventFacts, NEW s \in KiStates, Decide(e, s).decision \in ReadyDecisions
    PROVE  LET d == DocumentType(Decide(e, s).decision) IN ConfirmedBy(e, d, Effect(d, s))
<1>1. CASE Decide(e, s).decision = "READY_TO_WITHDRAW"
    <2>1. /\ e.operation = "SALE" /\ s.owner = "OWN" /\ s.group # "OTHER"
          /\ s.statusEx # "OTHER"
        BY <1>1 DEF Decide, Outcome, EventFacts
    <2>2. /\ Effect("LK_RECEIPT", s).status = "WITHDRAWN"
          /\ Effect("LK_RECEIPT", s).reason = "DISTANCE"
          /\ Effect("LK_RECEIPT", s).owner = s.owner
          /\ Effect("LK_RECEIPT", s).group = s.group
          /\ Effect("LK_RECEIPT", s).statusEx = s.statusEx
        BY DEF Effect, KiStates
    <2>3. ConfirmedBy(e, "LK_RECEIPT", Effect("LK_RECEIPT", s))
        BY <2>1, <2>2 DEF ConfirmedBy, Decide, Outcome
    <2> QED  BY <1>1, <2>3 DEF DocumentType
<1>2. CASE Decide(e, s).decision = "READY_TO_RETURN"
    <2>1. /\ e.operation = "RETURN" /\ s.owner = "OWN" /\ s.group # "OTHER"
          /\ s.statusEx # "OTHER"
        BY <1>2 DEF Decide, Outcome, EventFacts
    <2>2. /\ Effect("LP_RETURN", s).status = "IN_CIRCULATION"
          /\ Effect("LP_RETURN", s).reason = "EMPTY"
          /\ Effect("LP_RETURN", s).owner = s.owner
          /\ Effect("LP_RETURN", s).group = s.group
          /\ Effect("LP_RETURN", s).statusEx = s.statusEx
        BY DEF Effect, KiStates
    <2>3. ConfirmedBy(e, "LP_RETURN", Effect("LP_RETURN", s))
        BY <2>1, <2>2 DEF ConfirmedBy, Decide, Outcome
    <2> QED  BY <1>2, <2>3 DEF DocumentType
<1> QED  BY <1>1, <1>2 DEF ReadyDecisions

(* A snapshot that confirms a document is owned by us and has the state the
   document asked for. *)
LEMMA ConfirmedMeansEffect ==
    ASSUME NEW e \in EventFacts, NEW s \in KiStates, NEW d, ConfirmedBy(e, d, s)
    PROVE  /\ s.owner = "OWN" /\ s.group # "OTHER"
           /\ d = "LK_RECEIPT" => s.status = "WITHDRAWN" /\ s.reason = "DISTANCE"
           /\ d # "LK_RECEIPT" => s.status = "IN_CIRCULATION" /\ s.reason = "EMPTY"
    BY DEF ConfirmedBy, Decide, Outcome, KiStates, EventFacts

(* The inductive invariant: until a document takes effect, the outcome is the
   decision on the current state. *)
CycleInv ==
    /\ CycleTypeOK
    /\ phase = "decided" => outcome = Decide(event, ki)
    /\ phase \in {"done", "touched", "confirmed"} => outcome.decision \in ReadyDecisions
    /\ EffectIsConfirmed
    /\ ConfirmationIsEvidence

(* CycleInv holds initially. *)
LEMMA CycleInvInit == CycleInit => CycleInv
<1> SUFFICES ASSUME CycleInit PROVE CycleInv
    OBVIOUS
<1>1. event \in EventFacts
    BY TimesAssumption DEF CycleInit, EventFacts
<1>2. CycleTypeOK
    BY <1>1 DEF CycleInit, CycleTypeOK, NoOutcome, Outcome
<1> QED  BY <1>2 DEF CycleInit, CycleInv, EffectIsConfirmed, ConfirmationIsEvidence

(* Every step of the cycle preserves CycleInv. *)
LEMMA CycleInvStep == CycleInv /\ [CycleNext]_cycleVars => CycleInv'
<1> SUFFICES ASSUME CycleInv, [CycleNext]_cycleVars PROVE CycleInv'
    OBVIOUS
<1> USE DEF CycleInv
<1>1. CASE Control
    <2>1. Decide(event, ki).decision # "NONE"
        BY DecideType DEF CycleTypeOK
    <2>2. CycleTypeOK'
        BY <1>1, <2>1, DecideType DEF Control, CycleTypeOK, NoOutcome, Outcome
    <2> QED  BY <1>1, <2>2 DEF Control, EffectIsConfirmed, ConfirmationIsEvidence
<1>2. CASE DocumentTakesEffect
    <2>1. CycleTypeOK'
        BY <1>2, EffectType DEF DocumentTakesEffect, CycleTypeOK
    <2>2. EffectIsConfirmed'
        BY <1>2, ReadyThenDone, Zenon DEF DocumentTakesEffect, CycleTypeOK, EffectIsConfirmed
    <2> QED  BY <1>2, <2>1, <2>2 DEF DocumentTakesEffect, ConfirmationIsEvidence
<1>3. CASE OtherPartyActs
    <2>1. CycleTypeOK'
        BY <1>3 DEF OtherPartyActs, CycleTypeOK, KiStates
    <2> QED  BY <1>3, <2>1 DEF OtherPartyActs, EffectIsConfirmed, ConfirmationIsEvidence
<1>4. CASE Reconcile
    <2>1. CycleTypeOK'
        BY <1>4 DEF Reconcile, CycleTypeOK
    <2>2. ConfirmationIsEvidence'
        BY <1>4, ConfirmedMeansEffect
        DEF Reconcile, CycleTypeOK, ConfirmationIsEvidence, DocumentType, ReadyDecisions
    <2> QED  BY <1>4, <2>1, <2>2 DEF Reconcile, EffectIsConfirmed
<1>5. CASE UNCHANGED cycleVars
    BY <1>5 DEF cycleVars, CycleTypeOK, EffectIsConfirmed, ConfirmationIsEvidence
<1> QED  BY <1>1, <1>2, <1>3, <1>4, <1>5 DEF CycleNext

(* A document that took effect and that nobody touched is always confirmed. *)
THEOREM EffectsConfirmed == CycleSpec => []EffectIsConfirmed
<1>1. CycleInv => EffectIsConfirmed
    BY DEF CycleInv
<1> QED  BY CycleInvInit, CycleInvStep, <1>1, PTL DEF CycleSpec

(* A confirmation is only ever given to a code in the state asked for. *)
THEOREM ConfirmationsAreEvidence == CycleSpec => []ConfirmationIsEvidence
<1>1. CycleInv => ConfirmationIsEvidence
    BY DEF CycleInv
<1> QED  BY CycleInvInit, CycleInvStep, <1>1, PTL DEF CycleSpec

(* A sale and a return are never both actionable on one snapshot. *)
THEOREM OppositesNeverBothReady == CycleSpec => []OppositesExclude
<1>1. CycleTypeOK => OppositesExclude
    BY DEF OppositesExclude, CycleTypeOK, Decide, Outcome, ReadyDecisions, EventFacts
<1>2. CycleInv => CycleTypeOK
    BY DEF CycleInv
<1> QED  BY CycleInvInit, CycleInvStep, <1>1, <1>2, PTL DEF CycleSpec

-----------------------------------------------------------------------------
(* Imports and bulk writes at the same time                                *)

Handlers == [pc : {"idle", "lock", "write", "wait", "prepare", "commit"},
             kind : {"none", "import", "bulk"},
             file : SUBSET Events, want : SUBSET Kizzes,
             todo : SUBSET Events, row : SUBSET Events,
             rows : SUBSET Events, ops : SUBSET Events,
             review : SUBSET Events]

(* What the lock of a code protects: a handler t in the state x has inserted
   rows, and created operations, only for codes whose lock it holds; the rows
   are still new, and the operations are still the first for their event, on
   an event that counts. *)
Protected(t, x) ==
    /\ \A e \in x.rows : locks[KizOf[e]] = t /\ e \notin history
    /\ \A e \in x.ops : /\ locks[KizOf[e]] = t /\ writes[e] = "NONE"
                        /\ e \in history /\ PolicyOutcome(e, history) = NoOutcome

(* How the handler gets there: an import holds the lock of every code of its
   file, or still wants it; a batch works on committed events, and holds the
   lock of the row it prepares. *)
OnItsWay(t, x) ==
    /\ x.pc = "idle" => x.kind = "none"
    /\ x.kind # "import" => x.rows = {}
    /\ x.kind # "bulk" => x.ops = {}
    /\ x.kind = "import" /\ x.pc = "lock" =>
          \A e \in x.file : KizOf[e] \in x.want \/ locks[KizOf[e]] = t
    /\ x.kind = "bulk" => (x.file \cup x.todo \cup x.row) \subseteq history
    /\ x.pc \in {"write", "wait", "prepare"} => x.kind = "bulk"
    /\ \A d, e \in x.row : d = e
    /\ x.pc = "prepare" => \A e \in x.row : locks[KizOf[e]] = t

Sound(t, x) == Protected(t, x) /\ OnItsWay(t, x)

KizInv == TypeOK /\ \A t \in Txns : Sound(t, txn[t])

(* A non-empty set of codes has a first one. *)
LEMMA MinIn ==
    ASSUME NEW S, S \subseteq Nat, S # {}
    PROVE  Min(S) \in S
<1> DEFINE low(x) == 0 .. x
           T == {low(x) : x \in S}
           R == StrictSubsetOrdering(Int)
<1>1. \A x \in S : IsFiniteSet(low(x)) /\ low(x) \subseteq Int
    BY FS_Interval
<1>2. T \subseteq FiniteSubsetsOf(Int) /\ T # {}
    BY <1>1 DEF FiniteSubsetsOf
<1>3. IsWellFoundedOn(R, FiniteSubsetsOf(Int))
    BY FS_StrictSubsetOrderingWellFounded
<1> HIDE DEF T
<1>4. PICK low0 \in T : \A y \in T : ~ (<<y, low0>> \in R)
    <2> HIDE DEF R
    <2> QED  BY <1>2, <1>3, WFMin, Zenon
<1>5. PICK m \in S : low0 = low(m)
    BY DEF T
<1>6. ASSUME NEW x \in S, ~ (m <= x) PROVE FALSE
    <2>1. low(x) \subseteq low(m) /\ m \in low(m) /\ m \notin low(x) /\ low(x) \in T
        BY <1>6 DEF T
    <2> QED  BY <1>1, <1>4, <1>5, <2>1 DEF StrictSubsetOrdering
<1> QED  BY <1>5, <1>6 DEF Min

LEMMA IdleType == IdleTxn \in Handlers
    BY DEF IdleTxn, Handlers

LEMMA IdleSound == \A t : Sound(t, IdleTxn)
    BY DEF IdleTxn, Sound, Protected, OnItsWay

LEMMA IdleSoundNext == \A t : Sound(t, IdleTxn)'
    BY DEF IdleTxn, Sound, Protected, OnItsWay

LEMMA KizInvInit == Init => KizInv
<1> SUFFICES ASSUME Init PROVE KizInv
    OBVIOUS
<1>1. NoCheck \in [decision : Decisions, live : BOOLEAN]
    BY DEF NoCheck, Decisions
<1>2. txn \in [Txns -> Handlers]
    BY IdleType DEF Init
<1>3. locks \in [Kizzes -> Txns \cup {NoTxn}] /\ \A k \in Kizzes, t \in Txns : locks[k] # t
    BY NoTxnAssumption DEF Init
<1>4. TypeOK
    BY <1>1, <1>2, <1>3 DEF Init, TypeOK, Handlers
<1> QED  BY <1>4, IdleSound DEF Init, KizInv

(* The history of a code that only t's lock covers is the same before and
   after t adds rows of its own codes. *)
LEMMA PolicyStays ==
    ASSUME NEW e \in Events, NEW H, NEW G, H \subseteq G,
           \A x \in G \ H : KizOf[x] # KizOf[e]
    PROVE  PolicyOutcome(e, G) = PolicyOutcome(e, H)
<1>1. HistoryOf(KizOf[e], G) = HistoryOf(KizOf[e], H)
    BY DEF HistoryOf
<1> QED  BY <1>1 DEF PolicyOutcome

(* What a step of handler t leaves to another handler u. *)
LEMMA OthersSound ==
    ASSUME KizInv, NEW t \in Txns, NEW u \in Txns, u # t, NEW x, x = txn[u],
           \A k \in Kizzes : locks[k] = u => locks'[k] = u,
           history \subseteq history',
           \A e \in history' \ history : e \in Events /\ locks[KizOf[e]] = t,
           \A e \in Events : writes'[e] # writes[e] => writes[e] # "NONE" \/ locks[KizOf[e]] = t
    PROVE  Sound(u, x)'
<1>1. Sound(u, x) /\ x \in Handlers
    BY DEF KizInv, TypeOK, Handlers
<1>2. /\ x.rows \subseteq Events /\ x.ops \subseteq Events /\ x.file \subseteq Events
      /\ x.row \subseteq Events /\ \A e \in Events : KizOf[e] \in Kizzes
    BY <1>1, EventsAssumption DEF Handlers
<1>3. ASSUME NEW e \in x.rows PROVE locks'[KizOf[e]] = u /\ e \notin history'
    BY <1>1, <1>2, <1>3 DEF Sound, Protected
<1>4. ASSUME NEW e \in x.ops
      PROVE  /\ locks'[KizOf[e]] = u /\ writes'[e] = "NONE"
             /\ e \in history' /\ PolicyOutcome(e, history') = NoOutcome
    <2>1. /\ locks[KizOf[e]] = u /\ writes[e] = "NONE" /\ e \in Events
          /\ e \in history /\ PolicyOutcome(e, history) = NoOutcome
        BY <1>1, <1>2, <1>4 DEF Sound, Protected
    <2>2. \A y \in history' \ history : KizOf[y] # KizOf[e]
        BY <2>1
    <2>3. PolicyOutcome(e, history') = PolicyOutcome(e, history)
        BY <2>1, <2>2, PolicyStays
    <2> QED  BY <1>2, <2>1, <2>3
<1>5. Protected(u, x)'
    BY <1>3, <1>4 DEF Protected, PolicyOutcome, HistoryOf
<1>6. OnItsWay(u, x)'
    BY <1>1, <1>2 DEF Sound, OnItsWay
<1> QED  BY <1>5, <1>6 DEF Sound

(* A step of handler t that commits nothing: it becomes x, and takes or gives
   back locks that nobody else has. *)
LEMMA HandlerStep ==
    ASSUME KizInv, NEW t \in Txns, NEW x \in Handlers,
           txn' = [txn EXCEPT ![t] = x],
           UNCHANGED <<history, checks, writes, asked, controls>>,
           locks' \in [Kizzes -> Txns \cup {NoTxn}],
           \A k \in Kizzes : locks'[k] = locks[k] \/ (locks[k] \in {NoTxn, t} /\ locks'[k] \in {NoTxn, t}),
           \A k \in Kizzes : locks'[k] = t => x.pc # "idle",
           Sound(t, x)'
    PROVE  KizInv'
<1>1. txn \in [Txns -> Handlers]
    BY DEF KizInv, TypeOK, Handlers
<1>2. txn' \in [Txns -> Handlers] /\ txn'[t] = x /\ \A u \in Txns \ {t} : txn'[u] = txn[u]
    BY <1>1
<1>3. \A k \in Kizzes, u \in Txns : locks'[k] = u => txn'[u].pc # "idle"
    BY <1>2, NoTxnAssumption DEF KizInv, TypeOK
<1>4. TypeOK'
    BY <1>2, <1>3 DEF KizInv, TypeOK, Handlers
<1>5. ASSUME NEW u \in Txns PROVE Sound(u, txn[u])'
    <2>1. CASE u = t
        BY <1>2, <2>1
    <2>2. CASE u # t
        <3>1. PICK y : y = txn[u]
            OBVIOUS
        <3>2. \A k \in Kizzes : locks[k] = u => locks'[k] = u
            BY <2>2, NoTxnAssumption
        <3>3. Sound(u, y)'
            BY <2>2, <3>1, <3>2, OthersSound
        <3> QED  BY <1>2, <2>2, <3>1, <3>3
    <2> QED  BY <2>1, <2>2
<1> QED  BY <1>4, <1>5 DEF KizInv

(* Facts of the current state that every step starts from. *)
LEMMA Here ==
    ASSUME KizInv, NEW t \in Txns
    PROVE  /\ txn[t] \in Handlers /\ Sound(t, txn[t])
           /\ locks \in [Kizzes -> Txns \cup {NoTxn}]
           /\ history \subseteq Events
           /\ \A e \in Events : KizOf[e] \in Kizzes
           /\ \A k \in Kizzes : locks[k] = t => txn[t].pc # "idle"
    BY EventsAssumption DEF KizInv, TypeOK, Handlers

LEMMA RollbackKeeps ==
    ASSUME KizInv, NEW t \in Txns, Rollback(t)
    PROVE  KizInv'
<1>1. /\ txn' = [txn EXCEPT ![t] = IdleTxn] /\ locks' = Release(t)
      /\ UNCHANGED <<history, checks, writes, asked, controls>>
    BY DEF Rollback
<1>2. locks' \in [Kizzes -> Txns \cup {NoTxn}]
    BY <1>1, Here DEF Release
<1>3. \A k \in Kizzes : locks'[k] = locks[k] \/ (locks[k] \in {NoTxn, t} /\ locks'[k] \in {NoTxn, t})
    BY <1>1 DEF Release
<1>4. \A k \in Kizzes : locks'[k] = t => IdleTxn.pc # "idle"
    BY <1>1, NoTxnAssumption DEF Release
<1>5. Sound(t, IdleTxn)'
    BY IdleSoundNext
<1> QED  BY <1>1, <1>2, <1>3, <1>4, <1>5, IdleType, HandlerStep

LEMMA AcquireKeeps ==
    ASSUME KizInv, NEW t \in Txns, AcquireLock(t)
    PROVE  KizInv'
<1>1. PICK h : h = txn[t]
    OBVIOUS
<1>2. PICK k : k = Min(h.want)
    OBVIOUS
<1>3. PICK x : x = [h EXCEPT !.want = @ \ {k}]
    OBVIOUS
<1>4. /\ h.pc = "lock" /\ h.want # {} /\ locks[k] = NoTxn
      /\ locks' = [locks EXCEPT ![k] = t] /\ txn' = [txn EXCEPT ![t] = x]
      /\ UNCHANGED <<history, checks, writes, asked, controls>>
    BY <1>1, <1>2, <1>3 DEF AcquireLock
<1>5. /\ h \in Handlers /\ Sound(t, h) /\ locks \in [Kizzes -> Txns \cup {NoTxn}]
      /\ \A e \in Events : KizOf[e] \in Kizzes
    BY <1>1, Here
<1>6. k \in Kizzes
    BY <1>2, <1>4, <1>5, MinIn, KizzesAssumption DEF Handlers
<1>7. /\ x \in Handlers /\ x.want = h.want \ {k} /\ x.pc = "lock" /\ x.kind = h.kind
      /\ x.file = h.file /\ x.todo = h.todo /\ x.row = h.row
      /\ x.rows = h.rows /\ x.ops = h.ops
    BY <1>3, <1>4, <1>5 DEF Handlers
<1>8. /\ locks' \in [Kizzes -> Txns \cup {NoTxn}]
      /\ \A j \in Kizzes : locks'[j] = IF j = k THEN t ELSE locks[j]
    BY <1>4, <1>5, <1>6
<1>9. h.rows \subseteq Events /\ h.ops \subseteq Events /\ h.file \subseteq Events
    BY <1>5 DEF Handlers
<1>10. \A e \in Events : locks[KizOf[e]] = t => locks'[KizOf[e]] = t
    BY <1>5, <1>8
<1>11. Protected(t, x)'
    BY <1>4, <1>5, <1>7, <1>9, <1>10 DEF Sound, Protected, PolicyOutcome, HistoryOf
<1>12. OnItsWay(t, x)'
    <2>1. ASSUME NEW e \in h.file, x.kind = "import"
          PROVE  KizOf[e] \in x.want \/ locks'[KizOf[e]] = t
        BY <1>4, <1>5, <1>7, <1>8, <1>9, <2>1 DEF Sound, OnItsWay
    <2> QED  BY <1>4, <1>5, <1>7, <2>1 DEF Sound, OnItsWay
<1>13. Sound(t, x)'
    BY <1>11, <1>12 DEF Sound
<1>14. \A j \in Kizzes : locks'[j] = locks[j] \/ (locks[j] \in {NoTxn, t} /\ locks'[j] \in {NoTxn, t})
    BY <1>4, <1>8
<1>15. \A j \in Kizzes : locks'[j] = t => x.pc # "idle"
    BY <1>7
<1> QED  BY <1>4, <1>7, <1>8, <1>13, <1>14, <1>15, HandlerStep

(* Steps of a handler on its own record only: the locks stay. *)
LEMMA RecordStep ==
    ASSUME KizInv, NEW t \in Txns, NEW x \in Handlers,
           txn' = [txn EXCEPT ![t] = x],
           UNCHANGED <<history, checks, writes, asked, controls, locks>>,
           \A k \in Kizzes : locks[k] = t => x.pc # "idle",
           Sound(t, x)
    PROVE  KizInv'
<1>1. Sound(t, x)'
    BY DEF Sound, Protected, OnItsWay, PolicyOutcome, HistoryOf
<1>2. locks \in [Kizzes -> Txns \cup {NoTxn}]
    BY Here
<1>3. \A k \in Kizzes : locks'[k] = locks[k] \/ (locks[k] \in {NoTxn, t} /\ locks'[k] \in {NoTxn, t})
    OBVIOUS
<1>4. locks' \in [Kizzes -> Txns \cup {NoTxn}] /\ \A k \in Kizzes : locks'[k] = t => x.pc # "idle"
    BY <1>2
<1> QED  BY <1>1, <1>3, <1>4, HandlerStep

(* A request begins: an import wants the lock of every code of its file, a
   batch has found its rows in the history. *)
LEMMA BeginStep ==
    ASSUME KizInv, NEW t \in Txns, NEW x \in Handlers,
           x.pc = "lock", x.rows = {}, x.ops = {}, x.row = {}, x.todo = {},
           x.kind = "import" => \A e \in x.file : KizOf[e] \in x.want,
           x.kind = "bulk" => x.file \subseteq history,
           txn' = [txn EXCEPT ![t] = x],
           UNCHANGED <<history, checks, writes, asked, controls, locks>>
    PROVE  KizInv'
<1>1. Sound(t, x)
    BY DEF Sound, Protected, OnItsWay
<1> QED  BY <1>1, RecordStep

LEMMA BeginKeeps ==
    ASSUME KizInv, NEW t \in Txns, NEW f \in Files, BeginImport(t, f) \/ BeginBulk(t, f)
    PROVE  KizInv'
<1>1. f \subseteq Events /\ \A e \in Events : KizOf[e] \in Kizzes
    BY EventsAssumption
<1>2. CASE BeginImport(t, f)
    <2>1. PICK w : w = {KizOf[e] : e \in f}
        OBVIOUS
    <2>2. w \in SUBSET Kizzes /\ \A e \in f : KizOf[e] \in w
        BY <1>1, <2>1
    <2>3. PICK x : x = [IdleTxn EXCEPT !.pc = "lock", !.kind = "import", !.file = f, !.want = w]
        OBVIOUS
    <2>4. /\ x \in Handlers /\ x.pc = "lock" /\ x.kind = "import" /\ x.file = f /\ x.want = w
          /\ x.rows = {} /\ x.ops = {} /\ x.row = {} /\ x.todo = {}
        BY <1>1, <2>2, <2>3 DEF Handlers, IdleTxn
    <2>5. /\ txn' = [txn EXCEPT ![t] = x]
          /\ UNCHANGED <<history, checks, writes, asked, controls, locks>>
        BY <1>2, <2>1, <2>3 DEF BeginImport
    <2> QED  BY <2>2, <2>4, <2>5, BeginStep
<1>3. CASE BeginBulk(t, f)
    <2>1. PICK w : w = {KizOf[e] : e \in {y \in f : Ready(y)}}
        OBVIOUS
    <2>2. w \in SUBSET Kizzes
        BY <1>1, <2>1
    <2>3. PICK x : x = [IdleTxn EXCEPT !.pc = "lock", !.kind = "bulk", !.file = f, !.want = w]
        OBVIOUS
    <2>4. /\ x \in Handlers /\ x.pc = "lock" /\ x.kind = "bulk" /\ x.file = f /\ x.want = w
          /\ x.rows = {} /\ x.ops = {} /\ x.row = {} /\ x.todo = {}
        BY <1>1, <2>2, <2>3 DEF Handlers, IdleTxn
    <2>5. /\ txn' = [txn EXCEPT ![t] = x] /\ f \subseteq history
          /\ UNCHANGED <<history, checks, writes, asked, controls, locks>>
        BY <1>3, <2>1, <2>3 DEF BeginBulk
    <2> QED  BY <2>4, <2>5, BeginStep
<1> QED  BY <1>2, <1>3

LEMMA InsertKeeps ==
    ASSUME KizInv, NEW t \in Txns, InsertRows(t)
    PROVE  KizInv'
<1>1. PICK h : h = txn[t]
    OBVIOUS
<1>2. PICK x : x = [h EXCEPT !.pc = "commit", !.rows = h.file \ history]
    OBVIOUS
<1>3. /\ h.pc = "lock" /\ h.kind = "import" /\ h.want = {}
      /\ txn' = [txn EXCEPT ![t] = x]
      /\ UNCHANGED <<history, checks, writes, asked, controls, locks>>
    BY <1>1, <1>2 DEF InsertRows
<1>4. h \in Handlers /\ Sound(t, h)
    BY <1>1, Here
<1>5. /\ x \in Handlers /\ x.pc = "commit" /\ x.kind = "import" /\ x.rows = h.file \ history
      /\ x.ops = h.ops /\ x.row = h.row
    BY <1>2, <1>3, <1>4 DEF Handlers
<1>6. Sound(t, x)
    BY <1>3, <1>4, <1>5 DEF Sound, Protected, OnItsWay
<1> QED  BY <1>3, <1>5, <1>6, RecordStep

LEMMA ValidateKeeps ==
    ASSUME KizInv, NEW t \in Txns, Validate(t)
    PROVE  KizInv'
<1>1. PICK h : h = txn[t]
    OBVIOUS
<1>2. PICK x : x = [h EXCEPT !.pc = "write", !.todo = h.file]
    OBVIOUS
<1>3. CASE Rollback(t)
    BY <1>3, RollbackKeeps
<1>4. CASE ~Rollback(t)
    <2>1. /\ h.pc = "lock" /\ h.kind = "bulk"
          /\ txn' = [txn EXCEPT ![t] = x]
          /\ UNCHANGED <<history, checks, writes, asked, controls, locks>>
        BY <1>1, <1>2, <1>4 DEF Validate
    <2>2. h \in Handlers /\ Sound(t, h)
        BY <1>1, Here
    <2>3. /\ x \in Handlers /\ x.pc = "write" /\ x.kind = "bulk" /\ x.file = h.file
          /\ x.todo = h.file /\ x.row = h.row /\ x.rows = h.rows /\ x.ops = h.ops
        BY <1>2, <2>1, <2>2 DEF Handlers
    <2>4. Sound(t, x)
        BY <2>1, <2>2, <2>3 DEF Sound, Protected, OnItsWay
    <2> QED  BY <2>1, <2>3, <2>4, RecordStep
<1> QED  BY <1>3, <1>4

(* Steps of a batch through its rows: nothing is locked, nothing created. *)
LEMMA RowKeeps ==
    ASSUME KizInv, NEW t \in Txns, NEW e \in Events,
           SkipRow(t, e) \/ AssemblyFails(t, e) \/ EnterPrepare(t, e)
    PROVE  KizInv'
<1>1. PICK h : h = txn[t]
    OBVIOUS
<1>2. h \in Handlers /\ Sound(t, h)
    BY <1>1, Here
<1>3. h.pc = "write" /\ e \in h.todo /\ UNCHANGED <<history, checks, writes, asked, controls, locks>>
    BY <1>1 DEF SkipRow, AssemblyFails, EnterPrepare
<1>4. \/ txn' = [txn EXCEPT ![t] = [h EXCEPT !.todo = @ \ {e}]]
      \/ txn' = [txn EXCEPT ![t] = [h EXCEPT !.todo = @ \ {e}, !.review = @ \cup {e}]]
      \/ txn' = [txn EXCEPT ![t] = [h EXCEPT !.pc = "wait", !.row = {e}]]
    BY <1>1 DEF SkipRow, AssemblyFails, EnterPrepare
<1>5. PICK x : /\ txn' = [txn EXCEPT ![t] = x]
               /\ \/ x = [h EXCEPT !.todo = @ \ {e}]
                  \/ x = [h EXCEPT !.todo = @ \ {e}, !.review = @ \cup {e}]
                  \/ x = [h EXCEPT !.pc = "wait", !.row = {e}]
    BY <1>4
<1>6. /\ x \in Handlers /\ x.pc \in {"write", "wait"} /\ x.kind = h.kind /\ x.file = h.file
      /\ x.rows = h.rows /\ x.ops = h.ops
      /\ x.todo \subseteq h.todo /\ (x.row = h.row \/ x.row = {e})
    <2>1. CASE x = [h EXCEPT !.todo = @ \ {e}]
        BY <1>2, <1>3, <2>1 DEF Handlers
    <2>2. CASE x = [h EXCEPT !.todo = @ \ {e}, !.review = @ \cup {e}]
        BY <1>2, <1>3, <2>2 DEF Handlers
    <2>3. CASE x = [h EXCEPT !.pc = "wait", !.row = {e}]
        BY <1>2, <1>3, <2>3 DEF Handlers
    <2> QED  BY <1>5, <2>1, <2>2, <2>3
<1>8. Sound(t, x)
    BY <1>2, <1>3, <1>6 DEF Sound, Protected, OnItsWay
<1> QED  BY <1>3, <1>5, <1>6, <1>8, RecordStep

LEMMA LockRowKeeps ==
    ASSUME KizInv, NEW t \in Txns, LockRow(t)
    PROVE  KizInv'
<1>1. PICK h : h = txn[t]
    OBVIOUS
<1>2. PICK x : x = [h EXCEPT !.pc = "prepare"]
    OBVIOUS
<1>3. PICK e \in h.row : /\ locks[KizOf[e]] \in {NoTxn, t}
                         /\ locks' = [locks EXCEPT ![KizOf[e]] = t]
    BY <1>1 DEF LockRow
<1>4. /\ h.pc = "wait" /\ txn' = [txn EXCEPT ![t] = x]
      /\ UNCHANGED <<history, checks, writes, asked, controls>>
    BY <1>1, <1>2 DEF LockRow
<1>5. /\ h \in Handlers /\ Sound(t, h) /\ locks \in [Kizzes -> Txns \cup {NoTxn}]
      /\ \A d \in Events : KizOf[d] \in Kizzes
    BY <1>1, Here
<1>6. PICK k : k = KizOf[e]
    OBVIOUS
<1>7. k \in Kizzes /\ locks[k] \in {NoTxn, t} /\ locks' = [locks EXCEPT ![k] = t]
    BY <1>3, <1>5, <1>6 DEF Handlers
<1>8. /\ locks' \in [Kizzes -> Txns \cup {NoTxn}]
      /\ \A j \in Kizzes : locks'[j] = IF j = k THEN t ELSE locks[j]
    BY <1>5, <1>7
<1>9. /\ x \in Handlers /\ x.pc = "prepare" /\ x.kind = h.kind /\ x.file = h.file
      /\ x.todo = h.todo /\ x.row = h.row /\ x.rows = h.rows /\ x.ops = h.ops
    BY <1>2, <1>5 DEF Handlers
<1>10. /\ \A d \in Events : locks[KizOf[d]] = t => locks'[KizOf[d]] = t
       /\ h.rows \subseteq Events /\ h.ops \subseteq Events
    BY <1>5, <1>8 DEF Handlers
<1>11. Protected(t, x)'
    BY <1>4, <1>5, <1>9, <1>10 DEF Sound, Protected, PolicyOutcome, HistoryOf
<1>12. \A d \in h.row : locks'[KizOf[d]] = t
    <2>1. \A d \in h.row : d = e
        BY <1>3, <1>4, <1>5 DEF Sound, OnItsWay
    <2> QED  BY <1>6, <1>7, <1>8, <2>1
<1>13. OnItsWay(t, x)'
    BY <1>4, <1>5, <1>9, <1>12 DEF Sound, OnItsWay
<1>14. Sound(t, x)'
    BY <1>11, <1>13 DEF Sound
<1>15. \A j \in Kizzes : locks'[j] = locks[j] \/ (locks[j] \in {NoTxn, t} /\ locks'[j] \in {NoTxn, t})
    BY <1>7, <1>8
<1>16. \A j \in Kizzes : locks'[j] = t => x.pc # "idle"
    BY <1>9
<1> QED  BY <1>4, <1>8, <1>9, <1>14, <1>15, <1>16, HandlerStep

(* Under the lock the row is looked at again; what is created is protected. *)
LEMMA PrepareKeeps ==
    ASSUME KizInv, NEW t \in Txns, PrepareWrite(t)
    PROVE  KizInv'
<1>1. PICK h : h = txn[t]
    OBVIOUS
<1>2. CASE Rollback(t)
    BY <1>2, RollbackKeeps
<1>3. CASE ~Rollback(t)
    <2>1. PICK e \in h.row :
             /\ PolicyOutcome(e, history) = NoOutcome
             /\ txn' = [txn EXCEPT ![t].pc = "write", ![t].row = {}, ![t].todo = @ \ {e},
                            ![t].ops = IF writes[e] = "NONE" THEN @ \cup {e} ELSE @]
             /\ UNCHANGED <<history, checks, writes, asked, controls, locks>>
        BY <1>1, <1>3, Zenon DEF PrepareWrite
    <2>2. h.pc = "prepare"
        BY <1>1 DEF PrepareWrite
    <2>3. h \in Handlers /\ Sound(t, h)
        BY <1>1, Here
    <2>4. PICK ops : ops = IF writes[e] = "NONE" THEN h.ops \cup {e} ELSE h.ops
        OBVIOUS
    <2>5. PICK x : x = [h EXCEPT !.pc = "write", !.row = {}, !.todo = @ \ {e}, !.ops = ops]
        OBVIOUS
    <2>6. txn' = [txn EXCEPT ![t] = x]
        BY <1>1, <2>1, <2>3, <2>4, <2>5 DEF Handlers
    <2>7. e \in Events /\ ops \subseteq Events
        BY <2>3, <2>4 DEF Handlers
    <2>8. /\ x \in Handlers /\ x.pc = "write" /\ x.kind = h.kind /\ x.file = h.file
          /\ x.todo = h.todo \ {e} /\ x.row = {} /\ x.rows = h.rows /\ x.ops = ops
        BY <2>3, <2>5, <2>7 DEF Handlers
    <2>9. Sound(t, x)
        BY <2>1, <2>2, <2>3, <2>4, <2>8 DEF Sound, Protected, OnItsWay
    <2> QED  BY <2>1, <2>6, <2>8, <2>9, RecordStep
<1> QED  BY <1>2, <1>3

LEMMA FinishKeeps ==
    ASSUME KizInv, NEW t \in Txns, FinishBulk(t)
    PROVE  KizInv'
<1>1. PICK h : h = txn[t]
    OBVIOUS
<1>2. PICK x : x = [h EXCEPT !.pc = "commit"]
    OBVIOUS
<1>3. /\ h.pc = "write" /\ txn' = [txn EXCEPT ![t] = x]
      /\ UNCHANGED <<history, checks, writes, asked, controls, locks>>
    BY <1>1, <1>2 DEF FinishBulk
<1>4. h \in Handlers /\ Sound(t, h)
    BY <1>1, Here
<1>5. /\ x \in Handlers /\ x.pc = "commit" /\ x.kind = h.kind /\ x.file = h.file
      /\ x.todo = h.todo /\ x.row = h.row /\ x.rows = h.rows /\ x.ops = h.ops
    BY <1>2, <1>4 DEF Handlers
<1>6. Sound(t, x)
    BY <1>3, <1>4, <1>5 DEF Sound, Protected, OnItsWay
<1> QED  BY <1>3, <1>5, <1>6, RecordStep

(* The commit makes rows and operations visible whose codes are locked, so no
   other handler's findings become stale. *)
LEMMA CommitKeeps ==
    ASSUME KizInv, NEW t \in Txns, Commit(t)
    PROVE  KizInv'
<1>1. PICK h : h = txn[t]
    OBVIOUS
<1>2. /\ history' = history \cup h.rows
      /\ writes' = [e \in Events |-> IF e \in h.ops THEN "AWAITING" ELSE writes[e]]
      /\ checks' = [e \in Events |-> IF e \in h.review
                                     THEN [checks[e] EXCEPT !.decision = "MANUAL_REVIEW"]
                                     ELSE checks[e]]
      /\ locks' = Release(t) /\ txn' = [txn EXCEPT ![t] = IdleTxn]
      /\ UNCHANGED <<asked, controls>>
    BY <1>1 DEF Commit
<1>3. /\ h \in Handlers /\ Sound(t, h) /\ locks \in [Kizzes -> Txns \cup {NoTxn}]
      /\ txn \in [Txns -> Handlers]
    BY <1>1, Here DEF KizInv, TypeOK, Handlers
<1>4. history' \subseteq Events
    BY <1>2, <1>3 DEF Handlers, KizInv, TypeOK
<1>5. writes' \in [Events -> {"NONE", "AWAITING", "ADVANCED"}]
    BY <1>2 DEF KizInv, TypeOK
<1>6. checks' \in [Events -> [decision : Decisions, live : BOOLEAN]]
    <2>1. \A e \in Events : checks[e] \in [decision : Decisions, live : BOOLEAN]
        BY DEF KizInv, TypeOK
    <2>2. \A e \in Events : [checks[e] EXCEPT !.decision = "MANUAL_REVIEW"]
                                \in [decision : Decisions, live : BOOLEAN]
        BY <2>1 DEF Decisions
    <2> QED  BY <1>2, <2>1, <2>2
<1>7. /\ locks' \in [Kizzes -> Txns \cup {NoTxn}]
      /\ \A k \in Kizzes : locks'[k] # t /\ (locks'[k] = locks[k] \/ locks'[k] = NoTxn)
      /\ \A k \in Kizzes : locks[k] # t => locks'[k] = locks[k]
    BY <1>2, <1>3, NoTxnAssumption DEF Release
<1>8. txn' \in [Txns -> Handlers] /\ txn'[t] = IdleTxn /\ \A u \in Txns \ {t} : txn'[u] = txn[u]
    BY <1>2, <1>3, IdleType
<1>9. \A k \in Kizzes, u \in Txns : locks'[k] = u => txn'[u].pc # "idle"
    BY <1>7, <1>8, NoTxnAssumption DEF KizInv, TypeOK
<1>10. TypeOK'
    BY <1>2, <1>4, <1>5, <1>6, <1>7, <1>8, <1>9 DEF KizInv, TypeOK, Handlers
<1>11. ASSUME NEW u \in Txns PROVE Sound(u, txn[u])'
    <2>1. CASE u = t
        BY <1>8, <2>1, IdleSoundNext
    <2>2. CASE u # t
        <3>1. PICK y : y = txn[u]
            OBVIOUS
        <3>2. \A k \in Kizzes : locks[k] = u => locks'[k] = u
            BY <1>7, <2>2
        <3>3. history \subseteq history' /\ \A e \in history' \ history : e \in Events /\ locks[KizOf[e]] = t
            BY <1>2, <1>3 DEF Handlers, Sound, Protected
        <3>4. \A e \in Events : writes'[e] # writes[e] => writes[e] # "NONE" \/ locks[KizOf[e]] = t
            BY <1>2, <1>3 DEF Sound, Protected
        <3>5. Sound(u, y)'
            BY <2>2, <3>1, <3>2, <3>3, <3>4, OthersSound
        <3> QED  BY <1>8, <2>2, <3>1, <3>5
    <2> QED  BY <2>1, <2>2
<1> QED  BY <1>10, <1>11 DEF KizInv

(* Control results write checks only, and the write path only takes over
   operations that exist. *)
LEMMA ControlKeeps ==
    ASSUME KizInv, UNCHANGED <<history, locks, txn>>,
           checks' \in [Events -> [decision : Decisions, live : BOOLEAN]],
           writes' \in [Events -> {"NONE", "AWAITING", "ADVANCED"}],
           \A e \in Events : writes'[e] # writes[e] => writes[e] # "NONE",
           asked' \subseteq Events, controls' \in Nat
    PROVE  KizInv'
<1>1. TypeOK'
    BY DEF KizInv, TypeOK
<1>2. ASSUME NEW t \in Txns PROVE Sound(t, txn[t])'
    <2>1. txn[t] \in Handlers /\ Sound(t, txn[t])
        BY Here
    <2>2. \A e \in txn[t].ops : e \in Events /\ writes'[e] = "NONE"
        BY <2>1 DEF Handlers, Sound, Protected
    <2> QED  BY <2>1, <2>2 DEF Sound, Protected, OnItsWay, PolicyOutcome, HistoryOf
<1> QED  BY <1>1, <1>2 DEF KizInv

(* Whatever settles a control run is a decision. *)
LEMMA DecisionsType ==
    /\ \A e \in Events : \A H : PolicyOutcome(e, H).decision \in Decisions
    /\ \A e \in Events, st \in {"IN_CIRCULATION", "WITHDRAWN"} :
          Decide(FactsOf[e], Snapshot(st)).decision \in Decisions
<1>1. ASSUME NEW e \in Events, NEW H PROVE PolicyOutcome(e, H).decision \in Decisions
    BY DEF PolicyOutcome, SequenceOutcome, Outcome, NoOutcome, Decisions
<1>2. ASSUME NEW e \in Events, NEW st \in {"IN_CIRCULATION", "WITHDRAWN"}
      PROVE  Decide(FactsOf[e], Snapshot(st)).decision \in Decisions
    <2>1. FactsOf[e] \in EventFacts
        BY EventsAssumption
    <2>2. Snapshot(st) \in KiStates
        BY DEF Snapshot, KiStates
    <2> QED  BY <2>1, <2>2, DecideType DEF Decisions
<1> QED  BY <1>1, <1>2

LEMMA EventKeeps ==
    ASSUME KizInv, NEW e \in Events,
           RunControl(e) \/ MockControl(e) \/ ApplyControl(e) \/ Advance(e)
    PROVE  KizInv'
<1>1. UNCHANGED <<history, locks, txn>>
    BY DEF RunControl, MockControl, ApplyControl, Advance
<1>2. controls' \in Nat
    BY DEF KizInv, TypeOK, RunControl, MockControl, ApplyControl, Advance
<1>3. asked' \subseteq Events
    <2>1. CASE RunControl(e)
        BY <2>1 DEF KizInv, TypeOK, RunControl
    <2> QED  BY <2>1 DEF KizInv, TypeOK, MockControl, ApplyControl, Advance
<1>4. /\ writes' \in [Events -> {"NONE", "AWAITING", "ADVANCED"}]
      /\ \A d \in Events : writes'[d] # writes[d] => writes[d] # "NONE"
    BY DEF KizInv, TypeOK, RunControl, MockControl, ApplyControl, Advance
<1>5. \/ checks' = checks
      \/ \E d \in Decisions, l \in BOOLEAN : checks' = [checks EXCEPT ![e] = [decision |-> d, live |-> l]]
    <2>1. CASE RunControl(e)
        BY <2>1, DecisionsType DEF RunControl
    <2>2. CASE MockControl(e)
        BY <2>2, DecisionsType DEF MockControl
    <2>3. CASE ApplyControl(e)
        <3>1. PICK d : /\ checks' = [checks EXCEPT ![e] = [decision |-> d, live |-> TRUE]]
                       /\ \/ d = PolicyOutcome(e, history).decision
                          \/ d = Decide(FactsOf[e], Snapshot("IN_CIRCULATION")).decision
                          \/ d = Decide(FactsOf[e], Snapshot("WITHDRAWN")).decision
                          \/ d \in {"ERROR", "MANUAL_REVIEW"}
            BY <2>3 DEF ApplyControl
        <3>2. d \in Decisions
            BY <3>1, DecisionsType DEF Decisions
        <3> QED  BY <3>1, <3>2
    <2>4. CASE Advance(e)
        BY <2>4 DEF Advance
    <2> QED  BY <2>1, <2>2, <2>3, <2>4
<1>6. checks' \in [Events -> [decision : Decisions, live : BOOLEAN]]
    BY <1>5 DEF KizInv, TypeOK
<1> QED  BY <1>1, <1>2, <1>3, <1>4, <1>6, ControlKeeps

LEMMA KizInvStep == KizInv /\ [Next]_vars => KizInv'
<1> SUFFICES ASSUME KizInv, [Next]_vars PROVE KizInv'
    OBVIOUS
<1>1. CASE UNCHANGED vars
    <2>1. TypeOK'
        BY <1>1 DEF vars, KizInv, TypeOK
    <2>2. ASSUME NEW t \in Txns PROVE Sound(t, txn[t])'
        BY <1>1 DEF vars, KizInv, Sound, Protected, OnItsWay, PolicyOutcome, HistoryOf
    <2> QED  BY <2>1, <2>2 DEF KizInv
<1>2. ASSUME NEW t \in Txns, TxnStep(t) PROVE KizInv'
    BY <1>2, AcquireKeeps, InsertKeeps, ValidateKeeps, RowKeeps, LockRowKeeps, PrepareKeeps,
       FinishKeeps, CommitKeeps, RollbackKeeps DEF TxnStep, DeadlockAbort
<1> QED  BY <1>1, <1>2, BeginKeeps, EventKeeps DEF Next

(* Rows, locks and handlers keep their shape, and no advisory lock outlives
   the transaction that took it (pg_advisory_xact_lock). *)
THEOREM KizControlTyped == Spec => []TypeOK
<1>1. KizInv => TypeOK
    BY DEF KizInv
<1> QED  BY KizInvInit, KizInvStep, <1>1, PTL DEF Spec

(* Imports that run at the same time never insert the same event twice. *)
THEOREM ImportsApart == Spec => []ImportsNeverCollide
<1>1. KizInv => ImportsNeverCollide
    BY Here DEF KizInv, Sound, Protected, ImportsNeverCollide
<1> QED  BY KizInvInit, KizInvStep, <1>1, PTL DEF Spec

(* Two batches never create an operation for the same event. *)
THEOREM BatchesApart == Spec => []BatchesNeverCollide
<1>1. KizInv => BatchesNeverCollide
    BY Here DEF KizInv, Sound, Protected, BatchesNeverCollide
<1> QED  BY KizInvInit, KizInvStep, <1>1, PTL DEF Spec

LEMMA OperationsFollow ==
    ASSUME KizInv, [Next]_vars, NEW e \in Events, writes[e] = "NONE", writes'[e] # "NONE"
    PROVE  e \in history' /\ PolicyOutcome(e, history') = NoOutcome
<1>1. PICK t \in Txns : Commit(t)
    <2>1. CASE UNCHANGED vars
        BY <2>1 DEF vars
    <2>2. ASSUME NEW t \in Txns, TxnStep(t), ~Commit(t) PROVE writes' = writes
        <3>1. CASE AcquireLock(t) \/ InsertRows(t) \/ LockRow(t) \/ FinishBulk(t) \/ DeadlockAbort(t)
            BY <3>1 DEF AcquireLock, InsertRows, LockRow, FinishBulk, DeadlockAbort, Rollback
        <3>2. CASE Validate(t)
            BY <3>2 DEF Validate, Rollback
        <3>3. CASE PrepareWrite(t)
            BY <3>3 DEF PrepareWrite, Rollback
        <3>4. CASE \E d \in Events : SkipRow(t, d) \/ AssemblyFails(t, d) \/ EnterPrepare(t, d)
            BY <3>4 DEF SkipRow, AssemblyFails, EnterPrepare
        <3> QED  BY <2>2, <3>1, <3>2, <3>3, <3>4 DEF TxnStep
    <2>3. ASSUME NEW d \in Events, RunControl(d) \/ MockControl(d) \/ ApplyControl(d) PROVE writes' = writes
        BY <2>3 DEF RunControl, MockControl, ApplyControl
    <2>4. ASSUME NEW d \in Events, Advance(d) PROVE FALSE
        BY <2>4 DEF Advance, KizInv, TypeOK
    <2>5. ASSUME NEW t \in Txns, NEW f \in Files, BeginImport(t, f) \/ BeginBulk(t, f) PROVE writes' = writes
        BY <2>5 DEF BeginImport, BeginBulk
    <2> QED  BY <2>1, <2>2, <2>3, <2>4, <2>5 DEF Next
<1>2. e \in txn[t].ops
    BY <1>1 DEF Commit
<1>3. Sound(t, txn[t])
    BY Here
<1>4. txn[t].rows = {}
    BY <1>2, <1>3 DEF Sound, OnItsWay
<1>5. history' = history
    BY <1>1, <1>4 DEF Commit
<1> QED  BY <1>2, <1>3, <1>5 DEF Sound, Protected

(* An operation is only ever created for the event that counts, in the very
   history it becomes visible with. *)
THEOREM OperationsFollowHistory == Spec => WritesFollowHistory
<1>1. KizInv /\ [Next]_vars =>
        [\A e \in Events : writes[e] = "NONE" /\ writes'[e] # "NONE"
             => e \in history' /\ PolicyOutcome(e, history') = NoOutcome]_vars
    BY OperationsFollow
<1> QED  BY KizInvInit, KizInvStep, <1>1, PTL DEF Spec, WritesFollowHistory

=============================================================================
