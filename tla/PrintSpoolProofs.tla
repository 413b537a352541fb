------------------------- MODULE PrintSpoolProofs -------------------------
(* Proofs about printing, for any set of jobs, codes and agents, any bounds  *)
(* on attempts, issues and keys, and any set of faults: an item becomes at   *)
(* most one Windows spool job, the backend's verdicts agree with Windows,    *)
(* the ledger leads the spooler, codes are disclosed only where they may be, *)
(* a job is COMPLETED exactly when it is printed, and verdicts are final.    *)
EXTENDS PrintSpool, FiniteSetTheorems, WellFoundedInduction, TLAPS

----------------------------------------------------------------------------
(* The inductive invariant.                                                  *)

\* The states of an execution whose label may exist.
Crossed == {"SPOOL_SUBMITTING", "SPOOL_JOB_CREATED", "UNKNOWN_AFTER_SPOOL",
            "SPOOLER_ACCEPTED"}

\* What an execution's row, its reservation, its ledger entry and Windows say
\* of each other.
Row(e) ==
    /\ exec[e].state = "NONE" <=> exec[e].agent = "none"
    /\ exec[e].boundary => exec[e].state \in Crossed \cup {"FAILED_PRE_SPOOL"}
    /\ exec[e].state \in Crossed => exec[e].boundary
    /\ started[e] > 0 => /\ started[e] = 1
                         /\ exec[e].state \in Crossed
                         /\ ledger[e] \in Irreversible \ {"FAILED_PRE_SPOOL"}
    /\ exec[e].winjob # 0 => exec[e].winjob = 1 /\ started[e] = 1
    /\ exec[e].state = "SPOOLER_ACCEPTED" => exec[e].winjob = 1

\* A live reservation: the execution waits for its code, the key can be used.
Reserved(e) ==
    res[e].state \in Live =>
        /\ exec[e].state \in PreSpoolIssuable
        /\ res[e].key \in Versions
        /\ keys[exec[e].agent][res[e].key] \in {"ACTIVE", "RETIRING"}

\* An attempt that keeps its item from being attempted again.
Active(e) == exec[e].boundary \/ exec[e].state \in Nonterminal

OneActive ==
    \A e, f \in Executions : Active(e) /\ Active(f) /\ ItemOf(e) = ItemOf(f) => e = f

\* What an agent's process knows of the execution it works on.
RunAt(a) ==
    /\ run[a].pc # "idle" => run[a].exec \in Executions /\ exec[run[a].exec].agent = a
    /\ run[a].pc \in {"crossed", "spooling"} =>
           started[run[a].exec] = 0 /\ ledger[run[a].exec] = "SPOOL_SUBMITTING"
    /\ run[a].pc = "spooling" =>
           exec[run[a].exec].state \in {"SPOOL_SUBMITTING", "UNKNOWN_AFTER_SPOOL"}
    /\ run[a].pc \in {"started", "created", "feeding", "ambiguous"} =>
           started[run[a].exec] = 1 /\ run[a].doc = 1
    /\ run[a].pc = "verdict" =>
           IF run[a].verdict \in {"FAILED_PRE_SPOOL", "BLOCKED"}
           THEN started[run[a].exec] = 0 /\ run[a].doc = 0
           ELSE /\ run[a].verdict \in {"SPOOLER_ACCEPTED", "UNKNOWN_AFTER_SPOOL"}
                /\ started[run[a].exec] = 1 /\ run[a].doc = 1

\* An item is COMPLETED when one of its attempts is accepted, a job when all
\* of its items are.
ItemsAgree ==
    /\ \A e \in Executions : exec[e].state # "NONE" => item[ItemOf(e)] # "NONE"
    /\ \A i \in Items : item[i] # "NONE" => job[i[1]] # "NONE"
    /\ \A i \in Items : item[i] = "COMPLETED"
                           <=> \E e \in AttemptsAt(i) : exec[e].state = "SPOOLER_ACCEPTED"
    /\ \A j \in Jobs : job[j] # "NONE" =>
           (job[j] = "COMPLETED" <=> \A i \in ItemsOf(j) : item[i] = "COMPLETED")

PrintInv ==
    /\ TypeOK
    /\ \A e \in Executions : Row(e)
    /\ \A e \in Executions : Reserved(e)
    /\ OneActive
    /\ \A a \in Agents : RunAt(a)
    /\ ItemsAgree

----------------------------------------------------------------------------
(* The type invariant in two halves, and the records it is made of.          *)

ExecRecords == [state : {"NONE"} \cup Nonterminal \cup Terminal,
                agent : Agents \cup {"none"}, boundary : BOOLEAN, winjob : Nat]
ResRecords == [state : {"NONE", "ACKNOWLEDGED", "EXPIRED", "BLOCKED", "REVOKED"} \cup Live,
               count : 0 .. MaxIssue, key : 0 .. MaxKeys]
RunRecords == [pc : PCs, exec : Executions \cup {<<>>},
               verdict : Terminal \cup {"NONE"}, doc : Nat]
LedgerStates == {"NONE", "RENDERED_VERIFIED", "BLOCKED"} \cup Irreversible

BackendType ==
    /\ job \in [Jobs -> {"NONE", "READY_FOR_AGENT", "FAILED", "BLOCKED", "COMPLETED"}]
    /\ printer \in [Jobs -> Agents \cup {"none"}]
    /\ item \in [Items -> {"NONE", "PENDING", "RENDERED", "FAILED", "BLOCKED", "COMPLETED"}]
    /\ exec \in [Executions -> ExecRecords]
    /\ res \in [Executions -> ResRecords]
    /\ acked \in Seq(Executions)
    /\ keys \in [Agents -> [Versions -> {"NONE", "ACTIVE", "RETIRING", "REVOKED"}]]
    /\ intents \subseteq [agent : Agents,
                          purpose : {"FIRST_REGISTRATION", "ROTATE", "REPLACE_LOST"},
                          base : 0 .. MaxKeys]
    /\ binding \in [Agents -> {"ACTIVE", "DISABLED"}]
    /\ lapsed \subseteq Executions \cup (Agents \X Versions)

AgentType ==
    /\ ledger \in [Executions -> LedgerStates]
    /\ localKey \in [Agents -> 0 .. MaxKeys]
    /\ started \in [Executions -> Nat]
    /\ run \in [Agents -> RunRecords]

LEMMA TypeHalves == TypeOK <=> BackendType /\ AgentType
  BY DEF TypeOK, BackendType, AgentType, ExecRecords, ResRecords, RunRecords, LedgerStates

\* The part of the invariant that backend handlers can disturb.
BackendInv ==
    /\ BackendType
    /\ \A e \in Executions : Row(e)
    /\ \A e \in Executions : Reserved(e)
    /\ OneActive
    /\ ItemsAgree

LEMMA Halves ==
    PrintInv <=> BackendInv /\ AgentType /\ \A a \in Agents : RunAt(a)
  BY TypeHalves DEF PrintInv, BackendInv

LEMMA HalvesNext ==
    PrintInv' <=> BackendInv' /\ AgentType' /\ \A a \in Agents : RunAt(a)'
<1>1. TypeOK' <=> BackendType' /\ AgentType'
  BY DEF TypeOK, BackendType, AgentType, ExecRecords, ResRecords, RunRecords, LedgerStates
<1>. QED  BY <1>1 DEF PrintInv, BackendInv

----------------------------------------------------------------------------
(* Facts about the operators of the model.                                   *)

\* A bounded set of numbers has a maximum, found as the smallest upper part.
LEMMA MaxIn ==
    ASSUME NEW n \in Nat, NEW S, S \subseteq 0 .. n, S # {}
    PROVE  Max(S) \in S /\ \A x \in S : x <= Max(S)
<1>. DEFINE up(x) == x .. n
            T == {up(x) : x \in S}
            R == StrictSubsetOrdering(Int)
<1>1. \A x \in S : x \in Nat /\ x <= n
  OBVIOUS
<1>2. \A x \in S : IsFiniteSet(up(x)) /\ up(x) \subseteq Int
  BY <1>1, FS_Interval
<1>3. T \subseteq FiniteSubsetsOf(Int)
  BY <1>2 DEF FiniteSubsetsOf
<1>4. T # {}
  OBVIOUS
<1>5. IsWellFoundedOn(R, FiniteSubsetsOf(Int))
  BY FS_StrictSubsetOrderingWellFounded
<1>. HIDE DEF T
<1>6. PICK t \in T : \A y \in T : ~ (<<y, t>> \in R)
  <2>. HIDE DEF R
  <2>. QED  BY <1>3, <1>4, <1>5, WFMin, Zenon
<1>7. PICK m \in S : t = up(m)
  BY DEF T
<1>8. ASSUME NEW x \in S, ~ (x <= m) PROVE FALSE
  <2>1. up(x) \subseteq up(m) /\ m \in up(m) /\ m \notin up(x)
    BY <1>1, <1>8
  <2>2. up(x) \in T
    BY DEF T
  <2>. QED  BY <1>2, <1>6, <1>7, <2>1, <2>2 DEF StrictSubsetOrdering
<1>9. m \in S /\ \A x \in S : m >= x
  BY <1>1, <1>8
<1>. QED  BY <1>1, <1>9 DEF Max

\* A non-empty set of natural numbers has a minimum.
LEMMA MinIn ==
    ASSUME NEW S, S \subseteq Nat, S # {}
    PROVE  Min(S) \in S
<1>. DEFINE low(x) == 0 .. x
            T == {low(x) : x \in S}
            R == StrictSubsetOrdering(Int)
<1>2. \A x \in S : IsFiniteSet(low(x)) /\ low(x) \subseteq Int
  BY FS_Interval
<1>3. T \subseteq FiniteSubsetsOf(Int)
  BY <1>2 DEF FiniteSubsetsOf
<1>4. T # {}
  OBVIOUS
<1>5. IsWellFoundedOn(R, FiniteSubsetsOf(Int))
  BY FS_StrictSubsetOrderingWellFounded
<1>. HIDE DEF T
<1>6. PICK t \in T : \A y \in T : ~ (<<y, t>> \in R)
  <2>. HIDE DEF R
  <2>. QED  BY <1>3, <1>4, <1>5, WFMin, Zenon
<1>7. PICK m \in S : t = low(m)
  BY DEF T
<1>8. ASSUME NEW x \in S, ~ (m <= x) PROVE FALSE
  <2>1. low(x) \subseteq low(m) /\ m \in low(m) /\ m \notin low(x)
    BY <1>8
  <2>2. low(x) \in T
    BY DEF T
  <2>. QED  BY <1>2, <1>6, <1>7, <2>1, <2>2 DEF StrictSubsetOrdering
<1>9. m \in S /\ \A x \in S : m <= x
  BY <1>8
<1>. QED  BY <1>9 DEF Min

\* The attempts at an item are the executions of that item.
LEMMA Attempts ==
    ASSUME NEW i \in Items
    PROVE  \A e : e \in AttemptsAt(i) <=> e \in Executions /\ ItemOf(e) = i
  BY DEF Items, Executions, AttemptsAt, ItemOf

LEMMA ItemOfType ==
    ASSUME NEW e \in Executions
    PROVE  /\ ItemOf(e) \in Items /\ ItemOf(e)[1] = e[1] /\ e[1] \in Jobs
           /\ e \in AttemptsAt(ItemOf(e))
  BY DEF Items, Executions, ItemOf, AttemptsAt

LEMMA ItemsOfType ==
    ASSUME NEW j \in Jobs
    PROVE  \A i : i \in ItemsOf(j) <=> i \in Items /\ i[1] = j /\ item[i] # "NONE"
  BY DEF Items, ItemsOf

\* The next attempt at an item is a row that is not in use.
LEMMA NextAttemptIsNew ==
    ASSUME NEW i \in Items, NextAttempt(i) <= MaxAttempts
    PROVE  LET e == <<i[1], i[2], NextAttempt(i)>>
           IN  e \in Executions /\ ItemOf(e) = i /\ exec[e].state = "NONE"
<1>. DEFINE U == {n \in 1 .. MaxAttempts : exec[<<i[1], i[2], n>>].state # "NONE"}
            N == NextAttempt(i)
            V == {0} \cup U
            m == Max(V)
<1>1. V \subseteq 0 .. MaxAttempts /\ V # {} /\ MaxAttempts \in Nat
  BY PrintDeliveryAssumption
<1>2. m \in V /\ \A x \in V : x <= m
  <2>. HIDE DEF V
  <2>. QED  BY <1>1, MaxIn
<1>3. N = m + 1
  BY DEF NextAttempt
<1>. HIDE DEF N, m
<1>4. N \in 1 .. MaxAttempts
  BY <1>1, <1>2, <1>3 DEF N
<1>5. N \notin U
  BY <1>1, <1>2, <1>3
<1>6. <<i[1], i[2], N>> \in Executions /\ ItemOf(<<i[1], i[2], N>>) = i
  BY <1>4 DEF Executions, Items, ItemOf
<1>7. exec[<<i[1], i[2], N>>].state = "NONE"
  BY <1>4, <1>5
<1>. QED  BY <1>6, <1>7 DEF N

\* The control of an agent is for an execution of that agent.
LEMMA ControlIsOwn ==
    ASSUME BackendType, NEW a \in Agents, HasControl(a)
    PROVE  /\ Control(a) \in Executions
           /\ exec[Control(a)].agent = a
           /\ exec[Control(a)].state = "PAYLOAD_DELIVERED"
<1>1. Renderable(a) \subseteq Nat /\ Renderable(a) \subseteq DOMAIN acked
  BY DEF Renderable, BackendType
<1>2. Min(Renderable(a)) \in Renderable(a)
  BY <1>1, MinIn DEF HasControl
<1>3. acked[Min(Renderable(a))] \in Executions
  BY <1>1, <1>2 DEF BackendType
<1>. QED  BY <1>2, <1>3 DEF Renderable, Control

----------------------------------------------------------------------------
(* Frames: what a step of one agent leaves alone.                            *)

\* The other processes' knowledge stays true when their executions keep their
\* ledger entry, their labels and their way through the spooler.
LEMMA RunKeeps ==
    ASSUME AgentType, \A a \in Agents : RunAt(a), NEW B \in SUBSET Agents,
           \A b \in B : run'[b] = run[b],
           \A e \in Executions : exec[e].agent \in B =>
               /\ exec'[e].agent = exec[e].agent
               /\ ledger'[e] = ledger[e] /\ started'[e] = started[e]
               /\ exec[e].state \in {"SPOOL_SUBMITTING", "UNKNOWN_AFTER_SPOOL"} =>
                      exec'[e].state \in {"SPOOL_SUBMITTING", "UNKNOWN_AFTER_SPOOL"}
    PROVE  \A b \in B : RunAt(b)'
  BY DEF RunAt

\* A step of an agent alone: its process moves to r, the ledger entry of one of
\* its executions becomes s and the number of its labels n.
LEMMA AgentMoves ==
    ASSUME PrintInv, NEW a \in Agents, NEW e \in Executions, exec[e].agent = a,
           NEW s \in LedgerStates, NEW n \in Nat, NEW r \in RunRecords,
           UNCHANGED backend, UNCHANGED localKey,
           ledger' = [ledger EXCEPT ![e] = s],
           started' = [started EXCEPT ![e] = n],
           run' = [run EXCEPT ![a] = r],
           n >= started[e],
           n > 0 => /\ n = 1 /\ exec[e].state \in Crossed
                    /\ s \in Irreversible \ {"FAILED_PRE_SPOOL"},
           RunAt(a)'
    PROVE  PrintInv'
<1>0. BackendInv /\ AgentType /\ \A b \in Agents : RunAt(b)
  BY Halves
<1>. USE <1>0
<1>1. AgentType'
  BY DEF AgentType
<1>2. BackendType' /\ OneActive' /\ ItemsAgree' /\ \A f \in Executions : Reserved(f)'
  BY DEF BackendInv, BackendType, OneActive, Active, ItemsAgree, ItemsOf, Reserved, backend
<1>3. ASSUME NEW f \in Executions PROVE Row(f)'
  <2>1. CASE f = e
    BY <2>1 DEF BackendInv, Row, backend, AgentType, BackendType, ExecRecords
  <2>2. CASE f # e
    BY <2>2 DEF BackendInv, Row, backend, AgentType
  <2>. QED  BY <2>1, <2>2
<1>4. \A b \in Agents \ {a} : RunAt(b)'
  <2>1. \A b \in Agents \ {a} : run'[b] = run[b]
    BY DEF AgentType
  <2>2. \A f \in Executions : exec[f].agent \in Agents \ {a} =>
            ledger'[f] = ledger[f] /\ started'[f] = started[f] /\ exec'[f] = exec[f]
    BY Zenon DEF AgentType, backend
  <2>3. Agents \ {a} \in SUBSET Agents
    OBVIOUS
  <2>. QED  BY <2>1, <2>2, <2>3, RunKeeps
<1>. QED  BY <1>1, <1>2, <1>3, <1>4, HalvesNext DEF BackendInv

\* The same without a new label.
LEMMA LedgerMoves ==
    ASSUME PrintInv, NEW a \in Agents, NEW e \in Executions, exec[e].agent = a,
           NEW s \in LedgerStates, NEW r \in RunRecords,
           UNCHANGED <<backend, localKey, started>>,
           ledger' = [ledger EXCEPT ![e] = s],
           run' = [run EXCEPT ![a] = r],
           started[e] = 0 \/ s \in Irreversible \ {"FAILED_PRE_SPOOL"},
           RunAt(a)'
    PROVE  PrintInv'
<1>. DEFINE n == started[e]
<1>1. /\ n \in Nat /\ n >= started[e]
      /\ n > 0 => /\ n = 1 /\ exec[e].state \in Crossed
                  /\ s \in Irreversible \ {"FAILED_PRE_SPOOL"}
  BY Halves DEF BackendInv, AgentType, Row
<1>2. started' = [started EXCEPT ![e] = n]
  BY Halves DEF AgentType
<1>3. UNCHANGED backend /\ UNCHANGED localKey
  OBVIOUS
<1>. HIDE DEF n
<1>. QED  BY <1>1, <1>2, <1>3, AgentMoves

\* A step that changes a process and nothing else.
LEMMA ProcessMoves ==
    ASSUME PrintInv, NEW a \in Agents, NEW r \in RunRecords,
           UNCHANGED <<backend, ledger, localKey, started>>,
           run' = [run EXCEPT ![a] = r],
           RunAt(a)'
    PROVE  PrintInv'
<1>0. BackendInv /\ AgentType /\ \A b \in Agents : RunAt(b)
  BY Halves
<1>. USE <1>0
<1>1. AgentType'
  BY DEF AgentType
<1>2. BackendInv'
  BY DEF BackendInv, BackendType, Row, OneActive, Active, ItemsAgree, ItemsOf, Reserved, backend
<1>3. \A b \in Agents \ {a} : run'[b] = run[b]
  BY DEF AgentType
<1>4. Agents \ {a} \in SUBSET Agents
  OBVIOUS
<1>5. \A b \in Agents \ {a} : RunAt(b)'
  BY <1>3, <1>4, RunKeeps DEF backend
<1>. QED  BY <1>1, <1>2, <1>5, HalvesNext

\* The process stops: it holds nothing.
LEMMA ProcessStops ==
    ASSUME PrintInv, NEW a \in Agents, Stop(a),
           UNCHANGED <<backend, ledger, localKey, started>>
    PROVE  PrintInv'
<1>1. Idle \in RunRecords
  BY DEF Idle, Run, RunRecords, PCs
<1>2. run[a] \in RunRecords /\ run'[a] = Idle
  BY Halves DEF AgentType, Stop
<1>3. RunAt(a)'
  BY <1>2 DEF RunAt, Idle, Run
<1>. QED  BY <1>1, <1>3, ProcessMoves DEF Stop

\* What Goto and Run make of a process.
LEMMA GotoIs ==
    ASSUME AgentType, NEW a \in Agents, NEW pc \in PCs, Goto(a, pc)
    PROVE  \E r \in RunRecords : /\ run' = [run EXCEPT ![a] = r] /\ run'[a] = r
                                 /\ r.pc = pc /\ r.exec = run[a].exec /\ r.doc = run[a].doc
<1>. DEFINE r == [run[a] EXCEPT !.pc = pc]
<1>0. run[a] \in RunRecords
  BY DEF AgentType
<1>1. /\ r \in RunRecords
      /\ r.pc = pc /\ r.exec = run[a].exec /\ r.doc = run[a].doc
  BY <1>0 DEF RunRecords
<1>2. run' = [run EXCEPT ![a] = r]
  BY DEF Goto
<1>3. run'[a] = r
  BY <1>2 DEF AgentType
<1>. HIDE DEF r
<1>. QED  BY <1>1, <1>2, <1>3

LEMMA RunIs ==
    ASSUME NEW pc \in PCs, NEW e \in Executions, NEW v \in Terminal \cup {"NONE"},
           NEW d \in Nat
    PROVE  /\ Run(pc, e, v, d) \in RunRecords
           /\ Run(pc, e, v, d).pc = pc /\ Run(pc, e, v, d).exec = e
           /\ Run(pc, e, v, d).verdict = v /\ Run(pc, e, v, d).doc = d
  BY DEF Run, RunRecords

LEMMA RunOf ==
    ASSUME PrintInv, NEW a \in Agents, ~At(a, "idle")
    PROVE  /\ run[a] \in RunRecords /\ run[a].exec \in Executions
           /\ exec[run[a].exec].agent = a
           /\ Row(run[a].exec) /\ RunAt(a)
           /\ exec[run[a].exec] \in ExecRecords /\ res[run[a].exec] \in ResRecords
           /\ ledger[run[a].exec] \in LedgerStates /\ started[run[a].exec] \in Nat
<1>1. /\ run[a] \in RunRecords /\ run[a].exec \in Executions
      /\ exec[run[a].exec].agent = a /\ RunAt(a)
  BY Halves DEF AgentType, RunAt, At
<1>2. Row(run[a].exec)
  BY <1>1, Halves DEF BackendInv
<1>. QED  BY <1>1, <1>2, Halves DEF BackendInv, BackendType, AgentType

----------------------------------------------------------------------------
(* Steps of an agent that reach no backend.                                  *)

LEMMA FetchDeliveryKeeps ==
    ASSUME PrintInv, NEW a \in Agents, FetchDelivery(a)
    PROVE  PrintInv'
<1>1. PICK e \in Offered(a) : run' = [run EXCEPT ![a] = Run("offered", e, "NONE", 0)]
  BY DEF FetchDelivery, Start
<1>2. e \in Executions /\ exec[e].agent = a
  BY DEF Offered
<1>. DEFINE r == Run("offered", e, "NONE", 0)
<1>3. r \in RunRecords /\ r.pc = "offered" /\ r.exec = e
  BY <1>2, RunIs DEF PCs
<1>. HIDE DEF r
<1>4. run' = [run EXCEPT ![a] = r] /\ UNCHANGED <<backend, ledger, localKey, started>>
  BY <1>1 DEF r, FetchDelivery
<1>5. run'[a] = r /\ exec' = exec
  BY <1>4, Halves DEF AgentType, backend
<1>6. RunAt(a)'
  BY <1>2, <1>3, <1>5 DEF RunAt
<1>. QED  BY <1>3, <1>4, <1>6, ProcessMoves

LEMMA StopsKeep ==
    ASSUME PrintInv, NEW a \in Agents,
           NoControl(a) \/ ResolveRaises(a) \/ Crash(a)
    PROVE  PrintInv'
  BY ProcessStops DEF NoControl, ResolveRaises, Crash

LEMMA RenderKeeps ==
    ASSUME PrintInv, NEW a \in Agents, Render(a)
    PROVE  PrintInv'
<1>. DEFINE e == Control(a)
            r == Run("rendered", e, "NONE", 0)
<1>1. e \in Executions /\ exec[e].agent = a
  BY Halves, ControlIsOwn DEF Render, BackendInv
<1>2. CASE ledger[e] \in Irreversible
  BY <1>2, ProcessStops DEF Render
<1>3. CASE ledger[e] \notin Irreversible
  <2>1. /\ ledger' = [ledger EXCEPT ![e] = "RENDERED_VERIFIED"]
        /\ run' = [run EXCEPT ![a] = r]
        /\ UNCHANGED <<backend, localKey, started>>
    BY <1>3 DEF Render, Record, Start
  <2>2. r \in RunRecords /\ r.pc = "rendered" /\ r.exec = e
    BY <1>1, RunIs DEF PCs
  <2>. HIDE DEF e, r
  <2>3. started[e] = 0 /\ started' = [started EXCEPT ![e] = 0]
    BY <1>1, <1>3, <2>1, Halves DEF BackendInv, Row, AgentType
  <2>4. run'[a] = r /\ exec' = exec
    BY <2>1, Halves DEF AgentType, backend
  <2>5. RunAt(a)'
    BY <1>1, <2>2, <2>4 DEF RunAt
  <2>6. "RENDERED_VERIFIED" \in LedgerStates
    BY DEF LedgerStates
  <2>. QED  BY <1>1, <2>1, <2>2, <2>3, <2>5, <2>6, LedgerMoves
<1>. QED  BY <1>2, <1>3

LEMMA RenderFailsKeeps ==
    ASSUME PrintInv, NEW a \in Agents, RenderFails(a)
    PROVE  PrintInv'
<1>. DEFINE e == Control(a)
<1>1. e \in Executions /\ exec[e].agent = a
  BY Halves, ControlIsOwn DEF RenderFails, BackendInv
<1>2. CASE ledger[e] \in Irreversible
  BY <1>2, ProcessStops DEF RenderFails
<1>3. CASE ledger[e] \notin Irreversible
  <2>1. PICK v \in {"FAILED_PRE_SPOOL", "BLOCKED"} :
            /\ ledger' = [ledger EXCEPT ![e] = v]
            /\ run' = [run EXCEPT ![a] = Run("verdict", e, v, 0)]
    BY <1>3 DEF RenderFails, Record, Conclude
  <2>. DEFINE r == Run("verdict", e, v, 0)
  <2>2. r \in RunRecords /\ r.pc = "verdict" /\ r.exec = e /\ r.verdict = v /\ r.doc = 0
    BY <1>1, RunIs DEF PCs, Terminal
  <2>0. UNCHANGED <<backend, localKey, started>>
    BY DEF RenderFails
  <2>. HIDE DEF e
  <2>3. started[e] = 0 /\ started' = [started EXCEPT ![e] = 0]
    BY <1>1, <1>3, <2>0, Halves DEF BackendInv, Row, AgentType
  <2>4. run'[a] = r /\ exec' = exec
    BY <2>0, <2>1, Halves DEF AgentType, backend
  <2>. HIDE DEF r
  <2>5. RunAt(a)'
    BY <1>1, <2>0, <2>2, <2>3, <2>4 DEF RunAt
  <2>6. v \in LedgerStates
    BY DEF LedgerStates, Irreversible
  <2>. QED  BY <1>1, <2>0, <2>1, <2>2, <2>3, <2>5, <2>6, LedgerMoves DEF r
<1>. QED  BY <1>2, <1>3

LEMMA CrossSpoolBoundaryKeeps ==
    ASSUME PrintInv, NEW a \in Agents, CrossSpoolBoundary(a)
    PROVE  PrintInv'
<1>. DEFINE e == run[a].exec
<1>1. ~At(a, "idle")
  BY DEF CrossSpoolBoundary, At
<1>2. e \in Executions /\ exec[e].agent = a /\ Row(e) /\ AgentType /\ started[e] \in Nat
  BY <1>1, RunOf, Halves
<1>3. CASE ledger[e] # "RENDERED_VERIFIED"
  BY <1>3, ProcessStops DEF CrossSpoolBoundary
<1>4. CASE ledger[e] = "RENDERED_VERIFIED"
  <2>1. /\ ledger' = [ledger EXCEPT ![e] = "SPOOL_SUBMITTING"]
        /\ Goto(a, "crossed")
        /\ UNCHANGED <<backend, localKey, started>>
    BY <1>4 DEF CrossSpoolBoundary, Record
  <2>2. PICK r \in RunRecords : /\ run' = [run EXCEPT ![a] = r] /\ run'[a] = r
                                /\ r.pc = "crossed" /\ r.exec = e
    BY <1>2, <2>1, GotoIs DEF PCs
  <2>. HIDE DEF e
  <2>3. started[e] = 0
    BY <1>2, <1>4 DEF Row, Irreversible
  <2>4. exec' = exec /\ started'[e] = 0 /\ ledger'[e] = "SPOOL_SUBMITTING"
    BY <1>2, <2>1, <2>3 DEF backend, AgentType
  <2>5. RunAt(a)'
    BY <1>2, <2>2, <2>4 DEF RunAt
  <2>6. "SPOOL_SUBMITTING" \in LedgerStates
    BY DEF LedgerStates, Irreversible
  <2>. QED  BY <1>2, <2>1, <2>2, <2>3, <2>5, <2>6, LedgerMoves
<1>. QED  BY <1>3, <1>4

LEMMA SpoolFailsKeeps ==
    ASSUME PrintInv, NEW a \in Agents, SpoolFails(a)
    PROVE  PrintInv'
<1>. DEFINE e == run[a].exec
            r == Run("verdict", e, "FAILED_PRE_SPOOL", 0)
<1>1. ~At(a, "idle")
  BY DEF SpoolFails, At
<1>2. e \in Executions /\ exec[e].agent = a /\ AgentType /\ started[e] = 0
  BY <1>1, RunOf, Halves DEF RunAt, SpoolFails, At
<1>3. /\ ledger' = [ledger EXCEPT ![e] = "FAILED_PRE_SPOOL"]
      /\ run' = [run EXCEPT ![a] = r]
      /\ UNCHANGED <<backend, localKey, started>>
  BY DEF SpoolFails, Record, Conclude
<1>4. /\ r \in RunRecords /\ r.pc = "verdict" /\ r.exec = e
      /\ r.verdict = "FAILED_PRE_SPOOL" /\ r.doc = 0
  BY <1>2, RunIs DEF PCs, Terminal
<1>. HIDE DEF e, r
<1>5. run'[a] = r /\ exec' = exec /\ started' = started
  BY <1>2, <1>3 DEF AgentType, backend
<1>6. RunAt(a)'
  BY <1>2, <1>4, <1>5 DEF RunAt
<1>7. "FAILED_PRE_SPOOL" \in LedgerStates
  BY DEF LedgerStates, Irreversible
<1>. QED  BY <1>2, <1>3, <1>4, <1>6, <1>7, LedgerMoves

\* The label exists from here on: the boundary was crossed in the ledger and
\* in the backend, and no label of this execution existed.
LEMMA StartDocKeeps ==
    ASSUME PrintInv, NEW a \in Agents, StartDoc(a)
    PROVE  PrintInv'
<1>. DEFINE e == run[a].exec
            r == Run("started", e, "NONE", 1)
            s == ledger[e]
<1>1. ~At(a, "idle")
  BY DEF StartDoc, At
<1>2. /\ e \in Executions /\ exec[e].agent = a /\ AgentType /\ started[e] = 0
      /\ s = "SPOOL_SUBMITTING" /\ exec[e].state \in Crossed
  BY <1>1, RunOf, Halves DEF RunAt, StartDoc, At, Crossed
<1>3. /\ started' = [started EXCEPT ![e] = 1]
      /\ run' = [run EXCEPT ![a] = r]
      /\ UNCHANGED backend /\ UNCHANGED ledger /\ UNCHANGED localKey
  <2>1. /\ started' = [started EXCEPT ![e] = started[e] + 1]
        /\ run' = [run EXCEPT ![a] = Run("started", e, "NONE", started[e] + 1)]
        /\ UNCHANGED backend /\ UNCHANGED ledger /\ UNCHANGED localKey
    BY DEF StartDoc
  <2>. HIDE DEF e
  <2>2. started[e] + 1 = 1
    BY <1>2
  <2>. QED  BY <2>1, <2>2
<1>4. r \in RunRecords /\ r.pc = "started" /\ r.exec = e /\ r.doc = 1
  <2>1. "started" \in PCs /\ 1 \in Nat
    BY DEF PCs
  <2>. HIDE DEF e
  <2>. QED  BY <1>2, <2>1 DEF Run, RunRecords
<1>. HIDE DEF e, r
<1>5. run'[a] = r /\ exec' = exec /\ started'[e] = 1 /\ ledger' = [ledger EXCEPT ![e] = s]
  BY <1>2, <1>3 DEF AgentType, backend
<1>6. RunAt(a)'
  BY <1>2, <1>4, <1>5 DEF RunAt
<1>7. s \in LedgerStates /\ s \in Irreversible \ {"FAILED_PRE_SPOOL"}
  BY <1>2 DEF LedgerStates, Irreversible
<1>. DEFINE n == 1
<1>8. /\ n \in Nat /\ n >= started[e] /\ started' = [started EXCEPT ![e] = n]
      /\ n > 0 => /\ n = 1 /\ exec[e].state \in Crossed
                  /\ s \in Irreversible \ {"FAILED_PRE_SPOOL"}
  BY <1>2, <1>3, <1>7
<1>. HIDE DEF n, s
<1>. QED  BY <1>2, <1>3, <1>4, <1>5, <1>6, <1>7, <1>8, AgentMoves

LEMMA RecordJobCreatedKeeps ==
    ASSUME PrintInv, NEW a \in Agents, RecordJobCreated(a)
    PROVE  PrintInv'
<1>. DEFINE e == run[a].exec
<1>1. ~At(a, "idle")
  BY DEF RecordJobCreated, At
<1>2. /\ e \in Executions /\ exec[e].agent = a /\ AgentType
      /\ started[e] = 1 /\ run[a].doc = 1
  BY <1>1, RunOf, Halves DEF RunAt, RecordJobCreated, At
<1>3. /\ ledger' = [ledger EXCEPT ![e] = "SPOOL_JOB_CREATED"]
      /\ Goto(a, "created")
      /\ UNCHANGED <<backend, localKey, started>>
  BY DEF RecordJobCreated, Record
<1>4. PICK r \in RunRecords : /\ run' = [run EXCEPT ![a] = r] /\ run'[a] = r
                              /\ r.pc = "created" /\ r.exec = e /\ r.doc = 1
  BY <1>2, <1>3, GotoIs DEF PCs
<1>. HIDE DEF e
<1>5. exec' = exec /\ started' = started
  BY <1>3 DEF backend
<1>6. RunAt(a)'
  BY <1>2, <1>4, <1>5 DEF RunAt
<1>7. "SPOOL_JOB_CREATED" \in LedgerStates \cap (Irreversible \ {"FAILED_PRE_SPOOL"})
  BY DEF LedgerStates, Irreversible
<1>. QED  BY <1>2, <1>3, <1>4, <1>6, <1>7, LedgerMoves

LEMMA RecordOutcomeKeeps ==
    ASSUME PrintInv, NEW a \in Agents,
           NEW v \in {"SPOOLER_ACCEPTED", "UNKNOWN_AFTER_SPOOL"}, RecordOutcome(a, v)
    PROVE  PrintInv'
<1>. DEFINE e == run[a].exec
            r == Run("verdict", e, v, run[a].doc)
<1>1. ~At(a, "idle") /\ run[a].pc \in {"feeding", "ambiguous"}
  BY DEF RecordOutcome, At
<1>2. /\ e \in Executions /\ exec[e].agent = a /\ AgentType
      /\ started[e] = 1 /\ run[a].doc = 1
  BY <1>1, RunOf, Halves DEF RunAt
<1>3. /\ ledger' = [ledger EXCEPT ![e] = v]
      /\ run' = [run EXCEPT ![a] = r]
      /\ UNCHANGED <<backend, localKey, started>>
  BY DEF RecordOutcome, Record, Conclude
<1>4. r \in RunRecords /\ r.pc = "verdict" /\ r.exec = e /\ r.verdict = v /\ r.doc = 1
  BY <1>2, RunIs DEF PCs, Terminal
<1>. HIDE DEF e, r
<1>5. run'[a] = r /\ exec' = exec /\ started' = started
  BY <1>2, <1>3 DEF AgentType, backend
<1>6. RunAt(a)'
  BY <1>2, <1>4, <1>5 DEF RunAt
<1>7. v \in LedgerStates /\ v \in Irreversible \ {"FAILED_PRE_SPOOL"}
  BY DEF LedgerStates, Irreversible
<1>. QED  BY <1>2, <1>3, <1>4, <1>6, <1>7, LedgerMoves

LEMMA GenerateKeyKeeps ==
    ASSUME PrintInv, NEW a \in Agents, GenerateKey(a)
    PROVE  PrintInv'
<1>1. UNCHANGED <<backend, ledger, run, started>> /\ localKey' = [localKey EXCEPT ![a] = 0]
  BY DEF GenerateKey
<1>2. AgentType'
  BY <1>1, Halves, PrintDeliveryAssumption DEF AgentType
<1>3. BackendInv'
  BY <1>1, Halves DEF BackendInv, BackendType, Row, OneActive, Active, ItemsAgree, ItemsOf,
                      Reserved, backend
<1>4. \A b \in Agents : RunAt(b)'
  BY <1>1, Halves DEF RunAt, backend
<1>. QED  BY <1>2, <1>3, <1>4, HalvesNext

----------------------------------------------------------------------------
(* Steps of the backend that concern one execution.                          *)

\* One execution's row becomes x and its reservation q.
LEMMA RowMoves ==
    ASSUME BackendInv, AgentType,
           NEW e \in Executions, NEW x \in ExecRecords, NEW q \in ResRecords,
           exec' = [exec EXCEPT ![e] = x], res' = [res EXCEPT ![e] = q],
           UNCHANGED keys, UNCHANGED ledger, UNCHANGED started,
           exec[e].state # "NONE", x.state # "NONE", x.agent = exec[e].agent,
           x.boundary \/ x.state \in Nonterminal => Active(e),
           x.boundary => x.state \in Crossed \cup {"FAILED_PRE_SPOOL"},
           x.state \in Crossed => x.boundary,
           started[e] > 0 => x.state \in Crossed,
           x.winjob # 0 => x.winjob = 1 /\ started[e] = 1,
           x.state = "SPOOLER_ACCEPTED" => x.winjob = 1,
           q.state \in Live => /\ res[e].state \in Live /\ q.key = res[e].key
                               /\ x.state \in PreSpoolIssuable
    PROVE  /\ exec' \in [Executions -> ExecRecords]
           /\ res' \in [Executions -> ResRecords]
           /\ \A f \in Executions : Row(f)'
           /\ \A f \in Executions : Reserved(f)'
           /\ OneActive'
<1>1. /\ exec' \in [Executions -> ExecRecords] /\ exec'[e] = x
      /\ res' \in [Executions -> ResRecords] /\ res'[e] = q
      /\ \A f \in Executions : f # e => exec'[f] = exec[f] /\ res'[f] = res[f]
  BY DEF BackendInv, BackendType
<1>2. ASSUME NEW f \in Executions PROVE Row(f)'
  <2>1. CASE f = e
    BY <1>1, <2>1 DEF BackendInv, Row
  <2>2. CASE f # e
    BY <1>1, <2>2 DEF BackendInv, Row
  <2>. QED  BY <2>1, <2>2
<1>3. ASSUME NEW f \in Executions PROVE Reserved(f)'
  <2>1. CASE f = e
    BY <1>1, <2>1 DEF BackendInv, Reserved
  <2>2. CASE f # e
    BY <1>1, <2>2 DEF BackendInv, Reserved
  <2>. QED  BY <2>1, <2>2
<1>4. \A f \in Executions : Active(f)' => Active(f)
  BY <1>1 DEF Active
<1>5. OneActive'
  BY <1>4 DEF BackendInv, OneActive
<1>. QED  BY <1>1, <1>2, <1>3, <1>5

\* Items and jobs stay when no execution is accepted or appears for an item
\* that is not there.
LEMMA ItemsKeep ==
    ASSUME ItemsAgree, UNCHANGED item, UNCHANGED job,
           \A f \in Executions :
               /\ exec'[f].state = "SPOOLER_ACCEPTED" <=> exec[f].state = "SPOOLER_ACCEPTED"
               /\ exec'[f].state # "NONE" =>
                      exec[f].state # "NONE" \/ item[ItemOf(f)] # "NONE"
    PROVE  ItemsAgree'
<1>1. \A i \in Items : (\E e \in AttemptsAt(i) : exec'[e].state = "SPOOLER_ACCEPTED")
                          <=> \E e \in AttemptsAt(i) : exec[e].state = "SPOOLER_ACCEPTED"
  BY Attempts
<1>2. \A j \in Jobs : ItemsOf(j)' = ItemsOf(j)
  BY DEF ItemsOf
<1>. QED  BY <1>1, <1>2 DEF ItemsAgree

\* The item of the one active execution changes with it, and the job as the
\* items say.
LEMMA ItemMoves ==
    ASSUME BackendInv, NEW e \in Executions, Active(e), exec[e].state # "NONE",
           exec[e].state # "SPOOLER_ACCEPTED", exec'[e].state # "NONE",
           \A f \in Executions : f # e => exec'[f] = exec[f],
           NEW s, s # "NONE", item' = [item EXCEPT ![ItemOf(e)] = s],
           s = "COMPLETED" <=> exec'[e].state = "SPOOLER_ACCEPTED",
           NEW t, t # "NONE", job' = [job EXCEPT ![e[1]] = t],
           t = "COMPLETED" <=> \A i \in ItemsOf(e[1]) : item'[i] = "COMPLETED"
    PROVE  ItemsAgree'
<1>. DEFINE i0 == ItemOf(e)
<1>0. /\ i0 \in Items /\ i0[1] = e[1] /\ e[1] \in Jobs /\ item[i0] # "NONE"
      /\ job \in [Jobs -> {"NONE", "READY_FOR_AGENT", "FAILED", "BLOCKED", "COMPLETED"}]
      /\ DOMAIN item = Items
  BY ItemOfType DEF BackendInv, BackendType, ItemsAgree
<1>. HIDE DEF i0
<1>1. /\ item'[i0] = s /\ \A i \in Items : i # i0 => item'[i] = item[i]
      /\ job'[e[1]] = t /\ \A j \in Jobs : j # e[1] => job'[j] = job[j]
  BY <1>0 DEF i0
<1>2. \A f \in Executions : ItemOf(f) = i0 /\ f # e => exec[f].state # "SPOOLER_ACCEPTED"
  BY DEF BackendInv, Row, OneActive, Active, Crossed, i0
<1>3. \A f \in Executions : exec'[f].state # "NONE" => item'[ItemOf(f)] # "NONE"
  BY <1>0, <1>1, ItemOfType DEF BackendInv, ItemsAgree, i0
<1>4. \A i \in Items : item'[i] # "NONE" => job'[i[1]] # "NONE"
  <2>1. \A i \in Items : i[1] \in Jobs
    BY DEF Items
  <2>. QED  BY <1>0, <1>1, <2>1 DEF BackendInv, ItemsAgree
<1>5. ASSUME NEW i \in Items
      PROVE  item'[i] = "COMPLETED"
                <=> \E f \in AttemptsAt(i) : exec'[f].state = "SPOOLER_ACCEPTED"
  <2>1. CASE i = i0
    <3>1. e \in AttemptsAt(i)
      BY <2>1, ItemOfType DEF i0
    <3>2. \A f \in AttemptsAt(i) : f # e => exec'[f].state # "SPOOLER_ACCEPTED"
      BY <1>0, <1>2, <2>1, Attempts
    <3>. QED  BY <1>1, <2>1, <3>1, <3>2
  <2>2. CASE i # i0
    <3>1. \A f \in AttemptsAt(i) : f \in Executions /\ f # e
      BY <2>2, Attempts DEF i0
    <3>2. \A f \in AttemptsAt(i) : exec'[f] = exec[f]
      BY <3>1
    <3>3. item[i] = "COMPLETED" <=> \E f \in AttemptsAt(i) : exec[f].state = "SPOOLER_ACCEPTED"
      BY DEF BackendInv, ItemsAgree
    <3>. QED  BY <1>1, <2>2, <3>2, <3>3
  <2>. QED  BY <2>1, <2>2
<1>6. \A j \in Jobs : ItemsOf(j)' = ItemsOf(j)
  <2>1. \A i \in Items : item'[i] # "NONE" <=> item[i] # "NONE"
    BY <1>0, <1>1
  <2>2. \A j \in Jobs : \A i \in {j} \X Kms : i \in Items
    BY DEF Items
  <2>. QED  BY <2>1, <2>2 DEF ItemsOf
<1>7. ASSUME NEW j \in Jobs, job'[j] # "NONE"
      PROVE  job'[j] = "COMPLETED" <=> \A i \in ItemsOf(j)' : item'[i] = "COMPLETED"
  <2>1. CASE j = e[1]
    BY <1>1, <1>6, <2>1
  <2>2. CASE j # e[1]
    <3>1. \A i \in ItemsOf(j) : i \in Items /\ i # i0
      BY <1>0, <2>2, ItemsOfType
    <3>. QED  BY <1>1, <1>6, <1>7, <2>2, <3>1 DEF BackendInv, ItemsAgree
  <2>. QED  BY <2>1, <2>2
<1>. QED  BY <1>3, <1>4, <1>5, <1>7 DEF ItemsAgree

\* What a handler that concerns one execution keeps, besides the invariant.
Own(e) == /\ BackendInv'
          /\ exec'[e].agent = exec[e].agent
          /\ \A f \in Executions : f # e => exec'[f] = exec[f]

\* A row whose state becomes s, with nothing else in it changed.
LEMMA StateIs ==
    ASSUME NEW x \in ExecRecords, NEW s \in {"NONE"} \cup Nonterminal \cup Terminal
    PROVE  LET y == [x EXCEPT !.state = s]
           IN  /\ y \in ExecRecords /\ y.state = s /\ y.agent = x.agent
               /\ y.boundary = x.boundary /\ y.winjob = x.winjob
  BY DEF ExecRecords

\* An execution moves on before the boundary, or ends there.
LEMMA PreSpoolMoves ==
    ASSUME BackendInv, AgentType,
           NEW e \in Executions, NEW s \in {"NONE"} \cup Nonterminal \cup Terminal,
           NEW q \in ResRecords,
           exec' = [exec EXCEPT ![e].state = s], res' = [res EXCEPT ![e] = q],
           UNCHANGED <<job, printer, item, keys, intents, binding, ledger, started>>,
           acked' \in Seq(Executions),
           lapsed' \subseteq Executions \cup (Agents \X Versions),
           exec[e].state \in PreSpoolIssuable, s \notin Crossed \cup {"NONE"},
           q.state \in Live => /\ res[e].state \in Live /\ q.key = res[e].key
                               /\ s \in PreSpoolIssuable
    PROVE  Own(e)
<1>. DEFINE x == [exec[e] EXCEPT !.state = s]
<1>1. exec[e] \in ExecRecords /\ Row(e) /\ started[e] \in Nat
  BY DEF BackendInv, BackendType, AgentType
<1>2. /\ x \in ExecRecords /\ x.state = s /\ x.agent = exec[e].agent
      /\ x.boundary = exec[e].boundary /\ x.winjob = exec[e].winjob
  BY <1>1, StateIs
<1>3. exec' = [exec EXCEPT ![e] = x]
  OBVIOUS
<1>. HIDE DEF x
<1>4. /\ Active(e) /\ exec[e].state # "NONE" /\ exec[e].state \notin Crossed
      /\ exec[e].boundary = FALSE /\ started[e] = 0 /\ exec[e].winjob = 0
  BY <1>1 DEF Active, Row, Nonterminal, PreSpoolIssuable, Crossed, ExecRecords
<1>5. /\ x.state # "NONE" /\ x.state \notin Crossed
      /\ x.state # "SPOOLER_ACCEPTED" /\ exec[e].state # "SPOOLER_ACCEPTED"
      /\ x.agent = exec[e].agent
      /\ x.boundary \/ x.state \in Nonterminal => Active(e)
      /\ x.boundary => x.state \in Crossed \cup {"FAILED_PRE_SPOOL"}
      /\ x.state \in Crossed => x.boundary
      /\ started[e] > 0 => x.state \in Crossed
      /\ x.winjob # 0 => x.winjob = 1 /\ started[e] = 1
      /\ x.state = "SPOOLER_ACCEPTED" => x.winjob = 1
      /\ q.state \in Live => /\ res[e].state \in Live /\ q.key = res[e].key
                             /\ x.state \in PreSpoolIssuable
  BY <1>2, <1>4 DEF Crossed
<1>0. UNCHANGED keys /\ UNCHANGED ledger /\ UNCHANGED started
  OBVIOUS
<1>6. /\ exec' \in [Executions -> ExecRecords] /\ res' \in [Executions -> ResRecords]
      /\ \A f \in Executions : Row(f)'
      /\ \A f \in Executions : Reserved(f)'
      /\ OneActive'
  BY <1>0, <1>2, <1>3, <1>4, <1>5, RowMoves
<1>7. exec'[e] = x /\ \A f \in Executions : f # e => exec'[f] = exec[f]
  BY <1>3 DEF BackendInv, BackendType
<1>8. ItemsAgree'
  BY <1>4, <1>5, <1>7, ItemsKeep DEF BackendInv
<1>9. BackendType'
  BY <1>6 DEF BackendInv, BackendType
<1>. QED  BY <1>2, <1>6, <1>7, <1>8, <1>9 DEF Own, BackendInv

LEMMA IssueKeeps ==
    ASSUME BackendInv, AgentType, NEW e \in Executions, Issue(e),
           UNCHANGED ledger, UNCHANGED started
    PROVE  Own(e)
<1>. DEFINE q == [res[e] EXCEPT !.state = "ISSUED", !.count = @ + 1]
<1>1. /\ res[e] \in ResRecords /\ exec[e].state \in PreSpoolIssuable
      /\ res[e].state \in Live /\ res[e].count < MaxIssue
  BY DEF Issue, MayIssue, BackendInv, BackendType
<1>2. q \in ResRecords /\ q.key = res[e].key
  <2>1. res[e].count + 1 \in 0 .. MaxIssue
    BY <1>1, PrintDeliveryAssumption DEF ResRecords
  <2>. QED  BY <1>1, <2>1 DEF ResRecords, Live
<1>3. /\ exec' = [exec EXCEPT ![e].state = "PAYLOAD_ISSUED"] /\ res' = [res EXCEPT ![e] = q]
      /\ UNCHANGED <<job, printer, item, keys, intents, binding, ledger, started>>
      /\ acked' = acked /\ lapsed' = lapsed
  BY DEF Issue
<1>. HIDE DEF q
<1>4. /\ "PAYLOAD_ISSUED" \in {"NONE"} \cup Nonterminal \cup Terminal
      /\ "PAYLOAD_ISSUED" \notin Crossed \cup {"NONE"}
      /\ "PAYLOAD_ISSUED" \in PreSpoolIssuable
      /\ acked' \in Seq(Executions) /\ lapsed' \subseteq Executions \cup (Agents \X Versions)
  BY <1>3 DEF Nonterminal, PreSpoolIssuable, Crossed, BackendInv, BackendType
<1>. QED  BY <1>1, <1>2, <1>3, <1>4, PreSpoolMoves

LEMMA IssueEndsKeeps ==
    ASSUME BackendInv, AgentType, NEW e \in Executions, IssueEnds(e),
           UNCHANGED ledger, UNCHANGED started
    PROVE  Own(e)
<1>. DEFINE s == exec[e].state
            q == [res[e] EXCEPT !.state = IF e \in lapsed THEN "EXPIRED" ELSE "BLOCKED"]
<1>1. res[e] \in ResRecords /\ exec[e] \in ExecRecords /\ s \in PreSpoolIssuable
  BY DEF IssueEnds, BackendInv, BackendType, Reserved
<1>2. q \in ResRecords /\ q.state \notin Live
  BY <1>1 DEF ResRecords, Live
<1>3. /\ res' = [res EXCEPT ![e] = q] /\ exec' = exec
      /\ UNCHANGED <<job, printer, item, keys, intents, binding, ledger, started>>
      /\ acked' = acked /\ lapsed' = lapsed \ {e}
  BY DEF IssueEnds
<1>. HIDE DEF q
<1>4. exec' = [exec EXCEPT ![e].state = s]
  BY <1>1, <1>3 DEF BackendInv, BackendType, ExecRecords
<1>5. /\ s \in {"NONE"} \cup Nonterminal \cup Terminal /\ s \notin Crossed \cup {"NONE"}
      /\ acked' \in Seq(Executions) /\ lapsed' \subseteq Executions \cup (Agents \X Versions)
  BY <1>1, <1>3 DEF Nonterminal, PreSpoolIssuable, Crossed, BackendInv, BackendType
<1>. HIDE DEF s
<1>. QED  BY <1>1, <1>2, <1>3, <1>4, <1>5, PreSpoolMoves DEF s

LEMMA AcknowledgeKeeps ==
    ASSUME BackendInv, AgentType, NEW e \in Executions, Acknowledge(e),
           UNCHANGED ledger, UNCHANGED started
    PROVE  Own(e)
<1>1. CASE UNCHANGED backend
  BY <1>1 DEF Own, BackendInv, BackendType, Row, OneActive, Active, ItemsAgree, ItemsOf,
              Reserved, backend
<1>2. CASE ~ UNCHANGED backend
  <2>. DEFINE q == [res[e] EXCEPT !.state = "ACKNOWLEDGED"]
  <2>1. /\ res[e].state = "ISSUED" /\ res' = [res EXCEPT ![e] = q]
        /\ exec' = [exec EXCEPT ![e].state = "PAYLOAD_DELIVERED"]
        /\ UNCHANGED <<job, printer, item, keys, intents, binding, ledger, started>>
        /\ acked' = Append(acked, e) /\ lapsed' = lapsed \ {e}
    BY <1>2 DEF Acknowledge
  <2>2. res[e] \in ResRecords /\ exec[e].state \in PreSpoolIssuable
    BY <2>1 DEF BackendInv, BackendType, Reserved, Live
  <2>3. q \in ResRecords /\ q.state \notin Live
    BY <2>2 DEF ResRecords, Live
  <2>. HIDE DEF q
  <2>4. /\ "PAYLOAD_DELIVERED" \in {"NONE"} \cup Nonterminal \cup Terminal
        /\ "PAYLOAD_DELIVERED" \notin Crossed \cup {"NONE"}
    BY DEF Nonterminal, Crossed
  <2>5. acked' \in Seq(Executions) /\ lapsed' \subseteq Executions \cup (Agents \X Versions)
    BY <2>1 DEF BackendInv, BackendType
  <2>. QED  BY <2>1, <2>2, <2>3, <2>4, <2>5, PreSpoolMoves
<1>. QED  BY <1>1, <1>2

LEMMA AcknowledgeMismatchKeeps ==
    ASSUME BackendInv, AgentType, NEW e \in Executions, AcknowledgeMismatch(e),
           UNCHANGED ledger, UNCHANGED started
    PROVE  Own(e)
<1>. DEFINE q == [res[e] EXCEPT !.state = "BLOCKED"]
<1>1. /\ res[e].state = "ISSUED" /\ res' = [res EXCEPT ![e] = q]
      /\ exec' = [exec EXCEPT ![e].state = "FAILED_PRE_SPOOL"]
      /\ UNCHANGED <<job, printer, item, keys, intents, binding, ledger, started>>
      /\ acked' = acked /\ lapsed' = lapsed \ {e}
  BY DEF AcknowledgeMismatch
<1>2. res[e] \in ResRecords /\ exec[e].state \in PreSpoolIssuable
  BY <1>1 DEF BackendInv, BackendType, Reserved, Live
<1>3. q \in ResRecords /\ q.state \notin Live
  BY <1>2 DEF ResRecords, Live
<1>. HIDE DEF q
<1>4. /\ "FAILED_PRE_SPOOL" \in {"NONE"} \cup Nonterminal \cup Terminal
      /\ "FAILED_PRE_SPOOL" \notin Crossed \cup {"NONE"}
  BY DEF Terminal, Crossed
<1>5. acked' \in Seq(Executions) /\ lapsed' \subseteq Executions \cup (Agents \X Versions)
  BY <1>1 DEF BackendInv, BackendType
<1>. QED  BY <1>1, <1>2, <1>3, <1>4, <1>5, PreSpoolMoves

\* The item of an active execution that is not accepted is there and is not
\* COMPLETED, nor is its job.
LEMMA ActiveItem ==
    ASSUME BackendInv, NEW e \in Executions, Active(e), exec[e].state # "NONE",
           exec[e].state # "SPOOLER_ACCEPTED"
    PROVE  /\ e[1] \in Jobs /\ ItemOf(e) \in Items /\ ItemOf(e) \in ItemsOf(e[1])
           /\ job[e[1]] # "NONE" /\ job[e[1]] # "COMPLETED"
<1>1. /\ ItemOf(e) \in Items /\ ItemOf(e)[1] = e[1] /\ e[1] \in Jobs
      /\ item[ItemOf(e)] # "NONE" /\ job[e[1]] # "NONE"
  BY ItemOfType DEF BackendInv, ItemsAgree
<1>2. ItemOf(e) \in ItemsOf(e[1])
  BY <1>1, ItemsOfType
<1>3. \A f \in AttemptsAt(ItemOf(e)) : exec[f].state # "SPOOLER_ACCEPTED"
  BY <1>1, Attempts DEF BackendInv, OneActive, Active, Row, Crossed
<1>4. item[ItemOf(e)] # "COMPLETED"
  BY <1>1, <1>3 DEF BackendInv, ItemsAgree
<1>5. job[e[1]] # "COMPLETED"
  BY <1>1, <1>2, <1>4 DEF BackendInv, ItemsAgree
<1>. QED  BY <1>1, <1>2, <1>5

LEMMA MarkRenderedKeeps ==
    ASSUME BackendInv, AgentType, NEW e \in Executions, MayMarkRendered(e), MarkRendered(e),
           UNCHANGED ledger, UNCHANGED started
    PROVE  Own(e)
<1>. DEFINE x == [exec[e] EXCEPT !.state = "RENDERED_VERIFIED"]
            q == res[e]
            s == "RENDERED"
            t == job[e[1]]
<1>1. /\ exec[e] \in ExecRecords /\ Row(e) /\ Reserved(e) /\ started[e] \in Nat
      /\ q \in ResRecords /\ exec[e].state = "PAYLOAD_DELIVERED"
  BY DEF BackendInv, BackendType, AgentType, MayMarkRendered
<1>2. /\ x \in ExecRecords /\ x.state = "RENDERED_VERIFIED" /\ x.agent = exec[e].agent
      /\ x.boundary = exec[e].boundary /\ x.winjob = exec[e].winjob
  BY <1>1, StateIs DEF Nonterminal
<1>3. /\ exec' = [exec EXCEPT ![e] = x] /\ res' = [res EXCEPT ![e] = q]
      /\ item' = [item EXCEPT ![ItemOf(e)] = s]
      /\ UNCHANGED <<job, printer, acked, keys, intents, binding, lapsed>>
  BY DEF MarkRendered, BackendInv, BackendType
<1>. HIDE DEF x
<1>4. /\ Active(e) /\ exec[e].state # "NONE" /\ q.state \notin Live
      /\ exec[e].boundary = FALSE /\ started[e] = 0 /\ exec[e].winjob = 0
  BY <1>1 DEF Active, Row, Reserved, Nonterminal, PreSpoolIssuable, Crossed, ExecRecords
<1>. HIDE DEF q
<1>5. /\ x.state # "NONE" /\ x.agent = exec[e].agent
      /\ x.boundary \/ x.state \in Nonterminal => Active(e)
      /\ x.boundary => x.state \in Crossed \cup {"FAILED_PRE_SPOOL"}
      /\ x.state \in Crossed => x.boundary
      /\ started[e] > 0 => x.state \in Crossed
      /\ x.winjob # 0 => x.winjob = 1 /\ started[e] = 1
      /\ x.state = "SPOOLER_ACCEPTED" => x.winjob = 1
      /\ q.state \in Live => /\ res[e].state \in Live /\ q.key = res[e].key
                             /\ x.state \in PreSpoolIssuable
  BY <1>2, <1>4 DEF Crossed
<1>6. /\ exec' \in [Executions -> ExecRecords] /\ res' \in [Executions -> ResRecords]
      /\ \A f \in Executions : Row(f)'
      /\ \A f \in Executions : Reserved(f)'
      /\ OneActive'
  BY <1>1, <1>2, <1>3, <1>4, <1>5, RowMoves
<1>7. exec'[e] = x /\ \A f \in Executions : f # e => exec'[f] = exec[f]
  BY <1>3 DEF BackendInv, BackendType
<1>8. /\ e[1] \in Jobs /\ ItemOf(e) \in Items /\ ItemOf(e) \in ItemsOf(e[1])
      /\ t # "NONE" /\ t # "COMPLETED" /\ item'[ItemOf(e)] = s /\ job' = [job EXCEPT ![e[1]] = t]
  <2>1. exec[e].state # "SPOOLER_ACCEPTED"
    BY <1>1
  <2>. QED  BY <1>3, <1>4, <2>1, ActiveItem DEF BackendInv, BackendType
<1>9. ItemsAgree'
  <2>. HIDE DEF t
  <2>1. t = "COMPLETED" <=> \A i \in ItemsOf(e[1]) : item'[i] = "COMPLETED"
    BY <1>8
  <2>2. s = "COMPLETED" <=> exec'[e].state = "SPOOLER_ACCEPTED"
    BY <1>2, <1>7
  <2>3. exec[e].state # "SPOOLER_ACCEPTED" /\ exec'[e].state # "NONE"
    BY <1>1, <1>2, <1>7
  <2>. QED  BY <1>3, <1>4, <1>7, <1>8, <2>1, <2>2, <2>3, ItemMoves
<1>10. BackendType'
  BY <1>3, <1>6 DEF BackendInv, BackendType
<1>. QED  BY <1>2, <1>6, <1>7, <1>9, <1>10 DEF Own, BackendInv

LEMMA BeginSpoolKeeps ==
    ASSUME BackendInv, AgentType, NEW e \in Executions, MayBeginSpool(e), BeginSpool(e),
           UNCHANGED ledger, UNCHANGED started
    PROVE  Own(e)
<1>. DEFINE x == [exec[e] EXCEPT !.state = "SPOOL_SUBMITTING", !.boundary = TRUE]
            q == res[e]
<1>1. /\ exec[e] \in ExecRecords /\ Row(e) /\ Reserved(e) /\ started[e] \in Nat
      /\ q \in ResRecords /\ exec[e].state = "RENDERED_VERIFIED"
  BY DEF BackendInv, BackendType, AgentType, MayBeginSpool
<1>2. /\ x \in ExecRecords /\ x.state = "SPOOL_SUBMITTING" /\ x.agent = exec[e].agent
      /\ x.boundary = TRUE /\ x.winjob = exec[e].winjob
  BY <1>1 DEF ExecRecords, Nonterminal
<1>3. /\ exec' = [exec EXCEPT ![e] = x] /\ res' = [res EXCEPT ![e] = q]
      /\ UNCHANGED <<job, printer, item, acked, keys, intents, binding, lapsed>>
  BY DEF BeginSpool, BackendInv, BackendType
<1>. HIDE DEF x
<1>4. /\ Active(e) /\ exec[e].state # "NONE" /\ q.state \notin Live
      /\ started[e] = 0 /\ exec[e].winjob = 0
  BY <1>1 DEF Active, Row, Reserved, Nonterminal, PreSpoolIssuable, Crossed, ExecRecords
<1>. HIDE DEF q
<1>5. /\ x.state # "NONE" /\ x.agent = exec[e].agent
      /\ x.boundary \/ x.state \in Nonterminal => Active(e)
      /\ x.boundary => x.state \in Crossed \cup {"FAILED_PRE_SPOOL"}
      /\ x.state \in Crossed => x.boundary
      /\ started[e] > 0 => x.state \in Crossed
      /\ x.winjob # 0 => x.winjob = 1 /\ started[e] = 1
      /\ x.state = "SPOOLER_ACCEPTED" => x.winjob = 1
      /\ q.state \in Live => /\ res[e].state \in Live /\ q.key = res[e].key
                             /\ x.state \in PreSpoolIssuable
  BY <1>2, <1>4 DEF Crossed
<1>6. /\ exec' \in [Executions -> ExecRecords] /\ res' \in [Executions -> ResRecords]
      /\ \A f \in Executions : Row(f)'
      /\ \A f \in Executions : Reserved(f)'
      /\ OneActive'
  BY <1>1, <1>2, <1>3, <1>4, <1>5, RowMoves
<1>7. exec'[e] = x /\ \A f \in Executions : f # e => exec'[f] = exec[f]
  BY <1>3 DEF BackendInv, BackendType
<1>8. ItemsAgree'
  BY <1>1, <1>2, <1>3, <1>7, ItemsKeep DEF BackendInv
<1>9. BackendType'
  BY <1>3, <1>6 DEF BackendInv, BackendType
<1>. QED  BY <1>2, <1>6, <1>7, <1>8, <1>9 DEF Own, BackendInv

\* What the agent knows when it reports a verdict: FAILED_PRE_SPOOL and BLOCKED
\* are said of executions without a label, the others of its one label.
Truthful(e, v, d) ==
    \/ v \in {"FAILED_PRE_SPOOL", "BLOCKED"} /\ d = 0 /\ started[e] = 0
    \/ /\ v \in {"SPOOL_JOB_CREATED", "UNKNOWN_AFTER_SPOOL", "SPOOLER_ACCEPTED"}
       /\ d = 1 /\ started[e] = 1

LEMMA ReportResultKeeps ==
    ASSUME BackendInv, AgentType, NEW e \in Executions, NEW v, NEW d,
           Truthful(e, v, d), MayReport(e, v, d), ReportResult(e, v, d),
           UNCHANGED ledger, UNCHANGED started
    PROVE  Own(e)
<1>. DEFINE x == [exec[e] EXCEPT !.state = v, !.winjob = IF d = 0 THEN @ ELSE d]
            q == res[e]
<1>1. /\ exec[e] \in ExecRecords /\ Row(e) /\ Reserved(e) /\ started[e] \in Nat
      /\ q \in ResRecords
  BY DEF BackendInv, BackendType, AgentType
<1>2. /\ exec[e].state \in VerdictFollows[v]
      /\ v \in {"FAILED_PRE_SPOOL", "BLOCKED", "SPOOL_JOB_CREATED", "UNKNOWN_AFTER_SPOOL",
                "SPOOLER_ACCEPTED"}
      /\ v \in {"FAILED_PRE_SPOOL", "BLOCKED"} => exec[e].winjob = 0
      /\ v = "BLOCKED" => ~exec[e].boundary
  BY DEF MayReport, Truthful
<1>3. /\ exec[e].state \in {"PAYLOAD_DELIVERED", "RENDERED_VERIFIED", "SPOOL_SUBMITTING",
                            "SPOOL_JOB_CREATED"}
      /\ v \notin {"FAILED_PRE_SPOOL", "BLOCKED"} =>
             exec[e].state \in {"SPOOL_SUBMITTING", "SPOOL_JOB_CREATED"}
  BY <1>2 DEF VerdictFollows
<1>4. /\ x \in ExecRecords /\ x.state = v /\ x.agent = exec[e].agent
      /\ x.boundary = exec[e].boundary
      /\ x.winjob = IF d = 0 THEN exec[e].winjob ELSE d
  BY <1>1, <1>2 DEF ExecRecords, Nonterminal, Terminal, Truthful
<1>5. /\ exec' = [exec EXCEPT ![e] = x] /\ res' = [res EXCEPT ![e] = q]
      /\ UNCHANGED <<printer, acked, keys, intents, binding, lapsed>>
  BY DEF ReportResult, BackendInv, BackendType
<1>. HIDE DEF x
<1>6. /\ Active(e) /\ exec[e].state # "NONE" /\ q.state \notin Live
      /\ exec[e].state # "SPOOLER_ACCEPTED"
  BY <1>1, <1>3 DEF Active, Reserved, Nonterminal, PreSpoolIssuable
<1>. HIDE DEF q
<1>7. /\ x.state # "NONE"
      /\ x.boundary => x.state \in Crossed \cup {"FAILED_PRE_SPOOL"}
      /\ x.state \in Crossed => x.boundary
  BY <1>1, <1>2, <1>3, <1>4 DEF Crossed, Row
<1>8. /\ started[e] > 0 => x.state \in Crossed
      /\ x.winjob # 0 => x.winjob = 1 /\ started[e] = 1
      /\ x.state = "SPOOLER_ACCEPTED" => x.winjob = 1
  BY <1>1, <1>2, <1>4 DEF Crossed, Row, Truthful
<1>9. /\ x.boundary \/ x.state \in Nonterminal => Active(e)
      /\ q.state \in Live => /\ res[e].state \in Live /\ q.key = res[e].key
                             /\ x.state \in PreSpoolIssuable
  BY <1>6
<1>10. /\ exec' \in [Executions -> ExecRecords] /\ res' \in [Executions -> ResRecords]
       /\ \A f \in Executions : Row(f)'
       /\ \A f \in Executions : Reserved(f)'
       /\ OneActive'
  BY <1>1, <1>4, <1>5, <1>6, <1>7, <1>8, <1>9, RowMoves
<1>11. exec'[e] = x /\ \A f \in Executions : f # e => exec'[f] = exec[f]
  BY <1>5 DEF BackendInv, BackendType
<1>12. ItemsAgree' /\ BackendType'
  <2>1. CASE v = "SPOOL_JOB_CREATED"
    <3>1. UNCHANGED job /\ UNCHANGED item
      BY <2>1 DEF ReportResult
    <3>2. ItemsAgree'
      BY <1>4, <1>6, <1>11, <2>1, <3>1, ItemsKeep DEF BackendInv
    <3>. QED  BY <1>5, <1>10, <3>1, <3>2 DEF BackendInv, BackendType
  <2>2. CASE v # "SPOOL_JOB_CREATED"
    <3>. DEFINE s == ItemVerdict[v]
                t == JobVerdict(e[1], v)
    <3>1. item' = [item EXCEPT ![ItemOf(e)] = s] /\ job' = [job EXCEPT ![e[1]] = t]
      BY <2>2 DEF ReportResult
    <3>2. /\ e[1] \in Jobs /\ ItemOf(e) \in Items /\ ItemOf(e) \in ItemsOf(e[1])
          /\ job[e[1]] # "NONE" /\ job[e[1]] # "COMPLETED"
      BY <1>6, ActiveItem
    <3>3. /\ s \in {"FAILED", "BLOCKED", "COMPLETED"}
          /\ s = "COMPLETED" <=> v = "SPOOLER_ACCEPTED"
      BY <1>2, <2>2 DEF ItemVerdict
    <3>. HIDE DEF s
    <3>4. item'[ItemOf(e)] = s
      BY <3>1, <3>2 DEF BackendInv, BackendType
    <3>5. /\ t \in {"READY_FOR_AGENT", "FAILED", "BLOCKED", "COMPLETED"}
          /\ t = "COMPLETED" <=> \A i \in ItemsOf(e[1]) : item'[i] = "COMPLETED"
      <4>1. CASE v = "SPOOLER_ACCEPTED"
        BY <3>2, <4>1 DEF JobVerdict, BackendInv, BackendType
      <4>2. CASE v # "SPOOLER_ACCEPTED"
        BY <1>2, <2>2, <3>2, <3>3, <3>4, <4>2 DEF JobVerdict
      <4>. QED  BY <4>1, <4>2
    <3>. HIDE DEF t
    <3>6. /\ s = "COMPLETED" <=> exec'[e].state = "SPOOLER_ACCEPTED"
          /\ s # "NONE" /\ t # "NONE" /\ exec'[e].state # "NONE"
      BY <1>4, <1>7, <1>11, <3>3, <3>5
    <3>7. ItemsAgree'
      BY <1>6, <1>11, <3>1, <3>5, <3>6, ItemMoves
    <3>8. job' \in [Jobs -> {"NONE", "READY_FOR_AGENT", "FAILED", "BLOCKED", "COMPLETED"}]
      BY <3>1, <3>5 DEF BackendInv, BackendType
    <3>. QED  BY <1>5, <1>10, <3>1, <3>3, <3>7, <3>8 DEF BackendInv, BackendType
  <2>. QED  BY <2>1, <2>2
<1>. QED  BY <1>4, <1>10, <1>11, <1>12 DEF Own, BackendInv

----------------------------------------------------------------------------
(* Calls of an agent to the backend.                                         *)

LEMMA CallMoves ==
    ASSUME PrintInv, NEW a \in Agents, ~At(a, "idle"), Own(run[a].exec),
           UNCHANGED <<ledger, localKey, started>>,
           NEW r \in RunRecords, run' = [run EXCEPT ![a] = r], RunAt(a)'
    PROVE  PrintInv'
<1>. DEFINE e == run[a].exec
<1>0. BackendInv /\ AgentType /\ \A b \in Agents : RunAt(b)
  BY Halves
<1>1. AgentType' /\ \A b \in Agents \ {a} : run'[b] = run[b]
  BY <1>0 DEF AgentType
<1>2. e \in Executions /\ exec[e].agent = a
  BY RunOf
<1>3. \A f \in Executions : exec[f].agent \in Agents \ {a} =>
          ledger'[f] = ledger[f] /\ started'[f] = started[f] /\ exec'[f] = exec[f]
  BY <1>2 DEF Own
<1>4. Agents \ {a} \in SUBSET Agents
  OBVIOUS
<1>5. \A b \in Agents \ {a} : RunAt(b)'
  BY <1>0, <1>1, <1>3, <1>4, RunKeeps
<1>. QED  BY <1>1, <1>5, HalvesNext DEF Own

LEMMA CallStops ==
    ASSUME PrintInv, NEW a \in Agents, ~At(a, "idle"), Own(run[a].exec),
           UNCHANGED <<ledger, localKey, started>>, Stop(a)
    PROVE  PrintInv'
<1>1. Idle \in RunRecords
  BY DEF Idle, Run, RunRecords, PCs
<1>2. run' = [run EXCEPT ![a] = Idle] /\ run'[a] = Idle
  BY Halves DEF AgentType, Stop
<1>3. RunAt(a)'
  BY <1>2 DEF RunAt, Idle, Run
<1>. QED  BY <1>1, <1>2, <1>3, CallMoves

\* The process goes on with the same execution; before the boundary it need
\* not know more of it than that it is its own.
LEMMA CallGoes ==
    ASSUME PrintInv, NEW a \in Agents, ~At(a, "idle"), Own(run[a].exec),
           UNCHANGED <<ledger, localKey, started>>,
           NEW pc \in {"opened", "delivered", "marked"}, Goto(a, pc)
    PROVE  PrintInv'
<1>1. pc \in PCs /\ AgentType
  BY Halves DEF PCs
<1>2. PICK r \in RunRecords : /\ run' = [run EXCEPT ![a] = r] /\ run'[a] = r
                              /\ r.pc = pc /\ r.exec = run[a].exec
  BY <1>1, GotoIs
<1>3. RunAt(a)'
  BY <1>2, RunOf DEF RunAt, Own
<1>. QED  BY <1>2, <1>3, CallMoves

LEMMA CallStays ==
    ASSUME PrintInv, NEW a \in Agents, At(a, "offered") \/ At(a, "opened"),
           Own(run[a].exec), UNCHANGED <<ledger, localKey, started>>, UNCHANGED run
    PROVE  PrintInv'
<1>0. ~At(a, "idle")
  BY DEF At
<1>1. run[a] \in RunRecords /\ run' = [run EXCEPT ![a] = run[a]] /\ run'[a] = run[a]
  BY Halves DEF AgentType
<1>2. RunAt(a)'
  BY <1>0, <1>1, RunOf DEF RunAt, Own, At
<1>. QED  BY <1>0, <1>1, <1>2, CallMoves

LEMMA RequestPayloadKeeps ==
    ASSUME PrintInv, NEW a \in Agents, RequestPayload(a)
    PROVE  PrintInv'
<1>. DEFINE e == run[a].exec
<1>1. ~At(a, "idle") /\ At(a, "offered") /\ UNCHANGED <<ledger, localKey, started>>
  BY DEF RequestPayload, At
<1>2. e \in Executions /\ BackendInv /\ AgentType
  BY <1>1, RunOf, Halves
<1>3. CASE Issue(e)
  <2>1. Own(e)
    BY <1>1, <1>2, <1>3, IssueKeeps
  <2>2. Goto(a, "opened") \/ Stop(a) \/ UNCHANGED run
    BY DEF RequestPayload
  <2>. QED  BY <1>1, <2>1, <2>2, CallGoes, CallStops, CallStays
<1>4. CASE IssueEnds(e) /\ Stop(a)
  <2>1. Own(e)
    BY <1>1, <1>2, <1>4, IssueEndsKeeps
  <2>. QED  BY <1>1, <1>4, <2>1, CallStops
<1>5. CASE UNCHANGED backend /\ Stop(a)
  BY <1>1, <1>5, ProcessStops
<1>. QED  BY <1>3, <1>4, <1>5 DEF RequestPayload

LEMMA SendAckKeeps ==
    ASSUME PrintInv, NEW a \in Agents, SendAck(a)
    PROVE  PrintInv'
<1>. DEFINE e == run[a].exec
<1>1. ~At(a, "idle") /\ At(a, "opened") /\ UNCHANGED <<ledger, localKey, started>>
  BY DEF SendAck, At
<1>2. e \in Executions /\ BackendInv /\ AgentType
  BY <1>1, RunOf, Halves
<1>3. CASE Acknowledge(e)
  <2>1. Own(e)
    BY <1>1, <1>2, <1>3, AcknowledgeKeeps
  <2>2. Goto(a, "delivered") \/ Stop(a) \/ UNCHANGED run
    BY DEF SendAck
  <2>. QED  BY <1>1, <2>1, <2>2, CallGoes, CallStops, CallStays
<1>4. CASE AcknowledgeMismatch(e) /\ Stop(a)
  <2>1. Own(e)
    BY <1>1, <1>2, <1>4, AcknowledgeMismatchKeeps
  <2>. QED  BY <1>1, <1>4, <2>1, CallStops
<1>5. CASE UNCHANGED backend /\ Stop(a)
  BY <1>1, <1>5, ProcessStops
<1>. QED  BY <1>3, <1>4, <1>5 DEF SendAck

LEMMA CallMarkRenderedKeeps ==
    ASSUME PrintInv, NEW a \in Agents, CallMarkRendered(a)
    PROVE  PrintInv'
<1>. DEFINE e == run[a].exec
<1>1. ~At(a, "idle") /\ UNCHANGED <<ledger, localKey, started>>
  BY DEF CallMarkRendered, At
<1>2. e \in Executions /\ BackendInv /\ AgentType
  BY <1>1, RunOf, Halves
<1>3. CASE /\ MayMarkRendered(e) /\ MarkRendered(e)
           /\ Goto(a, "marked") \/ Stop(a)
  <2>1. Own(e)
    BY <1>1, <1>2, <1>3, MarkRenderedKeeps
  <2>. QED  BY <1>1, <1>3, <2>1, CallGoes, CallStops
<1>4. CASE UNCHANGED backend /\ Stop(a)
  BY <1>1, <1>4, ProcessStops
<1>. QED  BY <1>3, <1>4 DEF CallMarkRendered, Call

LEMMA CallBeginSpoolKeeps ==
    ASSUME PrintInv, NEW a \in Agents, CallBeginSpool(a)
    PROVE  PrintInv'
<1>. DEFINE e == run[a].exec
<1>1. ~At(a, "idle") /\ At(a, "crossed") /\ UNCHANGED <<ledger, localKey, started>>
  BY DEF CallBeginSpool, At
<1>2. /\ e \in Executions /\ exec[e].agent = a /\ BackendInv /\ AgentType
      /\ started[e] = 0 /\ ledger[e] = "SPOOL_SUBMITTING"
  BY <1>1, RunOf, Halves DEF RunAt, At
<1>3. CASE /\ MayBeginSpool(e) /\ BeginSpool(e)
           /\ Goto(a, "spooling") \/ Stop(a)
  <2>1. Own(e)
    BY <1>1, <1>2, <1>3, BeginSpoolKeeps
  <2>2. exec'[e].state = "SPOOL_SUBMITTING" /\ exec'[e].agent = a
    BY <1>2, <1>3, <2>1 DEF BeginSpool, BackendInv, BackendType, ExecRecords, Own
  <2>3. CASE Stop(a)
    BY <1>1, <2>1, <2>3, CallStops
  <2>4. CASE Goto(a, "spooling")
    <3>1. "spooling" \in PCs
      BY DEF PCs
    <3>2. PICK r \in RunRecords : /\ run' = [run EXCEPT ![a] = r] /\ run'[a] = r
                                  /\ r.pc = "spooling" /\ r.exec = e
      BY <1>2, <2>4, <3>1, GotoIs
    <3>3. RunAt(a)'
      BY <1>1, <1>2, <2>2, <3>2 DEF RunAt
    <3>. QED  BY <1>1, <2>1, <3>2, <3>3, CallMoves
  <2>. QED  BY <1>3, <2>3, <2>4
<1>4. CASE UNCHANGED backend /\ Stop(a)
  BY <1>1, <1>4, ProcessStops
<1>. QED  BY <1>3, <1>4 DEF CallBeginSpool, Call

LEMMA CallJobCreatedKeeps ==
    ASSUME PrintInv, NEW a \in Agents, CallJobCreated(a)
    PROVE  PrintInv'
<1>. DEFINE e == run[a].exec
            d == run[a].doc
<1>1. ~At(a, "idle") /\ At(a, "created") /\ UNCHANGED <<ledger, localKey, started>>
  BY DEF CallJobCreated, At
<1>2. /\ e \in Executions /\ exec[e].agent = a /\ BackendInv /\ AgentType
      /\ started[e] = 1 /\ d = 1
  BY <1>1, RunOf, Halves DEF RunAt, At
<1>3. PICK pc \in {"feeding", "ambiguous"} : Goto(a, pc)
  BY DEF CallJobCreated, Call
<1>4. \/ MayReport(e, "SPOOL_JOB_CREATED", d) /\ ReportResult(e, "SPOOL_JOB_CREATED", d)
      \/ UNCHANGED backend
  BY DEF CallJobCreated, Call
<1>5. PICK r \in RunRecords : /\ run' = [run EXCEPT ![a] = r] /\ run'[a] = r
                              /\ r.pc = pc /\ r.exec = e /\ r.doc = 1
  <2>1. pc \in PCs
    BY DEF PCs
  <2>. QED  BY <1>2, <1>3, <2>1, GotoIs
<1>6. CASE UNCHANGED backend
  <2>1. RunAt(a)'
    BY <1>1, <1>2, <1>5, <1>6 DEF RunAt, backend
  <2>. QED  BY <1>1, <1>5, <1>6, <2>1, ProcessMoves
<1>7. CASE MayReport(e, "SPOOL_JOB_CREATED", d) /\ ReportResult(e, "SPOOL_JOB_CREATED", d)
  <2>1. Truthful(e, "SPOOL_JOB_CREATED", d)
    BY <1>2 DEF Truthful
  <2>2. Own(e)
    BY <1>1, <1>2, <1>7, <2>1, ReportResultKeeps
  <2>3. RunAt(a)'
    BY <1>1, <1>2, <1>5, <2>2 DEF RunAt, Own
  <2>. QED  BY <1>1, <1>5, <2>2, <2>3, CallMoves
<1>. QED  BY <1>4, <1>6, <1>7

LEMMA CallReportResultKeeps ==
    ASSUME PrintInv, NEW a \in Agents, CallReportResult(a)
    PROVE  PrintInv'
<1>. DEFINE e == run[a].exec
            v == run[a].verdict
            d == run[a].doc
<1>1. /\ ~At(a, "idle") /\ At(a, "verdict") /\ UNCHANGED <<ledger, localKey, started>>
      /\ Stop(a)
  BY DEF CallReportResult, At, Call
<1>2. e \in Executions /\ BackendInv /\ AgentType /\ Truthful(e, v, d)
  BY <1>1, RunOf, Halves DEF RunAt, At, Truthful
<1>3. (MayReport(e, v, d) /\ ReportResult(e, v, d)) \/ UNCHANGED backend
  BY DEF CallReportResult, Call
<1>4. CASE UNCHANGED backend
  BY <1>1, <1>4, ProcessStops
<1>5. CASE MayReport(e, v, d) /\ ReportResult(e, v, d)
  <2>1. Own(e)
    BY <1>1, <1>2, <1>5, ReportResultKeeps
  <2>. QED  BY <1>1, <2>1, CallStops
<1>. QED  BY <1>3, <1>4, <1>5

----------------------------------------------------------------------------
(* Steps of operators and of the clock.                                      *)

\* No process takes part.
LEMMA OperatorMoves ==
    ASSUME PrintInv, BackendInv', AgentType', UNCHANGED <<ledger, run, started>>,
           \A e \in Executions : exec[e].state # "NONE" =>
               /\ exec'[e].agent = exec[e].agent
               /\ exec[e].state \in {"SPOOL_SUBMITTING", "UNKNOWN_AFTER_SPOOL"} =>
                      exec'[e].state \in {"SPOOL_SUBMITTING", "UNKNOWN_AFTER_SPOOL"}
    PROVE  PrintInv'
<1>1. BackendInv /\ AgentType /\ \A a \in Agents : RunAt(a)
  BY Halves
<1>2. \A e \in Executions : exec[e].agent \in Agents => exec[e].state # "NONE"
  BY <1>1, PrintDeliveryAssumption DEF BackendInv, Row
<1>3. Agents \in SUBSET Agents
  OBVIOUS
<1>4. \A a \in Agents : RunAt(a)'
  BY <1>1, <1>2, <1>3, RunKeeps
<1>. QED  BY <1>4, HalvesNext

\* The rows stay; only intents, lapses and unrelated columns move.
LEMMA RowsStay ==
    ASSUME PrintInv, UNCHANGED agentVars,
           UNCHANGED <<job, printer, item, exec, res, acked, keys, binding>>,
           intents' \subseteq [agent : Agents,
                               purpose : {"FIRST_REGISTRATION", "ROTATE", "REPLACE_LOST"},
                               base : 0 .. MaxKeys],
           lapsed' \subseteq Executions \cup (Agents \X Versions)
    PROVE  PrintInv'
<1>1. BackendInv /\ AgentType
  BY Halves
<1>2. AgentType'
  BY <1>1 DEF AgentType, agentVars
<1>3. BackendInv'
  BY <1>1 DEF BackendInv, BackendType, Row, OneActive, Active, ItemsAgree, ItemsOf, Reserved,
              agentVars
<1>. QED  BY <1>2, <1>3, OperatorMoves DEF agentVars

LEMMA KeyMax ==
    ASSUME NEW a \in Agents, BackendType
    PROVE  /\ Max(ActiveKeys(a) \cup {0}) \in 0 .. MaxKeys
           /\ ActiveKeys(a) # {} => Max(ActiveKeys(a)) \in ActiveKeys(a)
           /\ NextVersion(a) <= MaxKeys => NextVersion(a) \in Versions
<1>0. MaxKeys \in Nat
  BY PrintDeliveryAssumption
<1>. DEFINE S == ActiveKeys(a)
            T == {v \in Versions : keys[a][v] # "NONE"} \cup {0}
<1>1. S \subseteq 0 .. MaxKeys /\ S \cup {0} \subseteq 0 .. MaxKeys /\ T \subseteq 0 .. MaxKeys
  BY <1>0 DEF ActiveKeys, KeysIn, Versions
<1>2. T # {} /\ S \cup {0} # {} /\ NextVersion(a) = Max(T) + 1
  BY DEF NextVersion
<1>. HIDE DEF S, T
<1>3. Max(T) \in T /\ Max(S \cup {0}) \in S \cup {0} /\ (S # {} => Max(S) \in S)
  BY <1>0, <1>1, <1>2, MaxIn
<1>4. Max(T) \in 0 .. MaxKeys /\ Max(S \cup {0}) \in 0 .. MaxKeys
  BY <1>1, <1>3
<1>. QED  BY <1>0, <1>2, <1>3, <1>4 DEF S, Versions

LEMMA SimpleOperators ==
    ASSUME PrintInv, UNCHANGED agentVars,
           \/ \E a \in Agents, p \in {"FIRST_REGISTRATION", "ROTATE", "REPLACE_LOST"} :
                  CreateKeyIntent(a, p)
           \/ \E e \in Executions : ReservationLapses(e)
           \/ \E a \in Agents, v \in Versions : RetiringKeyLapses(a, v)
           \/ \E t \in intents : IntentExpires(t)
    PROVE  PrintInv'
<1>0. BackendType
  BY Halves DEF BackendInv
<1>1. CASE \E a \in Agents, p \in {"FIRST_REGISTRATION", "ROTATE", "REPLACE_LOST"} :
               CreateKeyIntent(a, p)
  <2>1. PICK a \in Agents, p \in {"FIRST_REGISTRATION", "ROTATE", "REPLACE_LOST"} :
            CreateKeyIntent(a, p)
    BY <1>1
  <2>2. Max(ActiveKeys(a) \cup {0}) \in 0 .. MaxKeys
    BY <1>0, KeyMax
  <2>. DEFINE t == [agent |-> a, purpose |-> p, base |-> Max(ActiveKeys(a) \cup {0})]
  <2>3. t \in [agent : Agents, purpose : {"FIRST_REGISTRATION", "ROTATE", "REPLACE_LOST"},
               base : 0 .. MaxKeys]
    BY <2>2
  <2>4. /\ intents' = intents \cup {t}
        /\ UNCHANGED <<job, printer, item, exec, res, acked, keys, binding, lapsed>>
    BY <2>1 DEF CreateKeyIntent
  <2>. HIDE DEF t
  <2>. QED  BY <1>0, <2>3, <2>4, RowsStay DEF BackendType
<1>2. CASE \E e \in Executions : ReservationLapses(e)
  BY <1>0, <1>2, RowsStay DEF ReservationLapses, BackendType
<1>3. CASE \E a \in Agents, v \in Versions : RetiringKeyLapses(a, v)
  BY <1>0, <1>3, RowsStay DEF RetiringKeyLapses, BackendType
<1>4. CASE \E t \in intents : IntentExpires(t)
  BY <1>0, <1>4, RowsStay DEF IntentExpires, BackendType
<1>. QED  BY <1>1, <1>2, <1>3, <1>4

LEMMA CreatePrintJobKeeps ==
    ASSUME PrintInv, UNCHANGED agentVars, NEW j \in Jobs, NEW codes \in SUBSET Kms,
           NEW p \in Agents \cup {"none"}, CreatePrintJob(j, codes, p)
    PROVE  PrintInv'
<1>0. BackendInv /\ AgentType
  BY Halves
<1>1. /\ job[j] = "NONE" /\ codes # {}
      /\ job' = [job EXCEPT ![j] = "READY_FOR_AGENT"]
      /\ printer' = [printer EXCEPT ![j] = p]
      /\ item' = [i \in Items |-> IF i \in {j} \X codes THEN "PENDING" ELSE item[i]]
      /\ UNCHANGED <<exec, res, acked, keys, intents, binding, lapsed>>
      /\ UNCHANGED <<ledger, localKey, run, started>>
  BY DEF CreatePrintJob, agentVars
<1>2. BackendType' /\ AgentType'
  BY <1>0, <1>1 DEF BackendInv, BackendType, AgentType
<1>3. /\ \A e \in Executions : Row(e)' /\ Reserved(e)'
      /\ OneActive'
  BY <1>0, <1>1 DEF BackendInv, Row, Reserved, OneActive, Active
<1>4. \A i \in Items : i[1] = j => item[i] = "NONE"
  BY <1>0, <1>1 DEF BackendInv, ItemsAgree
<1>5. \A i \in Items : item'[i] = item[i] \/ (i[1] = j /\ item'[i] = "PENDING")
  BY <1>1 DEF Items
<1>6. /\ job'[j] = "READY_FOR_AGENT"
      /\ \A k \in Jobs : k # j => job'[k] = job[k]
  BY <1>0, <1>1 DEF BackendInv, BackendType
<1>7. \A e \in Executions : exec'[e].state # "NONE" => item'[ItemOf(e)] # "NONE"
  BY <1>0, <1>1, <1>5, ItemOfType DEF BackendInv, ItemsAgree
<1>8. \A i \in Items : item'[i] # "NONE" => job'[i[1]] # "NONE"
  <2>1. \A i \in Items : i[1] \in Jobs
    BY DEF Items
  <2>. QED  BY <1>0, <1>5, <1>6, <2>1 DEF BackendInv, ItemsAgree
<1>9. ASSUME NEW i \in Items
      PROVE  item'[i] = "COMPLETED"
                <=> \E e \in AttemptsAt(i) : exec'[e].state = "SPOOLER_ACCEPTED"
  <2>1. CASE item'[i] = item[i]
    BY <1>0, <1>1, <2>1 DEF BackendInv, ItemsAgree
  <2>2. CASE i[1] = j /\ item'[i] = "PENDING"
    <3>1. item[i] # "COMPLETED"
      BY <1>4, <2>2
    <3>. QED  BY <1>0, <1>1, <2>2, <3>1 DEF BackendInv, ItemsAgree
  <2>. QED  BY <1>5, <2>1, <2>2
<1>10. ASSUME NEW k \in Jobs, job'[k] # "NONE"
       PROVE  job'[k] = "COMPLETED" <=> \A i \in ItemsOf(k)' : item'[i] = "COMPLETED"
  <2>1. CASE k = j
    <3>1. PICK c \in codes : TRUE
      BY <1>1
    <3>2. <<j, c>> \in ItemsOf(j)' /\ item'[<<j, c>>] = "PENDING"
      BY <1>1 DEF ItemsOf, Items
    <3>. QED  BY <1>6, <2>1, <3>2
  <2>2. CASE k # j
    <3>1. \A i \in {k} \X Kms : i \in Items /\ item'[i] = item[i]
      BY <1>1, <2>2 DEF Items
    <3>2. ItemsOf(k)' = ItemsOf(k) /\ \A i \in ItemsOf(k) : item'[i] = item[i]
      BY <3>1 DEF ItemsOf
    <3>. QED  BY <1>0, <1>6, <1>10, <2>2, <3>2 DEF BackendInv, ItemsAgree
  <2>. QED  BY <2>1, <2>2
<1>11. ItemsAgree'
  BY <1>7, <1>8, <1>9, <1>10 DEF ItemsAgree
<1>12. BackendInv'
  BY <1>2, <1>3, <1>11 DEF BackendInv
<1>. QED  BY <1>1, <1>2, <1>12, OperatorMoves

LEMMA NewJobKeeps ==
    ASSUME PrintInv, UNCHANGED agentVars,
           \/ \E j \in Jobs : \E codes \in SUBSET Kms, p \in Agents \cup {"none"} :
                 CreatePrintJob(j, codes, p)
           \/ \E o, j \in Jobs : Reprint(o, j)
           \/ \E e \in Executions : \E j \in Jobs : ExplicitReprintUnknown(e, j)
    PROVE  PrintInv'
<1>0. BackendType
  BY Halves DEF BackendInv
<1>1. CASE \E j \in Jobs : \E codes \in SUBSET Kms, p \in Agents \cup {"none"} :
               CreatePrintJob(j, codes, p)
  BY <1>1, CreatePrintJobKeeps
<1>2. CASE \E o, j \in Jobs : Reprint(o, j)
  <2>1. PICK o \in Jobs, j \in Jobs : Reprint(o, j)
    BY <1>2
  <2>. DEFINE codes == {i[2] : i \in ItemsOf(o)}
  <2>2. codes \in SUBSET Kms /\ printer[o] \in Agents \cup {"none"}
    BY <1>0 DEF ItemsOf, BackendType
  <2>3. CreatePrintJob(j, codes, printer[o])
    BY <2>1 DEF Reprint
  <2>. HIDE DEF codes
  <2>. QED  BY <2>2, <2>3, CreatePrintJobKeeps
<1>3. CASE \E e \in Executions : \E j \in Jobs : ExplicitReprintUnknown(e, j)
  <2>1. PICK e \in Executions, j \in Jobs : ExplicitReprintUnknown(e, j)
    BY <1>3
  <2>2. {e[2]} \in SUBSET Kms /\ printer[e[1]] \in Agents \cup {"none"}
    BY <1>0 DEF Executions, BackendType
  <2>. QED  BY <2>1, <2>2, CreatePrintJobKeeps DEF ExplicitReprintUnknown
<1>. QED  BY <1>1, <1>2, <1>3

----------------------------------------------------------------------------
(* Steps that end many executions at once.                                   *)

\* An execution stays, is blocked before the boundary, or is left UNKNOWN
\* after it.
Ends(e) ==
    \/ exec'[e] = exec[e]
    \/ /\ exec[e].state \in Nonterminal \ Crossed
       /\ exec'[e] = [exec[e] EXCEPT !.state = "BLOCKED"]
    \/ /\ exec[e].state \in {"SPOOL_SUBMITTING", "SPOOL_JOB_CREATED"}
       /\ exec'[e] = [exec[e] EXCEPT !.state = "UNKNOWN_AFTER_SPOOL"]

LEMMA EndsKeeps ==
    ASSUME BackendInv, AgentType, UNCHANGED ledger, UNCHANGED started,
           NEW e \in Executions, Ends(e)
    PROVE  /\ exec'[e] \in ExecRecords /\ Row(e)'
           /\ exec'[e].agent = exec[e].agent
           /\ Active(e)' => Active(e)
           /\ exec'[e].state = "SPOOLER_ACCEPTED" <=> exec[e].state = "SPOOLER_ACCEPTED"
           /\ exec'[e].state = "NONE" <=> exec[e].state = "NONE"
           /\ exec[e].state \in {"SPOOL_SUBMITTING", "UNKNOWN_AFTER_SPOOL"} =>
                  exec'[e].state \in {"SPOOL_SUBMITTING", "UNKNOWN_AFTER_SPOOL"}
<1>. DEFINE x == exec[e]
            y == exec'[e]
<1>1. x \in ExecRecords /\ Row(e) /\ started[e] \in Nat
  BY DEF BackendInv, BackendType, AgentType
<1>2. /\ y \in ExecRecords /\ y.agent = x.agent /\ y.boundary = x.boundary /\ y.winjob = x.winjob
      /\ \/ y.state = x.state
         \/ x.state \in Nonterminal \ Crossed /\ y.state = "BLOCKED"
         \/ x.state \in {"SPOOL_SUBMITTING", "SPOOL_JOB_CREATED"} /\ y.state = "UNKNOWN_AFTER_SPOOL"
  <2>1. "BLOCKED" \in Terminal /\ "UNKNOWN_AFTER_SPOOL" \in Terminal
    BY DEF Terminal
  <2>2. CASE exec'[e] = exec[e]
    BY <1>1, <2>2
  <2>3. CASE /\ exec[e].state \in Nonterminal \ Crossed
             /\ exec'[e] = [exec[e] EXCEPT !.state = "BLOCKED"]
    BY <1>1, <2>1, <2>3 DEF ExecRecords
  <2>4. CASE /\ exec[e].state \in {"SPOOL_SUBMITTING", "SPOOL_JOB_CREATED"}
             /\ exec'[e] = [exec[e] EXCEPT !.state = "UNKNOWN_AFTER_SPOOL"]
    BY <1>1, <2>1, <2>4 DEF ExecRecords
  <2>. QED  BY <2>2, <2>3, <2>4 DEF Ends
<1>. HIDE DEF x, y
<1>3. Row(e)'
  <2>1. /\ y.state = "NONE" <=> y.agent = "none"
        /\ y.boundary => y.state \in Crossed \cup {"FAILED_PRE_SPOOL"}
        /\ y.state \in Crossed => y.boundary
        /\ y.state = "SPOOLER_ACCEPTED" => y.winjob = 1
        /\ y.winjob # 0 => y.winjob = 1 /\ started[e] = 1
    BY <1>1, <1>2 DEF Row, Crossed, Nonterminal, PreSpoolIssuable, x
  <2>2. started[e] > 0 => /\ started[e] = 1 /\ y.state \in Crossed
                          /\ ledger[e] \in Irreversible \ {"FAILED_PRE_SPOOL"}
    BY <1>1, <1>2 DEF Row, Crossed, x
  <2>. QED  BY <2>1, <2>2 DEF Row, y
<1>4. Active(e)' => Active(e)
  BY <1>2 DEF Active, Nonterminal, PreSpoolIssuable, x, y
<1>5. /\ y.state = "SPOOLER_ACCEPTED" <=> x.state = "SPOOLER_ACCEPTED"
      /\ y.state = "NONE" <=> x.state = "NONE"
      /\ x.state \in {"SPOOL_SUBMITTING", "UNKNOWN_AFTER_SPOOL"} =>
             y.state \in {"SPOOL_SUBMITTING", "UNKNOWN_AFTER_SPOOL"}
  BY <1>2 DEF Nonterminal, PreSpoolIssuable, Crossed
<1>. QED  BY <1>2, <1>3, <1>4, <1>5 DEF x, y

\* Every execution stays or ends.
LEMMA ManyEnd ==
    ASSUME BackendInv, AgentType, UNCHANGED <<job, item, ledger, started>>,
           \A e \in Executions : Ends(e),
           exec' = [e \in Executions |-> exec'[e]]
    PROVE  /\ exec' \in [Executions -> ExecRecords]
           /\ \A e \in Executions : Row(e)'
           /\ OneActive' /\ ItemsAgree'
           /\ \A e \in Executions : exec[e].state # "NONE" =>
                  /\ exec'[e].agent = exec[e].agent
                  /\ exec[e].state \in {"SPOOL_SUBMITTING", "UNKNOWN_AFTER_SPOOL"} =>
                         exec'[e].state \in {"SPOOL_SUBMITTING", "UNKNOWN_AFTER_SPOOL"}
<1>0. UNCHANGED ledger /\ UNCHANGED started /\ UNCHANGED item /\ UNCHANGED job
  OBVIOUS
<1>1. \A e \in Executions :
           /\ exec'[e] \in ExecRecords /\ Row(e)'
           /\ exec'[e].agent = exec[e].agent
           /\ Active(e)' => Active(e)
           /\ exec'[e].state = "SPOOLER_ACCEPTED" <=> exec[e].state = "SPOOLER_ACCEPTED"
           /\ exec'[e].state = "NONE" <=> exec[e].state = "NONE"
           /\ exec[e].state \in {"SPOOL_SUBMITTING", "UNKNOWN_AFTER_SPOOL"} =>
                  exec'[e].state \in {"SPOOL_SUBMITTING", "UNKNOWN_AFTER_SPOOL"}
  BY <1>0, EndsKeeps
<1>2. exec' \in [Executions -> ExecRecords]
  BY <1>1
<1>3. OneActive'
  BY <1>1 DEF BackendInv, OneActive
<1>4. ItemsAgree'
  BY <1>0, <1>1, ItemsKeep DEF BackendInv
<1>. QED  BY <1>1, <1>2, <1>3, <1>4

\* _revoke_key_reservations of live reservations ends their executions.
LEMMA RevokedEnd ==
    ASSUME BackendInv, NEW gone, \A e \in gone : e \in Executions /\ res[e].state \in Live,
           NEW e \in Executions
    PROVE  /\ \/ RevokedExecutions(gone)[e] = exec[e] /\ e \notin gone
              \/ /\ e \in gone /\ exec[e].state \in Nonterminal \ Crossed
                 /\ RevokedExecutions(gone)[e] = [exec[e] EXCEPT !.state = "BLOCKED"]
           /\ RevokedReservations(gone)[e] \in ResRecords
           /\ RevokedReservations(gone)[e].state \in Live =>
                  e \notin gone /\ RevokedReservations(gone)[e] = res[e]
<1>1. res[e] \in ResRecords /\ Reserved(e)
  BY DEF BackendInv, BackendType
<1>2. CASE e \in gone
  <2>1. exec[e].state \in Nonterminal /\ exec[e].state \in Nonterminal \ Crossed
    BY <1>1, <1>2 DEF Reserved, Nonterminal, PreSpoolIssuable, Crossed
  <2>2. [res[e] EXCEPT !.state = "REVOKED"] \in ResRecords
    BY <1>1 DEF ResRecords
  <2>3. [res[e] EXCEPT !.state = "REVOKED"].state \notin Live
    BY <1>1 DEF ResRecords, Live
  <2>. QED  BY <1>2, <2>1, <2>2, <2>3 DEF RevokedExecutions, RevokedReservations
<1>3. CASE e \notin gone
  BY <1>1, <1>3 DEF RevokedExecutions, RevokedReservations
<1>. QED  BY <1>2, <1>3

LEMMA DisableBindingKeeps ==
    ASSUME PrintInv, UNCHANGED agentVars, NEW a \in Agents, DisableBinding(a)
    PROVE  PrintInv'
<1>. DEFINE gone == BoundLive(a, KeysIn(a, {"ACTIVE", "RETIRING"}))
            own(e) == exec[e].agent = a
            Past == {"SPOOL_SUBMITTING", "SPOOL_JOB_CREATED"}
<1>0. BackendInv /\ AgentType
  BY Halves
<1>1. /\ binding' = [binding EXCEPT ![a] = "DISABLED"]
      /\ res' = RevokedReservations(gone)
      /\ keys' = [keys EXCEPT ![a] =
             [v \in Versions |-> IF keys[a][v] \in {"ACTIVE", "RETIRING"}
                                 THEN "REVOKED" ELSE keys[a][v]]]
      /\ lapsed' = lapsed \ (gone \cup ({a} \X Versions))
      /\ UNCHANGED <<job, printer, item, acked, intents>>
      /\ UNCHANGED <<ledger, localKey, run, started>>
  BY DEF DisableBinding, agentVars
<1>2. exec' = [e \in Executions |->
               CASE own(e) /\ exec[e].state \in Past ->
                        [exec[e] EXCEPT !.state = "UNKNOWN_AFTER_SPOOL"]
                 [] own(e) /\ exec[e].state \in Nonterminal \ Past ->
                        [exec[e] EXCEPT !.state = "BLOCKED"]
                 [] OTHER -> exec[e]]
  BY DEF DisableBinding
<1>3. exec' = [e \in Executions |-> exec'[e]]
  BY <1>2
<1>4. ASSUME NEW e \in Executions PROVE Ends(e)
  <2>1. CASE own(e) /\ exec[e].state \in Past
    BY <1>2, <2>1 DEF Ends
  <2>2. CASE own(e) /\ exec[e].state \in Nonterminal \ Past
    <3>1. exec'[e] = [exec[e] EXCEPT !.state = "BLOCKED"]
      BY <1>2, <2>2
    <3>2. exec[e].state \in Nonterminal \ Crossed
      BY <2>2 DEF Nonterminal, PreSpoolIssuable, Crossed
    <3>. QED  BY <3>1, <3>2 DEF Ends
  <2>3. CASE ~(own(e) /\ exec[e].state \in Past) /\ ~(own(e) /\ exec[e].state \in Nonterminal \ Past)
    BY <1>2, <2>3 DEF Ends
  <2>. QED  BY <2>1, <2>2, <2>3
<1>5. /\ exec' \in [Executions -> ExecRecords]
      /\ \A e \in Executions : Row(e)'
      /\ OneActive' /\ ItemsAgree'
      /\ \A e \in Executions : exec[e].state # "NONE" =>
             /\ exec'[e].agent = exec[e].agent
             /\ exec[e].state \in {"SPOOL_SUBMITTING", "UNKNOWN_AFTER_SPOOL"} =>
                    exec'[e].state \in {"SPOOL_SUBMITTING", "UNKNOWN_AFTER_SPOOL"}
  BY <1>0, <1>1, <1>3, <1>4, ManyEnd
<1>6. \A e \in gone : e \in Executions /\ res[e].state \in Live
  BY DEF BoundLive
<1>7. \A e \in Executions : /\ res'[e] \in ResRecords
                            /\ res'[e].state \in Live => e \notin gone /\ res'[e] = res[e]
  <2>. HIDE DEF gone
  <2>. QED  BY <1>0, <1>1, <1>6, RevokedEnd
<1>8. res' \in [Executions -> ResRecords]
  <2>1. res' = [e \in Executions |-> res'[e]]
    BY <1>1 DEF RevokedReservations
  <2>. QED  BY <1>7, <2>1
<1>9. ASSUME NEW e \in Executions PROVE Reserved(e)'
  <2>1. SUFFICES ASSUME res'[e].state \in Live
                 PROVE  /\ exec'[e].state \in PreSpoolIssuable
                        /\ res'[e].key \in Versions
                        /\ keys'[exec'[e].agent][res'[e].key] \in {"ACTIVE", "RETIRING"}
    BY DEF Reserved
  <2>2. /\ e \notin gone /\ res'[e] = res[e] /\ res[e].state \in Live
        /\ exec[e].state \in PreSpoolIssuable /\ res[e].key \in Versions
        /\ keys[exec[e].agent][res[e].key] \in {"ACTIVE", "RETIRING"}
    BY <1>0, <1>7, <2>1 DEF BackendInv, Reserved
  <2>3. exec[e].agent # a
    BY <2>2 DEF BoundLive, KeysIn
  <2>4. exec[e].agent \in Agents
    BY <1>0, <2>2 DEF BackendInv, BackendType, Row, ExecRecords, PreSpoolIssuable
  <2>5. exec'[e] = exec[e]
    BY <1>2, <2>3
  <2>6. keys'[exec[e].agent] = keys[exec[e].agent]
    BY <1>0, <1>1, <2>3, <2>4 DEF BackendInv, BackendType
  <2>. QED  BY <2>2, <2>5, <2>6
<1>10. keys' \in [Agents -> [Versions -> {"NONE", "ACTIVE", "RETIRING", "REVOKED"}]]
  BY <1>0, <1>1 DEF BackendInv, BackendType
<1>11. BackendType' /\ AgentType'
  BY <1>0, <1>1, <1>5, <1>8, <1>10 DEF BackendInv, BackendType, AgentType
<1>12. BackendInv'
  BY <1>5, <1>9, <1>11 DEF BackendInv
<1>. QED  BY <1>1, <1>5, <1>11, <1>12, OperatorMoves

LEMMA RegisterKeyKeeps ==
    ASSUME PrintInv, NEW a \in Agents, NEW t \in intents, RegisterKey(a, t)
    PROVE  PrintInv'
<1>. DEFINE lost == t.purpose = "REPLACE_LOST"
            gone == IF lost THEN BoundLive(a, ActiveKeys(a)) ELSE {}
            old == IF lost THEN "REVOKED" ELSE "RETIRING"
            new == NextVersion(a)
<1>0. BackendInv /\ AgentType /\ BackendType
  BY Halves DEF BackendInv
<1>1. /\ keys' = [keys EXCEPT ![a] =
             [v \in Versions |-> CASE v \in ActiveKeys(a) -> old
                                   [] v = new -> "ACTIVE"
                                   [] OTHER -> keys[a][v]]]
      /\ res' = RevokedReservations(gone)
      /\ exec' = RevokedExecutions(gone)
      /\ intents' = intents \ {t}
      /\ lapsed' = lapsed \ gone
      /\ UNCHANGED <<job, printer, item, acked, binding>>
      /\ UNCHANGED <<ledger, run, started>>
      /\ new <= MaxKeys
      /\ localKey' = [localKey EXCEPT ![a] = new] \/ localKey' = localKey
  BY DEF RegisterKey, RegisterPublicKey
<1>2. new \in Versions
  BY <1>0, <1>1, KeyMax
<1>. HIDE DEF new
<1>3. \A e \in gone : e \in Executions /\ res[e].state \in Live
  BY DEF BoundLive
<1>4. ASSUME NEW e \in Executions
      PROVE  /\ Ends(e) /\ (e \notin gone => exec'[e] = exec[e])
             /\ res'[e] \in ResRecords
             /\ res'[e].state \in Live => e \notin gone /\ res'[e] = res[e]
  <2>. HIDE DEF gone
  <2>. QED  BY <1>0, <1>1, <1>3, RevokedEnd DEF Ends
<1>5. /\ exec' = [e \in Executions |-> exec'[e]]
      /\ res' = [e \in Executions |-> res'[e]]
  BY <1>1 DEF RevokedExecutions, RevokedReservations
<1>6. /\ exec' \in [Executions -> ExecRecords]
      /\ \A e \in Executions : Row(e)'
      /\ OneActive' /\ ItemsAgree'
      /\ \A e \in Executions : exec[e].state # "NONE" =>
             /\ exec'[e].agent = exec[e].agent
             /\ exec[e].state \in {"SPOOL_SUBMITTING", "UNKNOWN_AFTER_SPOOL"} =>
                    exec'[e].state \in {"SPOOL_SUBMITTING", "UNKNOWN_AFTER_SPOOL"}
  BY <1>0, <1>1, <1>4, <1>5, ManyEnd
<1>7. res' \in [Executions -> ResRecords]
  BY <1>4, <1>5
<1>8. /\ \A b \in Agents : b # a => keys'[b] = keys[b]
      /\ \A v \in Versions : keys'[a][v] = CASE v \in ActiveKeys(a) -> old
                                             [] v = new -> "ACTIVE"
                                             [] OTHER -> keys[a][v]
      /\ keys' \in [Agents -> [Versions -> {"NONE", "ACTIVE", "RETIRING", "REVOKED"}]]
  BY <1>0, <1>1 DEF BackendType
<1>9. ASSUME NEW e \in Executions PROVE Reserved(e)'
  <2>1. SUFFICES ASSUME res'[e].state \in Live
                 PROVE  /\ exec'[e].state \in PreSpoolIssuable
                        /\ res'[e].key \in Versions
                        /\ keys'[exec'[e].agent][res'[e].key] \in {"ACTIVE", "RETIRING"}
    BY DEF Reserved
  <2>. DEFINE b == exec[e].agent
              v == res[e].key
  <2>2. /\ e \notin gone /\ res'[e] = res[e] /\ exec'[e] = exec[e] /\ res[e].state \in Live
        /\ exec[e].state \in PreSpoolIssuable /\ v \in Versions
        /\ keys[b][v] \in {"ACTIVE", "RETIRING"}
    BY <1>0, <1>4, <2>1 DEF BackendInv, Reserved
  <2>3. b \in Agents
    BY <1>0, <2>2 DEF BackendInv, BackendType, Row, ExecRecords, PreSpoolIssuable
  <2>4. CASE b # a
    BY <1>8, <2>2, <2>3, <2>4
  <2>5. CASE b = a
    <3>1. v \in ActiveKeys(a) => ~lost
      BY <2>2, <2>5 DEF BoundLive
    <3>2. keys'[a][v] \in {"ACTIVE", "RETIRING"}
      BY <1>8, <2>2, <2>5, <3>1
    <3>. QED  BY <2>2, <2>5, <3>2
  <2>. QED  BY <2>4, <2>5
<1>10. BackendType'
  BY <1>0, <1>1, <1>6, <1>7, <1>8 DEF BackendType
<1>11. AgentType'
  BY <1>0, <1>1, <1>2 DEF AgentType, Versions
<1>12. BackendInv'
  BY <1>6, <1>9, <1>10 DEF BackendInv
<1>. QED  BY <1>1, <1>6, <1>11, <1>12, OperatorMoves

LEMMA AuthorizeDeliveryKeeps ==
    ASSUME PrintInv, UNCHANGED agentVars, NEW i \in Items, NEW a \in Agents,
           AuthorizeDelivery(i, a)
    PROVE  PrintInv'
<1>. DEFINE gone == BoundLive(a, ExpiredRetiring(a))
            x == [NoExecution EXCEPT !.state = "PAYLOAD_AVAILABLE", !.agent = a]
            q == [state |-> "AVAILABLE", count |-> 0, key |-> Max(ActiveKeys(a))]
<1>0. BackendInv /\ AgentType /\ BackendType
  BY Halves DEF BackendInv
<1>2. PICK e0 \in Executions : /\ e0 = <<i[1], i[2], NextAttempt(i)>>
                               /\ ItemOf(e0) = i /\ exec[e0].state = "NONE"
  BY NextAttemptIsNew DEF AuthorizeDelivery
<1>1. /\ Authorizable(i) /\ ActiveKeys(a) # {} /\ MayAttempt(i, gone)
      /\ NextAttempt(i) <= MaxAttempts
      /\ keys' = [keys EXCEPT ![a] =
             [v \in Versions |-> IF v \in ExpiredRetiring(a) THEN "REVOKED" ELSE keys[a][v]]]
      /\ exec' = [RevokedExecutions(gone) EXCEPT ![e0] = x]
      /\ res' = [RevokedReservations(gone) EXCEPT ![e0] = q]
      /\ lapsed' = lapsed \ (gone \cup {<<a, v>> : v \in ExpiredRetiring(a)})
      /\ UNCHANGED <<job, printer, item, acked, intents, binding>>
      /\ UNCHANGED <<ledger, localKey, run, started>>
  BY <1>2 DEF AuthorizeDelivery, agentVars
<1>3. Max(ActiveKeys(a)) \in ActiveKeys(a) /\ ActiveKeys(a) \subseteq Versions
  BY <1>0, <1>1, KeyMax DEF ActiveKeys, KeysIn
<1>4. /\ x \in ExecRecords /\ x.state = "PAYLOAD_AVAILABLE" /\ x.agent = a
      /\ x.boundary = FALSE /\ x.winjob = 0
  BY DEF NoExecution, ExecRecords, Nonterminal, PreSpoolIssuable
<1>5. q \in ResRecords /\ q.state = "AVAILABLE" /\ q.key = Max(ActiveKeys(a))
  BY <1>3, PrintDeliveryAssumption DEF ResRecords, Live, Versions
<1>. HIDE DEF x, q
<1>6. \A e \in gone : e \in Executions /\ res[e].state \in Live
  BY DEF BoundLive
<1>7. /\ exec'[e0] = x /\ res'[e0] = q
      /\ \A e \in Executions : e # e0 => /\ exec'[e] = RevokedExecutions(gone)[e]
                                         /\ res'[e] = RevokedReservations(gone)[e]
      /\ exec' = [e \in Executions |-> exec'[e]]
      /\ res' = [e \in Executions |-> res'[e]]
  BY <1>1, <1>2 DEF RevokedExecutions, RevokedReservations
<1>8. ASSUME NEW e \in Executions, e # e0
      PROVE  /\ Ends(e) /\ (e \notin gone => exec'[e] = exec[e])
             /\ (e \in gone => exec'[e].state = "BLOCKED")
             /\ res'[e] \in ResRecords
             /\ res'[e].state \in Live => e \notin gone /\ res'[e] = res[e]
  <2>. HIDE DEF gone
  <2>1. exec[e] \in ExecRecords
    BY <1>0 DEF BackendType
  <2>2. [exec[e] EXCEPT !.state = "BLOCKED"].state = "BLOCKED"
    BY <2>1 DEF ExecRecords
  <2>3. /\ \/ RevokedExecutions(gone)[e] = exec[e] /\ e \notin gone
           \/ /\ e \in gone /\ exec[e].state \in Nonterminal \ Crossed
              /\ RevokedExecutions(gone)[e] = [exec[e] EXCEPT !.state = "BLOCKED"]
        /\ RevokedReservations(gone)[e] \in ResRecords
        /\ RevokedReservations(gone)[e].state \in Live =>
               e \notin gone /\ RevokedReservations(gone)[e] = res[e]
    BY <1>0, <1>6, RevokedEnd
  <2>4. exec'[e] = RevokedExecutions(gone)[e] /\ res'[e] = RevokedReservations(gone)[e]
    BY <1>7, <1>8
  <2>. QED  BY <2>2, <2>3, <2>4 DEF Ends
<1>9. ASSUME NEW e \in Executions, e # e0
      PROVE  /\ exec'[e] \in ExecRecords /\ Row(e)'
             /\ exec'[e].agent = exec[e].agent
             /\ Active(e)' => Active(e)
             /\ exec'[e].state = "SPOOLER_ACCEPTED" <=> exec[e].state = "SPOOLER_ACCEPTED"
             /\ exec'[e].state = "NONE" <=> exec[e].state = "NONE"
             /\ exec[e].state \in {"SPOOL_SUBMITTING", "UNKNOWN_AFTER_SPOOL"} =>
                    exec'[e].state \in {"SPOOL_SUBMITTING", "UNKNOWN_AFTER_SPOOL"}
  <2>1. Ends(e)
    BY <1>8, <1>9
  <2>. QED  BY <1>0, <1>1, <2>1, EndsKeeps
<1>10. Row(e0)'
  <2>1. Row(e0) /\ started[e0] \in Nat
    BY <1>0, <1>2 DEF BackendInv, AgentType
  <2>2. started[e0] = 0
    BY <1>2, <2>1 DEF Row, Crossed
  <2>3. /\ exec'[e0].state = "PAYLOAD_AVAILABLE" /\ exec'[e0].agent = a
        /\ exec'[e0].boundary = FALSE /\ exec'[e0].winjob = 0 /\ started'[e0] = 0
        /\ a # "none"
    BY <1>1, <1>4, <1>7, <2>2, PrintDeliveryAssumption
  <2>. QED  BY <2>3 DEF Row, Crossed
<1>11. /\ exec' \in [Executions -> ExecRecords]
       /\ res' \in [Executions -> ResRecords]
       /\ \A e \in Executions : Row(e)'
  <2>1. \A e \in Executions : exec'[e] \in ExecRecords /\ res'[e] \in ResRecords /\ Row(e)'
    BY <1>4, <1>5, <1>7, <1>8, <1>9, <1>10
  <2>. QED  BY <1>7, <2>1
<1>12. \A e \in Executions : e # e0 /\ ItemOf(e) = i => ~Active(e)'
  <2>1. SUFFICES ASSUME NEW e \in Executions, e # e0, ItemOf(e) = i
                 PROVE  ~Active(e)'
    OBVIOUS
  <2>2. e \in AttemptsAt(i)
    BY <2>1, Attempts
  <2>3. ~exec[e].boundary /\ (exec[e].state \in Nonterminal => e \in gone)
    BY <1>1, <2>2 DEF MayAttempt
  <2>4. Active(e)' => Active(e)
    BY <1>9, <2>1
  <2>5. Active(e) => e \in gone
    BY <2>3 DEF Active
  <2>6. exec'[e].boundary = exec[e].boundary
    <3>1. exec[e] \in ExecRecords
      BY <1>0 DEF BackendType
    <3>. QED  BY <1>8, <2>1, <3>1 DEF Ends, ExecRecords
  <2>7. e \in gone => exec'[e].state \notin Nonterminal
    BY <1>8, <2>1 DEF Nonterminal, PreSpoolIssuable
  <2>. QED  BY <2>3, <2>4, <2>5, <2>6, <2>7 DEF Active
<1>13. OneActive'
  BY <1>0, <1>2, <1>9, <1>12 DEF BackendInv, OneActive
<1>14. ItemsAgree'
  <2>1. item[i] # "NONE"
    BY <1>1 DEF Authorizable
  <2>2. x.state # "SPOOLER_ACCEPTED"
    BY <1>4
  <2>3. \A f \in Executions :
            /\ exec'[f].state = "SPOOLER_ACCEPTED" <=> exec[f].state = "SPOOLER_ACCEPTED"
            /\ exec'[f].state # "NONE" => exec[f].state # "NONE" \/ item[ItemOf(f)] # "NONE"
    BY <1>2, <1>7, <1>9, <2>1, <2>2
  <2>. QED  BY <1>0, <1>1, <2>3, ItemsKeep DEF BackendInv
<1>15. /\ \A b \in Agents : b # a => keys'[b] = keys[b]
       /\ \A v \in Versions : keys'[a][v] =
              IF v \in ExpiredRetiring(a) THEN "REVOKED" ELSE keys[a][v]
       /\ keys' \in [Agents -> [Versions -> {"NONE", "ACTIVE", "RETIRING", "REVOKED"}]]
  BY <1>0, <1>1 DEF BackendType
<1>16. ASSUME NEW e \in Executions PROVE Reserved(e)'
  <2>1. SUFFICES ASSUME res'[e].state \in Live
                 PROVE  /\ exec'[e].state \in PreSpoolIssuable
                        /\ res'[e].key \in Versions
                        /\ keys'[exec'[e].agent][res'[e].key] \in {"ACTIVE", "RETIRING"}
    BY DEF Reserved
  <2>2. CASE e = e0
    <3>. DEFINE k == Max(ActiveKeys(a))
    <3>1. k \in Versions /\ keys[a][k] = "ACTIVE" /\ k \notin ExpiredRetiring(a)
      BY <1>3 DEF ActiveKeys, KeysIn, ExpiredRetiring
    <3>. HIDE DEF k
    <3>2. keys'[a][k] = "ACTIVE"
      BY <1>15, <3>1
    <3>. QED  BY <1>4, <1>5, <1>7, <2>2, <3>1, <3>2 DEF PreSpoolIssuable, k
  <2>3. CASE e # e0
    <3>. DEFINE b == exec[e].agent
                v == res[e].key
    <3>1. /\ e \notin gone /\ res'[e] = res[e] /\ exec'[e] = exec[e] /\ res[e].state \in Live
          /\ exec[e].state \in PreSpoolIssuable /\ v \in Versions
          /\ keys[b][v] \in {"ACTIVE", "RETIRING"}
      BY <1>0, <1>8, <2>1, <2>3 DEF BackendInv, Reserved
    <3>2. b \in Agents
      BY <1>0, <3>1 DEF BackendInv, BackendType, Row, ExecRecords, PreSpoolIssuable
    <3>3. CASE b # a
      BY <1>15, <3>1, <3>2, <3>3
    <3>4. CASE b = a
      <4>1. v \notin ExpiredRetiring(a)
        BY <3>1, <3>4 DEF BoundLive
      <4>. QED  BY <1>15, <3>1, <3>4, <4>1
    <3>. QED  BY <3>3, <3>4
  <2>. QED  BY <2>2, <2>3
<1>17. BackendType' /\ AgentType'
  BY <1>0, <1>1, <1>11, <1>15 DEF BackendType, AgentType
<1>18. BackendInv'
  BY <1>11, <1>13, <1>14, <1>16, <1>17 DEF BackendInv
<1>19. \A e \in Executions : exec[e].state # "NONE" =>
           /\ exec'[e].agent = exec[e].agent
           /\ exec[e].state \in {"SPOOL_SUBMITTING", "UNKNOWN_AFTER_SPOOL"} =>
                  exec'[e].state \in {"SPOOL_SUBMITTING", "UNKNOWN_AFTER_SPOOL"}
  BY <1>2, <1>9
<1>. QED  BY <1>1, <1>17, <1>18, <1>19, OperatorMoves

----------------------------------------------------------------------------
(* The invariant holds, and what follows from it.                            *)

LEMMA PrintInit == Init => PrintInv
<1>. SUFFICES ASSUME Init PROVE PrintInv
  OBVIOUS
<1>. USE DEF Init, DeliveryInit
<1>1. BackendType
  <2>1. NoExecution \in ExecRecords /\ NoReservation \in ResRecords
    BY PrintDeliveryAssumption DEF NoExecution, NoReservation, ExecRecords, ResRecords
  <2>2. acked \in Seq(Executions)
    OBVIOUS
  <2>. QED  BY <2>1, <2>2 DEF BackendType
<1>2. AgentType
  <2>1. Idle \in RunRecords
    BY DEF Idle, Run, RunRecords, PCs
  <2>. QED  BY <2>1, PrintDeliveryAssumption DEF AgentType, LedgerStates
<1>3. \A e \in Executions : Row(e) /\ Reserved(e) /\ ~Active(e)
  BY DEF Row, Reserved, Active, NoExecution, NoReservation, Crossed, Live, Nonterminal,
         PreSpoolIssuable
<1>4. OneActive
  BY <1>3 DEF OneActive
<1>5. \A a \in Agents : RunAt(a)
  BY DEF RunAt, Idle, Run
<1>6. ItemsAgree
  <2>1. \A e \in Executions : exec[e].state = "NONE"
    BY DEF NoExecution
  <2>2. \A i \in Items : \A e \in AttemptsAt(i) : exec[e].state # "SPOOLER_ACCEPTED"
    BY <2>1, Attempts
  <2>. QED  BY <2>1, <2>2 DEF ItemsAgree
<1>. QED  BY <1>1, <1>2, <1>3, <1>4, <1>5, <1>6, Halves DEF BackendInv

LEMMA PrintStep == PrintInv /\ [Next]_vars => PrintInv'
<1>. SUFFICES ASSUME PrintInv, [Next]_vars PROVE PrintInv'
  OBVIOUS
<1>1. CASE UNCHANGED vars
  <2>1. BackendInv /\ AgentType /\ \A a \in Agents : RunAt(a)
    BY Halves
  <2>2. UNCHANGED agentVars /\ UNCHANGED backend
    BY <1>1 DEF vars
  <2>. QED  BY <2>1, <2>2, RowsStay DEF agentVars, backend, BackendInv, BackendType
<1>2. CASE \E a \in Agents : AgentStep(a) \/ KeyStep(a) \/ Crash(a)
  BY <1>2, FetchDeliveryKeeps, RequestPayloadKeeps, SendAckKeeps, StopsKeep, RenderKeeps,
     RenderFailsKeeps, CallMarkRenderedKeeps, CrossSpoolBoundaryKeeps, CallBeginSpoolKeeps,
     SpoolFailsKeeps, StartDocKeeps, RecordJobCreatedKeeps, CallJobCreatedKeeps,
     RecordOutcomeKeeps, CallReportResultKeeps, GenerateKeyKeeps, RegisterKeyKeeps
     DEF AgentStep, KeyStep
<1>3. CASE Operator
  <2>1. UNCHANGED agentVars
    BY <1>3 DEF Operator
  <2>2. CASE \/ \E j \in Jobs : \E codes \in SUBSET Kms, p \in Agents \cup {"none"} :
                    CreatePrintJob(j, codes, p)
             \/ \E o, j \in Jobs : Reprint(o, j)
             \/ \E e \in Executions : \E j \in Jobs : ExplicitReprintUnknown(e, j)
    BY <2>1, <2>2, NewJobKeeps
  <2>3. CASE \E i \in Items, a \in Agents : AuthorizeDelivery(i, a)
    BY <2>1, <2>3, AuthorizeDeliveryKeeps
  <2>4. CASE \E a \in Agents, p \in {"FIRST_REGISTRATION", "ROTATE", "REPLACE_LOST"} :
                 CreateKeyIntent(a, p)
    BY <2>1, <2>4, SimpleOperators
  <2>5. CASE \E a \in Agents : DisableBinding(a)
    BY <2>1, <2>5, DisableBindingKeeps
  <2>. QED  BY <1>3, <2>2, <2>3, <2>4, <2>5 DEF Operator
<1>4. CASE Clock
  BY <1>4, SimpleOperators DEF Clock
<1>. QED  BY <1>1, <1>2, <1>3, <1>4 DEF Next

LEMMA OneLabel == PrintInv => OneLabelPerItem
<1>. SUFFICES ASSUME PrintInv, NEW i \in Items PROVE Cardinality(LabelsOf(i)) <= 1
  BY DEF OneLabelPerItem
<1>0. BackendInv /\ AgentType
  BY Halves
<1>1. \A e \in AttemptsAt(i) : e \in Executions /\ ItemOf(e) = i /\ started[e] \in Nat
  BY <1>0, Attempts DEF AgentType
<1>2. CASE \A e \in AttemptsAt(i) : started[e] = 0
  <2>1. LabelsOf(i) = {}
    BY <1>2 DEF LabelsOf
  <2>. QED  BY <2>1, FS_EmptySet
<1>3. CASE \E e \in AttemptsAt(i) : started[e] # 0
  <2>1. PICK e \in AttemptsAt(i) : started[e] # 0
    BY <1>3
  <2>2. \A f \in AttemptsAt(i) : started[f] # 0 => started[f] = 1 /\ Active(f)
    BY <1>0, <1>1 DEF BackendInv, Row, Active
  <2>3. \A f \in AttemptsAt(i) : started[f] # 0 => f = e
    BY <1>0, <1>1, <2>1, <2>2 DEF BackendInv, OneActive
  <2>4. LabelsOf(i) \subseteq {<<e, 1>>}
    BY <2>1, <2>2, <2>3 DEF LabelsOf
  <2>5. LabelsOf(i) = {} \/ LabelsOf(i) = {<<e, 1>>}
    BY <2>4
  <2>6. Cardinality({<<e, 1>>}) = 1
    BY FS_Singleton
  <2>. QED  BY <2>5, <2>6, FS_EmptySet
<1>. QED  BY <1>2, <1>3

LEMMA Agreement == PrintInv => VerdictsMatchSpooler /\ LedgerLeadsSpooler
  BY Halves DEF BackendInv, AgentType, Row, Crossed, VerdictsMatchSpooler, LedgerLeadsSpooler

LEMMA Disclosure == PrintInv => DisclosureStaysSafe
<1>. SUFFICES ASSUME PrintInv, NEW e \in Executions, res[e].state \in Live
              PROVE  /\ LabelsOf(ItemOf(e)) = {}
                     /\ exec[e].state \in PreSpoolIssuable
                     /\ keys[exec[e].agent][res[e].key] \in {"ACTIVE", "RETIRING"}
  BY DEF DisclosureStaysSafe
<1>0. BackendInv /\ AgentType
  BY Halves
<1>1. /\ exec[e].state \in PreSpoolIssuable
      /\ keys[exec[e].agent][res[e].key] \in {"ACTIVE", "RETIRING"}
  BY <1>0 DEF BackendInv, Reserved
<1>2. Active(e) /\ exec[e].state \notin Crossed /\ ItemOf(e) \in Items
  BY <1>1, ItemOfType DEF Active, Nonterminal, PreSpoolIssuable, Crossed
<1>3. \A f \in AttemptsAt(ItemOf(e)) : started[f] = 0
  <2>1. \A f \in AttemptsAt(ItemOf(e)) :
            f \in Executions /\ ItemOf(f) = ItemOf(e) /\ started[f] \in Nat
    BY <1>0, <1>2, Attempts DEF AgentType
  <2>2. \A f \in Executions : started[f] > 0 => Active(f) /\ exec[f].state \in Crossed
    BY <1>0 DEF BackendInv, Row, Active
  <2>. QED  BY <1>0, <1>2, <2>1, <2>2 DEF BackendInv, OneActive
<1>4. LabelsOf(ItemOf(e)) = {}
  BY <1>3 DEF LabelsOf
<1>. QED  BY <1>1, <1>4

LEMMA Completion == PrintInv => CompletedJobIsPrinted
<1>. SUFFICES ASSUME PrintInv, NEW j \in Jobs, job[j] # "NONE"
              PROVE  job[j] = "COMPLETED" <=>
                        \A i \in ItemsOf(j) :
                            \E e \in AttemptsAt(i) :
                                exec[e].state = "SPOOLER_ACCEPTED" /\ started[e] = 1
  BY DEF CompletedJobIsPrinted
<1>0. BackendInv
  BY Halves
<1>1. \A i \in ItemsOf(j) : i \in Items
  BY ItemsOfType
<1>2. \A i \in Items : \A e \in AttemptsAt(i) :
          exec[e].state = "SPOOLER_ACCEPTED" => started[e] = 1
  BY <1>0, Attempts DEF BackendInv, Row
<1>. QED  BY <1>0, <1>1, <1>2 DEF BackendInv, ItemsAgree

\* A concluded execution never changes: handlers and revocations look at the
\* state first.
LEMMA Finality ==
    ASSUME PrintInv, [Next]_vars, NEW e \in Executions, exec[e].state \in Terminal
    PROVE  exec'[e] = exec[e]
<1>0. BackendInv /\ AgentType /\ BackendType /\ exec[e].state \notin Nonterminal
      /\ exec[e].state # "NONE" /\ exec[e].state \notin PreSpoolIssuable
  BY Halves DEF BackendInv, Terminal, Nonterminal, PreSpoolIssuable
<1>1. CASE UNCHANGED exec
  BY <1>1
<1>2. ASSUME NEW a \in Agents, AgentStep(a) PROVE exec'[e] = exec[e]
  <2>. DEFINE f == run[a].exec
  <2>1. CASE FetchDelivery(a) \/ NoControl(a) \/ Render(a) \/ RenderFails(a)
             \/ CrossSpoolBoundary(a) \/ SpoolFails(a) \/ ResolveRaises(a) \/ StartDoc(a)
             \/ RecordJobCreated(a)
             \/ \E v \in {"SPOOLER_ACCEPTED", "UNKNOWN_AFTER_SPOOL"} : RecordOutcome(a, v)
    BY <2>1 DEF FetchDelivery, NoControl, Render, RenderFails, CrossSpoolBoundary, SpoolFails,
                ResolveRaises, StartDoc, RecordJobCreated, RecordOutcome, backend
  <2>2. CASE RequestPayload(a)
    <3>1. f \in Executions
      BY <2>2, RunOf DEF RequestPayload, At
    <3>2. UNCHANGED exec \/ Issue(f)
      BY <2>2 DEF RequestPayload, IssueEnds, backend
    <3>. QED  BY <1>0, <3>1, <3>2 DEF Issue, MayIssue, BackendType
  <2>3. CASE SendAck(a)
    <3>1. f \in Executions
      BY <2>3, RunOf DEF SendAck, At
    <3>2. UNCHANGED exec \/ (res[f].state = "ISSUED" /\
              \E s \in Terminal \cup Nonterminal : exec' = [exec EXCEPT ![f].state = s])
      BY <2>3 DEF SendAck, Acknowledge, AcknowledgeMismatch, backend, Terminal, Nonterminal
    <3>3. res[f].state = "ISSUED" => exec[f].state \in PreSpoolIssuable
      BY <1>0, <3>1 DEF BackendInv, Reserved, Live
    <3>. QED  BY <1>0, <3>1, <3>2, <3>3 DEF BackendType
  <2>4. CASE CallMarkRendered(a) \/ CallBeginSpool(a) \/ CallJobCreated(a) \/ CallReportResult(a)
    <3>1. f \in Executions
      BY <2>4, RunOf DEF CallMarkRendered, CallBeginSpool, CallJobCreated, CallReportResult, At
    <3>2. \/ UNCHANGED exec
          \/ MayMarkRendered(f) /\ MarkRendered(f)
          \/ MayBeginSpool(f) /\ BeginSpool(f)
          \/ \E v \in Terminal \cup {"SPOOL_JOB_CREATED"} :
                 MayReport(f, v, run[a].doc) /\ ReportResult(f, v, run[a].doc)
      <4>1. CASE CallMarkRendered(a) \/ CallBeginSpool(a) \/ CallJobCreated(a)
        BY <4>1 DEF CallMarkRendered, CallBeginSpool, CallJobCreated, Call, backend
      <4>2. CASE CallReportResult(a)
        <5>1. At(a, "verdict") /\ ~At(a, "idle")
          BY <4>2 DEF CallReportResult, At
        <5>2. run[a].verdict \in Terminal
          BY <5>1, RunOf DEF RunAt, At, Terminal
        <5>. QED  BY <4>2, <5>2 DEF CallReportResult, Call, backend
      <4>. QED  BY <2>4, <4>1, <4>2
    <3>3. CASE MayMarkRendered(f) /\ MarkRendered(f)
      BY <1>0, <3>1, <3>3 DEF MayMarkRendered, MarkRendered, BackendType, Terminal
    <3>4. CASE MayBeginSpool(f) /\ BeginSpool(f)
      BY <1>0, <3>1, <3>4 DEF MayBeginSpool, BeginSpool, BackendType, Terminal
    <3>5. ASSUME NEW v \in Terminal \cup {"SPOOL_JOB_CREATED"},
                 MayReport(f, v, run[a].doc), ReportResult(f, v, run[a].doc)
          PROVE  exec'[e] = exec[e]
      <4>1. exec[f].state \in VerdictFollows[v]
        BY <3>5 DEF MayReport
      <4>2. exec[f].state \in Nonterminal
        BY <4>1 DEF VerdictFollows, Nonterminal, Terminal
      <4>. QED  BY <1>0, <3>1, <3>5, <4>2 DEF ReportResult, BackendType
    <3>. QED  BY <3>2, <3>3, <3>4, <3>5
  <2>. QED  BY <1>2, <2>1, <2>2, <2>3, <2>4 DEF AgentStep
<1>3. ASSUME NEW a \in Agents, KeyStep(a) PROVE exec'[e] = exec[e]
  BY <1>0, <1>3 DEF KeyStep, GenerateKey, RegisterKey, RegisterPublicKey, RevokedExecutions,
                    backend
<1>4. CASE Operator
  <2>1. CASE \E i \in Items, a \in Agents : AuthorizeDelivery(i, a)
    <3>1. PICK i \in Items, a \in Agents : AuthorizeDelivery(i, a)
      BY <2>1
    <3>2. PICK f \in Executions : f = <<i[1], i[2], NextAttempt(i)>> /\ exec[f].state = "NONE"
      BY <3>1, NextAttemptIsNew DEF AuthorizeDelivery
    <3>3. \E gone, x : exec' = [RevokedExecutions(gone) EXCEPT ![f] = x]
      BY <3>1, <3>2 DEF AuthorizeDelivery
    <3>. QED  BY <1>0, <3>2, <3>3 DEF RevokedExecutions
  <2>2. CASE \E a \in Agents : DisableBinding(a)
    BY <1>0, <2>2 DEF DisableBinding, Nonterminal
  <2>3. CASE ~(\E i \in Items, a \in Agents : AuthorizeDelivery(i, a))
             /\ ~(\E a \in Agents : DisableBinding(a))
    BY <1>4, <2>3 DEF Operator, CreatePrintJob, Reprint, ExplicitReprintUnknown, CreateKeyIntent
  <2>. QED  BY <2>1, <2>2, <2>3
<1>5. CASE Clock
  BY <1>5 DEF Clock, ReservationLapses, RetiringKeyLapses, IntentExpires
<1>6. ASSUME NEW a \in Agents, Crash(a) PROVE exec'[e] = exec[e]
  BY <1>6 DEF Crash, backend
<1>7. CASE UNCHANGED vars
  BY <1>7 DEF vars, backend
<1>. QED  BY <1>2, <1>3, <1>4, <1>5, <1>6, <1>7 DEF Next

\* The inductive invariant, and with it the type invariant: the rows, the
\* ledger, Windows and the agents' processes agree at every moment.
THEOREM PrintingAgrees == Spec => []PrintInv
  BY PrintInit, PrintStep, PTL DEF Spec

\* An item becomes at most one Windows spool job.
THEOREM OneLabelEver == Spec => []OneLabelPerItem
  BY PrintInit, PrintStep, OneLabel, PTL DEF Spec

\* The agent's disk knows of every spool job before Windows does.
THEOREM LedgerLeads == Spec => []LedgerLeadsSpooler
  BY PrintInit, PrintStep, Agreement, PTL DEF Spec

\* The backend's verdicts agree with Windows.
THEOREM VerdictsAreTrue == Spec => []VerdictsMatchSpooler
  BY PrintInit, PrintStep, Agreement, PTL DEF Spec

\* No live reservation outlives its key, its execution or its item.
THEOREM DisclosureIsSafe == Spec => []DisclosureStaysSafe
  BY PrintInit, PrintStep, Disclosure, PTL DEF Spec

\* A job is COMPLETED exactly when every item of it is printed.
THEOREM CompletionIsTrue == Spec => []CompletedJobIsPrinted
  BY PrintInit, PrintStep, Completion, PTL DEF Spec

\* A concluded execution is immutable.
THEOREM ConcludedExecutionsStay == Spec => ConcludedIsFinal
<1>1. PrintInv /\ [Next]_vars =>
          [\A e \in Executions : exec[e].state \in Terminal => exec'[e] = exec[e]]_vars
  BY Finality
<1>. QED  BY <1>1, PrintInit, PrintStep, PTL DEF Spec, ConcludedIsFinal

=============================================================================
