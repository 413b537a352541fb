-------------------------- MODULE WritePathProofs --------------------------
(* Proofs about the write path for every set of operations and agents and   *)
(* every bound: type correctness, at most one create per operation, true    *)
(* verdicts, final evidence, and the refinement of SubmissionContract.      *)
EXTENDS WritePath, SequenceTheorems, FiniteSetTheorems, TLAPS

----------------------------------------------------------------------------
(* Type correctness.  The lemmas say what the operators of OperationStore   *)
(* and the backend's job handling return; the theorem is TypeOK.            *)

(* Every job id is one of the three kinds _stable_job_id makes, and names an
   operation and a purpose. *)
LEMMA JobIdShape ==
    ASSUME NEW j \in JobIds
    PROVE  /\ j.op \in Ops
           /\ j.purpose \in Purposes
           /\ j.attempt \in Nat
           /\ j.purpose = "POLL" => j.attempt \in 1..MaxPoll
    BY MaxPollAssumption DEF JobIds, WriteJob, PollJob, ReconciliationJob, Purposes

(* The ids the backend enqueues are job ids. *)
LEMMA JobIdsClosed ==
    ASSUME NEW o \in Ops
    PROVE  /\ WriteJob(o) \in JobIds
           /\ ReconciliationJob(o) \in JobIds
           /\ \A n \in 1..MaxPoll : PollJob(o, n) \in JobIds
    BY DEF JobIds

(* The rows the store creates and every result the agent can build are well
   formed. *)
LEMMA ConstantTypes ==
    /\ NoResult \in AgentResults
    /\ AbsentOperation \in Operations
    /\ AbsentJob \in JobRows
    /\ IdleAgent \in AgentStates
    BY DEF NoResult, AgentResults, AbsentOperation, Operations, WriteStates, AbsentJob,
           JobRows, IdleAgent, AgentStates, NoDoc, None

(* run_once, _write, _poll and _cis_check build well-formed results. *)
LEMMA ResultTypes ==
    /\ \A e \in {"LOCAL_FAILURE", "AgentCreateOutcomeUnresolved", "TRANSPORT_FAILURE",
                 "LEDGER_FAILURE", "POLL_HTTP_ERROR"} : ErrorResult(e) \in AgentResults
    /\ \A c \in CreateCategories, d \in Nat : CreateResult(c, d) \in AgentResults
    /\ \A s \in RemoteStatuses \cup {None} : PollResult(s) \in AgentResults
    /\ \A c \in {"CONFIRMS", "DIFFERS"} : CisResult(c) \in AgentResults
<1>1. \A e \in {"LOCAL_FAILURE", "AgentCreateOutcomeUnresolved", "TRANSPORT_FAILURE",
                "LEDGER_FAILURE", "POLL_HTTP_ERROR"} : ErrorResult(e) \in AgentResults
    BY DEF ErrorResult, NoResult, AgentResults, NoDoc, None
<1>2. \A c \in CreateCategories, d \in Nat : CreateResult(c, d) \in AgentResults
    BY DEF CreateResult, NoResult, AgentResults, NoDoc, None, CreateCategories
<1>3. \A s \in RemoteStatuses \cup {None} : PollResult(s) \in AgentResults
    BY DEF PollResult, NoResult, AgentResults, NoDoc, None, RemoteStatuses, Classify
<1>4. \A c \in {"CONFIRMS", "DIFFERS"} : CisResult(c) \in AgentResults
    BY DEF CisResult, NoResult, AgentResults, NoDoc, None
<1> QED  BY <1>1, <1>2, <1>3, <1>4

(* The transitions of the operation store return operation rows. *)
LEMMA StoreTypes ==
    ASSUME NEW op \in Operations, NEW res \in AgentResults
    PROVE  /\ Prepare(op) \in Operations
           /\ CompleteSubmit(op, res) \in Operations
           /\ ApplyWriteResult(op, res) \in Operations
           /\ ApplyPollResult(op, res) \in Operations
           /\ ApplyCore(op, res) \in Operations
           /\ MarkManualReview(op) \in Operations
           /\ ReconciliationResult(op, res) \in Operations
<1>1. Prepare(op) \in Operations
    BY DEF Prepare, Operations, WriteStates, NoDoc
<1>2. CompleteSubmit(op, res) \in Operations
    BY DEF CompleteSubmit, Operations, WriteStates, NoDoc, AgentResults
<1>3. ApplyWriteResult(op, res) \in Operations
    BY <1>2 DEF ApplyWriteResult
<1>4. ApplyPollResult(op, res) \in Operations
    BY DEF ApplyPollResult, Operations, WriteStates, Classify
<1>5. ApplyCore(op, res) \in Operations
    BY <1>3, <1>4 DEF ApplyCore
<1>6. MarkManualReview(op) \in Operations
    BY DEF MarkManualReview, Operations, WriteStates
<1>7. ReconciliationResult(op, res) \in Operations
    BY DEF ReconciliationResult, Operations, WriteStates
<1> QED  BY <1>1, <1>2, <1>3, <1>4, <1>5, <1>6, <1>7

(* job_store.enqueue and job_store.complete keep the job table well formed. *)
LEMMA JobTableTypes ==
    ASSUME NEW js \in [JobIds -> JobRows], NEW j \in JobIds
    PROVE  /\ \A d \in Nat : Enqueue(js, j, d) \in [JobIds -> JobRows]
           /\ \A res \in AgentResults : CompleteJob(js, j, res) \in [JobIds -> JobRows]
<1>1. \A d \in Nat : Enqueue(js, j, d) \in [JobIds -> JobRows]
    BY ConstantTypes DEF Enqueue, JobRows, AbsentJob
<1>2. \A res \in AgentResults : CompleteJob(js, j, res) \in [JobIds -> JobRows]
    BY DEF CompleteJob, JobRows
<1> QED  BY <1>1, <1>2

(* The rest of submit_result returns an operation row and a job table. *)
LEMMA FollowUpTypes ==
    ASSUME NEW j \in JobIds, NEW op \in Operations, NEW js \in [JobIds -> JobRows],
           NEW res \in AgentResults
    PROVE  /\ FollowUp(j, op, js, res).op \in Operations
           /\ FollowUp(j, op, js, res).jobs \in [JobIds -> JobRows]
<1> op.doc \in Nat /\ j.op \in Ops
    BY JobIdShape DEF Operations
<1>1. CASE j.purpose = "WRITE"
    <2>1. MaxPoll >= 1 => PollJob(j.op, 1) \in JobIds
        BY JobIdsClosed, MaxPollAssumption
    <2>2. AfterWrite(j.op, op, js).op \in Operations
        BY DEF AfterWrite
    <2>3. AfterWrite(j.op, op, js).jobs \in [JobIds -> JobRows]
        BY <2>1, JobTableTypes, MaxPollAssumption DEF AfterWrite
    <2> QED  BY <1>1, <2>2, <2>3 DEF FollowUp
<1>2. CASE j.purpose = "POLL"
    <2>1. j.attempt \in 1..MaxPoll
        BY <1>2, JobIdShape
    <2>2. j.attempt < MaxPoll => PollJob(j.op, j.attempt + 1) \in JobIds
        BY <2>1, JobIdsClosed, MaxPollAssumption
    <2>3. ReconciliationJob(j.op) \in JobIds
        BY JobIdsClosed
    <2>4. AfterPoll(j.op, op, js, j.attempt).op \in Operations
        BY StoreTypes, <2>1, MaxPollAssumption DEF AfterPoll
    <2>5. AfterPoll(j.op, op, js, j.attempt).jobs \in [JobIds -> JobRows]
        BY <2>1, <2>2, <2>3, JobTableTypes, MaxPollAssumption DEF AfterPoll, NoDoc
    <2> QED  BY <1>2, <2>4, <2>5 DEF FollowUp
<1>3. CASE j.purpose = "RECONCILIATION_CIS"
    BY <1>3, StoreTypes DEF FollowUp
<1> QED  BY <1>1, <1>2, <1>3, JobIdShape DEF Purposes

(* Whatever state True API's document is in, the parser sees a known status,
   an unlisted one or none. *)
LEMMA AnswersTypes == \A s : Answers(s) \subseteq RemoteStatuses \cup {None}
    BY DEF Answers, RemoteStatuses, None

(* A step of a process that ends with a result in hand keeps the agents well
   formed. *)
LEMMA HasResultTypes ==
    ASSUME TypeOK, NEW a \in Agents, agent[a].pc # "idle",
           NEW res \in AgentResults, HasResult(a, res)
    PROVE  /\ agent' \in [Agents -> AgentStates]
           /\ \A b \in Agents : agent'[b].job = NoJob <=> agent'[b].pc = "idle"
    BY DEF TypeOK, HasResult, AgentStates

(* TypeOK holds initially. *)
LEMMA TypeOKInit == Init => TypeOK
<1> SUFFICES ASSUME Init PROVE TypeOK
    OBVIOUS
<1> USE DEF Init
<1>1. ops \in [Ops -> Operations] /\ jobs \in [JobIds -> JobRows]
    BY ConstantTypes
<1>2. ledger \in [Ops -> LedgerRows]
    BY ConstantTypes DEF LedgerRows
<1>3. /\ agent \in [Agents -> AgentStates]
      /\ \A a \in Agents : agent[a].job = NoJob <=> agent[a].pc = "idle"
    BY ConstantTypes DEF IdleAgent
<1>4. net \in SUBSET Messages /\ posts \in [Ops -> Seq(PostStates)] /\ faults \in Nat
    OBVIOUS
<1> QED  BY <1>1, <1>2, <1>3, <1>4 DEF TypeOK

(* Every step of the backend, the agents and the environment preserves
   TypeOK. *)
LEMMA TypeOKStep == TypeOK /\ [Next]_vars => TypeOK'
<1> SUFFICES ASSUME TypeOK, [Next]_vars PROVE TypeOK'
    OBVIOUS
<1> USE DEF TypeOK
<1>1. ASSUME NEW o \in Ops, PrepareApprovedWrite(o) PROVE TypeOK'
    <2>1. Prepare(ops[o]) \in Operations
        BY StoreTypes, ConstantTypes
    <2>2. jobs' \in [JobIds -> JobRows]
        BY <1>1, JobIdsClosed, JobTableTypes DEF PrepareApprovedWrite, NoDoc
    <2> QED  BY <1>1, <2>1, <2>2 DEF PrepareApprovedWrite
<1>2. ASSUME NEW j \in JobIds, LeaseExpires(j) PROVE TypeOK'
    BY <1>2 DEF LeaseExpires, JobRows
<1>3. ASSUME NEW a \in Agents, NEW j \in JobIds, Fetch(a, j) PROVE TypeOK'
    <2>1. jobs' \in [JobIds -> JobRows]
        BY <1>3 DEF Fetch, JobRows
    <2>2. [IdleAgent EXCEPT !.pc = "execute", !.job = j] \in AgentStates
        BY ConstantTypes DEF AgentStates
    <2>3. agent' \in [Agents -> AgentStates]
        BY <1>3, <2>2 DEF Fetch
    <2>4. \A b \in Agents : agent'[b].job = NoJob <=> agent'[b].pc = "idle"
        BY <1>3, NoJobAssumption DEF Fetch, IdleAgent
    <2> QED  BY <1>3, <2>1, <2>3, <2>4 DEF Fetch
<1>4. ASSUME NEW a \in Agents, AgentStep(a) PROVE TypeOK'
    <2>0. agent[a].pc # "idle" => agent[a].job \in JobIds /\ agent[a].job.op \in Ops
        BY JobIdShape DEF AgentStates
    <2>1. CASE Inspect(a)
        <3>1. ledger[agent[a].job.op].result \in AgentResults
            BY <2>0, <2>1 DEF Inspect, LedgerRows
        <3>2. CASE agent' = [agent EXCEPT ![a].pc = "sign"]
            BY <2>1, <3>2 DEF Inspect, AgentStates
        <3>3. CASE \E r \in AgentResults : HasResult(a, r)
            BY <2>1, <3>3, HasResultTypes DEF Inspect
        <3> QED  BY <2>1, <3>1, <3>2, <3>3, ResultTypes DEF Inspect
    <2>2. CASE LocalFailure(a)
        BY <2>2, ResultTypes, HasResultTypes DEF LocalFailure
    <2>3. CASE SignAndClaim(a)
        <3>1. ledger[agent[a].job.op].result \in AgentResults
            BY <2>0, <2>3 DEF SignAndClaim, LedgerRows
        <3>2. ledger' \in [Ops -> LedgerRows]
            BY <2>3, <2>0 DEF SignAndClaim, LedgerRows
        <3>3. CASE agent' = [agent EXCEPT ![a].pc = "create"]
            BY <2>3, <3>2, <3>3 DEF SignAndClaim, AgentStates
        <3>4. CASE \E r \in AgentResults : HasResult(a, r)
            BY <2>3, <3>2, <3>4, HasResultTypes DEF SignAndClaim
        <3> QED  BY <2>3, <3>1, <3>3, <3>4, ResultTypes DEF SignAndClaim
    <2>4. CASE PostCreate(a)
        <3>1. posts' \in [Ops -> Seq(PostStates)]
            BY <2>4, <2>0 DEF PostCreate, PostStates
        <3>2. Len(posts[agent[a].job.op]) + 1 \in Nat
            BY <2>4, <2>0 DEF PostCreate
        <3>3. [agent[a] EXCEPT !.pc = "await", !.post = Len(posts[agent[a].job.op]) + 1] \in AgentStates
            BY <3>2 DEF AgentStates
        <3>4. agent' \in [Agents -> AgentStates]
            BY <2>4, <3>3 DEF PostCreate
        <3> QED  BY <2>4, <3>1, <3>4 DEF PostCreate
    <2>5. CASE CreateRaises(a)
        BY <2>5, ResultTypes, HasResultTypes DEF CreateRaises
    <2>6. ASSUME NEW c \in CreateCategories, CreateResponds(a, c) PROVE TypeOK'
        <3>1. CreateResult(c, agent[a].post) \in AgentResults
            BY ResultTypes DEF AgentStates
        <3> QED  BY <2>6, <3>1 DEF CreateResponds, AgentStates
    <2>7. CASE RecordResult(a)
        <3>1. agent[a].result \in AgentResults
            BY DEF AgentStates
        <3>2. [state |-> "COMPLETED", result |-> agent[a].result] \in LedgerRows
            BY <3>1 DEF LedgerRows
        <3>3. ledger' \in [Ops -> LedgerRows]
            BY <2>7, <3>2 DEF RecordResult
        <3>4. CASE agent' = [agent EXCEPT ![a].pc = "submit"]
            BY <2>7, <3>3, <3>4 DEF RecordResult, AgentStates
        <3>5. CASE \E r \in AgentResults : HasResult(a, r)
            BY <2>7, <3>3, <3>5, HasResultTypes DEF RecordResult
        <3> QED  BY <2>7, <3>4, <3>5, ResultTypes DEF RecordResult
    <2>8. CASE PollRead(a)
        <3>1. \E r \in AgentResults : HasResult(a, r)
            BY <2>8, ResultTypes, AnswersTypes DEF PollRead
        <3> QED  BY <2>8, <3>1, HasResultTypes DEF PollRead
    <2>9. CASE ReconciliationRead(a)
        BY <2>9, ResultTypes, HasResultTypes DEF ReconciliationRead
    <2>10. CASE Submit(a)
        <3>1. [job |-> agent[a].job, result |-> agent[a].result] \in Messages
            BY <2>0, <2>10 DEF Submit, Messages, AgentStates
        <3>2. /\ agent' \in [Agents -> AgentStates]
              /\ \A b \in Agents : agent'[b].job = NoJob <=> agent'[b].pc = "idle"
            BY <2>10, ConstantTypes DEF Submit, IdleAgent
        <3> QED  BY <2>10, <3>1, <3>2 DEF Submit
    <2> QED  BY <1>4, <2>1, <2>2, <2>3, <2>4, <2>5, <2>6, <2>7, <2>8, <2>9, <2>10
             DEF AgentStep
<1>5. ASSUME NEW m \in net, SubmitResult(m) PROVE TypeOK'
    <2>1. m.job \in JobIds /\ m.job.op \in Ops /\ m.result \in AgentResults
        BY JobIdShape DEF Messages
    <2>2. ApplyCore(ops[m.job.op], m.result) \in Operations
        BY <2>1, StoreTypes
    <2>3. CompleteJob(jobs, m.job, m.result) \in [JobIds -> JobRows]
        BY <2>1, JobTableTypes
    <2> DEFINE fu == FollowUp(m.job, ApplyCore(ops[m.job.op], m.result),
                              CompleteJob(jobs, m.job, m.result), m.result)
    <2>4. fu.op \in Operations /\ fu.jobs \in [JobIds -> JobRows]
        BY <2>1, <2>2, <2>3, FollowUpTypes
    <2>5. \/ ops' = [ops EXCEPT ![m.job.op] = fu.op] /\ jobs' = fu.jobs
          \/ UNCHANGED <<ops, jobs>>
        BY <1>5 DEF SubmitResult
    <2> HIDE DEF fu
    <2>6. ops' \in [Ops -> Operations] /\ jobs' \in [JobIds -> JobRows]
        BY <2>1, <2>4, <2>5
    <2> QED  BY <1>5, <2>6 DEF SubmitResult
<1>6. ASSUME NEW a \in Agents, Crash(a) PROVE TypeOK'
    <2>1. /\ agent' \in [Agents -> AgentStates]
          /\ \A b \in Agents : agent'[b].job = NoJob <=> agent'[b].pc = "idle"
        BY <1>6, ConstantTypes DEF Crash, IdleAgent
    <2> QED  BY <1>6, <2>1 DEF Crash
<1>7. ASSUME NEW m \in net, Lose(m) PROVE TypeOK'
    BY <1>7 DEF Lose
<1>8. ASSUME NEW o \in Ops, NEW s \in PostStates, NEW n \in DOMAIN posts[o],
             RemoteStep(o, n, s)
      PROVE  TypeOK'
    <2>1. [posts[o] EXCEPT ![n] = s] \in Seq(PostStates)
        BY ExceptSeq
    <2>2. posts' \in [Ops -> Seq(PostStates)]
        BY <1>8, <2>1 DEF RemoteStep
    <2> QED  BY <1>8, <2>2 DEF RemoteStep
<1>9. CASE UNCHANGED vars
    BY <1>9 DEF vars
<1> QED  BY <1>1, <1>2, <1>3, <1>4, <1>5, <1>6, <1>7, <1>8, <1>9 DEF Next

(* The type invariant of the write path holds for every instance. *)
THEOREM WritePathTypeCorrect == Spec => []TypeOK
    BY TypeOKInit, TypeOKStep, PTL DEF Spec

----------------------------------------------------------------------------
(* Safety: one inductive invariant (Inv), which says where every piece of   *)
(* knowledge about True API comes from.                                     *)

(* The create requests p of one operation: there is one, and what True API
   made of it is in S. *)
Posted(p, S) == Len(p) = 1 /\ p[1] \in S

(* A process between claim() and complete(): it alone may send the create. *)
Holding(a) == agent[a].pc \in {"create", "await", "record"}

(* The replay ledger guards the POST: nothing was posted before the claim, a
   holder's claim is still RESERVED, no two processes hold the same
   operation, and the holder posts only once. *)
ClaimInv ==
    /\ \A o \in Ops : Len(posts[o]) <= 1
    /\ \A o \in Ops : ledger[o].state = "ABSENT" => Len(posts[o]) = 0
    /\ \A a \in Agents : agent[a].pc \in {"sign", "create", "await", "record"} =>
          agent[a].job.purpose = "WRITE"
    /\ \A a \in Agents : Holding(a) => ledger[agent[a].job.op].state = "RESERVED"
    /\ \A a, b \in Agents :
          Holding(a) /\ Holding(b) /\ agent[a].job.op = agent[b].job.op => a = b
    /\ \A a \in Agents : agent[a].pc = "create" => Len(posts[agent[a].job.op]) = 0
    /\ \A a \in Agents : agent[a].pc \in {"await", "record"} =>
          agent[a].post = 1 /\ Len(posts[agent[a].job.op]) = 1

(* A result tells the truth about the document of its operation: an id only
   for a registered document, a refusal only for a refused one, a final
   status only for the status the document has. *)
Truthful(p, r) ==
    /\ r.category = "SUCCESS_WITH_ID" => r.doc = 1 /\ Posted(p, Registered)
    /\ r.category = "CLIENT_ERROR" => Posted(p, {"REJECTED"})
    /\ r.remote = "CHECKED_OK" => Posted(p, {"OK"})
    /\ r.remote = "CHECKED_NOT_OK" => Posted(p, {"NOT_OK"})

(* Results are truthful wherever they are: in hand, in the ledger, on the
   wire. *)
ResultInv ==
    /\ \A a \in Agents : agent[a].pc # "idle" =>
          Truthful(posts[agent[a].job.op], agent[a].result)
    /\ \A o \in Ops : Truthful(posts[o], ledger[o].result)
    /\ \A m \in net : Truthful(posts[m.job.op], m.result)

(* Jobs exist while an agent executes them or their result is on the wire, and
   a POLL job names the document that was registered. *)
JobInv ==
    /\ \A a \in Agents : agent[a].pc # "idle" => jobs[agent[a].job].state # "ABSENT"
    /\ \A m \in net : jobs[m.job].state # "ABSENT"
    /\ \A j \in JobIds : j.purpose = "POLL" /\ jobs[j].state # "ABSENT" =>
          jobs[j].doc = 1 /\ Posted(posts[j.op], Registered)

(* What an operation's row says about its document. *)
RowIsTrue(p, op) ==
    /\ op.doc # NoDoc => op.doc = 1 /\ Posted(p, Registered)
    /\ op.state \in {"ABSENT", "AWAITING_SIGNATURE", "SIGNED", "SUBMITTING"} =>
          op.doc = NoDoc
    /\ op.state \in {"SUBMITTED", "PROCESSING"} => op.doc = 1
    /\ op.state \in {"RECONCILIATION_REQUIRED", "SUCCEEDED"} =>
          op.doc = 1 /\ Posted(p, {"OK"})
    /\ op.state = "FAILED" => Posted(p, {"REJECTED", "NOT_OK"})

OperationInv == \A o \in Ops : RowIsTrue(posts[o], ops[o])

Inv == TypeOK /\ ClaimInv /\ ResultInv /\ JobInv /\ OperationInv

(* What True API said about a document is never taken back. *)
Grows(p, q) ==
    \A S \in {Registered, {"REJECTED"}, {"OK"}, {"NOT_OK"}, {"REJECTED", "NOT_OK"}} :
        Posted(p, S) => Posted(q, S)

-----------------------------------------------------------------------------
(* Truth about a document stays true. *)
LEMMA TruthPersists ==
    ASSUME NEW p, NEW q, Grows(p, q)
    PROVE  /\ \A r : Truthful(p, r) => Truthful(q, r)
           /\ \A op : RowIsTrue(p, op) => RowIsTrue(q, op)
    BY DEF Grows, Truthful, RowIsTrue

(* A result without an evidence field is always truthful. *)
LEMMA NoEvidenceIsTruthful ==
    ASSUME NEW p
    PROVE  /\ Truthful(p, NoResult)
           /\ \A e : Truthful(p, ErrorResult(e))
           /\ \A c : Truthful(p, CisResult(c))
    BY DEF Truthful, NoResult, ErrorResult, CisResult, None

(* What the create response says agrees with what happened to the request. *)
LEMMA CreateResultIsTruthful ==
    ASSUME NEW p, Len(p) = 1, p[1] \in PostStates, NEW c \in Categories(p[1])
    PROVE  Truthful(p, CreateResult(c, 1))
    BY DEF Categories, Truthful, CreateResult, NoResult, None, Posted, Registered, PostStates

(* What a poll of a registered document says agrees with its status. *)
LEMMA PollResultIsTruthful ==
    ASSUME NEW p, Posted(p, Registered), NEW s \in Answers(p[1])
    PROVE  Truthful(p, PollResult(s))
    BY DEF Answers, Truthful, PollResult, NoResult, None, Posted, Registered, Classify

(* The broker keeps the row true when the result is. *)
LEMMA ApplyCoreIsTrue ==
    ASSUME NEW p, NEW op \in Operations, NEW res \in AgentResults,
           RowIsTrue(p, op), Truthful(p, res)
    PROVE  RowIsTrue(p, ApplyCore(op, res))
<1>1. RowIsTrue(p, ApplyWriteResult(op, res)) \/ res.category = None
    BY DEF ApplyWriteResult, CompleteSubmit, RowIsTrue, Truthful, AgentResults,
           CreateCategories, NoDoc, None, Operations, WriteStates, Posted
<1>2. RowIsTrue(p, ApplyPollResult(op, res))
    BY DEF ApplyPollResult, Classify, RowIsTrue, Truthful, AgentResults,
           RemoteStatuses, NoDoc, None, Operations, WriteStates, Posted
<1> QED  BY <1>1, <1>2 DEF ApplyCore

(* So does the follow-up of the job. *)
LEMMA FollowUpIsTrue ==
    ASSUME NEW p, NEW j \in JobIds, NEW op \in Operations, NEW js, NEW res,
           RowIsTrue(p, op)
    PROVE  RowIsTrue(p, FollowUp(j, op, js, res).op)
<1>1. RowIsTrue(p, ReconciliationResult(op, res))
    BY DEF ReconciliationResult, RowIsTrue, Operations, WriteStates
<1>2. RowIsTrue(p, AfterWrite(j.op, op, js).op)
    BY DEF AfterWrite
<1>3. op.state = "PROCESSING" => RowIsTrue(p, MarkManualReview(op))
    BY DEF MarkManualReview, RowIsTrue, Operations
<1>4. RowIsTrue(p, AfterPoll(j.op, op, js, j.attempt).op)
    BY <1>3 DEF AfterPoll
<1> QED  BY <1>1, <1>2, <1>4 DEF FollowUp

(* The follow-up touches no job but the one new job it queues, and a POLL job
   is queued with the operation's document id. *)
LEMMA FollowUpJobs ==
    ASSUME NEW j \in JobIds, NEW op \in Operations, NEW js \in [JobIds -> JobRows],
           NEW res, NEW i \in JobIds
    PROVE  \/ FollowUp(j, op, js, res).jobs[i] = js[i]
           \/ /\ js[i].state = "ABSENT"
              /\ FollowUp(j, op, js, res).jobs[i].state = "PENDING"
              /\ i.op = j.op
              /\ i.purpose = "POLL" =>
                    op.doc # NoDoc /\ FollowUp(j, op, js, res).jobs[i].doc = op.doc
<1> DEFINE Queued(k, d) ==
        \/ Enqueue(js, k, d)[i] = js[i]
        \/ /\ js[i].state = "ABSENT" /\ i = k
           /\ Enqueue(js, k, d)[i].state = "PENDING" /\ Enqueue(js, k, d)[i].doc = d
<1>1. ASSUME NEW k, NEW d PROVE Queued(k, d)
    BY DEF Enqueue, AbsentJob
<1> HIDE DEF Queued
<1>2. Queued(PollJob(j.op, 1), op.doc) /\ Queued(ReconciliationJob(j.op), NoDoc)
      /\ Queued(PollJob(j.op, j.attempt + 1), op.doc)
    BY <1>1
<1>3. /\ \A o, n : PollJob(o, n).op = o /\ PollJob(o, n).purpose = "POLL"
      /\ \A o : ReconciliationJob(o).op = o
                /\ ReconciliationJob(o).purpose = "RECONCILIATION_CIS"
    BY DEF PollJob, ReconciliationJob
<1>4. CASE j.purpose = "WRITE"
    BY <1>2, <1>3, <1>4 DEF FollowUp, AfterWrite, Queued
<1>5. CASE j.purpose = "POLL"
    BY <1>2, <1>3, <1>5 DEF FollowUp, AfterPoll, Queued
<1>6. CASE j.purpose = "RECONCILIATION_CIS"
    BY <1>6 DEF FollowUp
<1> QED  BY <1>4, <1>5, <1>6, JobIdShape DEF Purposes

-----------------------------------------------------------------------------
(* A process that is not idle works on a job of some operation. *)
LEMMA AgentJob ==
    ASSUME TypeOK, NEW a \in Agents, agent[a].pc # "idle"
    PROVE  agent[a].job \in JobIds /\ agent[a].job.op \in Ops
    BY JobIdShape DEF TypeOK, AgentStates

(* There is only one create request True API can be working on. *)
LEMMA OnlyRequest ==
    ASSUME TypeOK, ClaimInv, NEW o \in Ops, NEW n \in DOMAIN posts[o]
    PROVE  posts[o] \in Seq(PostStates) /\ Len(posts[o]) = 1 /\ n = 1
<1>1. posts[o] \in Seq(PostStates) /\ Len(posts[o]) <= 1
    BY DEF TypeOK, ClaimInv
<1>2. Len(posts[o]) \in Nat /\ n \in 1..Len(posts[o])
    BY <1>1
<1>3. \A l \in Nat : \A k \in 1..l : l <= 1 => l = 1 /\ k = 1
    OBVIOUS
<1> QED  BY <1>1, <1>2, <1>3, Zenon

(* No step takes back what True API said: PostCreate starts a document where
   there was none, RemoteStep only moves it forward. *)
LEMMA PostsGrow ==
    ASSUME Inv, [Next]_vars
    PROVE  \A o \in Ops : Grows(posts[o], posts'[o])
<1> USE DEF Inv
<1>1. CASE UNCHANGED posts
    BY <1>1 DEF Grows
<1>2. ASSUME NEW a \in Agents, PostCreate(a) PROVE \A o \in Ops : Grows(posts[o], posts'[o])
    <2>1. Len(posts[agent[a].job.op]) = 0
        BY <1>2 DEF PostCreate, ClaimInv
    <2>2. \A o \in Ops : o # agent[a].job.op => posts'[o] = posts[o]
        BY <1>2 DEF PostCreate, TypeOK
    <2> QED  BY <2>1, <2>2 DEF Grows, Posted
<1>3. ASSUME NEW o \in Ops, NEW s \in PostStates, NEW n \in DOMAIN posts[o],
             RemoteStep(o, n, s)
      PROVE  \A u \in Ops : Grows(posts[u], posts'[u])
    <2>1. posts[o] \in Seq(PostStates) /\ Len(posts[o]) = 1 /\ n = 1
        BY OnlyRequest
    <2>2. posts'[o] = [posts[o] EXCEPT ![1] = s]
        BY <1>3, <2>1 DEF RemoteStep, TypeOK
    <2>3. Len(posts'[o]) = 1 /\ posts'[o][1] = s
        BY <2>1, <2>2
    <2>4. Grows(posts[o], posts'[o])
        BY <1>3, <2>1, <2>3 DEF RemoteStep, Grows, Posted, Registered
    <2>5. \A u \in Ops : u # o => posts'[u] = posts[u]
        BY <1>3 DEF RemoteStep, TypeOK
    <2> QED  BY <2>4, <2>5 DEF Grows
<1> QED
    BY <1>1, <1>2, <1>3
    DEF Next, AgentStep, vars, PrepareApprovedWrite, LeaseExpires, Fetch, Inspect,
        LocalFailure, SignAndClaim, CreateRaises, CreateResponds, RecordResult, PollRead,
        ReconciliationRead, Submit, SubmitResult, Crash, Lose

-----------------------------------------------------------------------------
(* A process that leaves the claim section, or never was in it, disturbs
   nobody's claim. *)
LEMMA ClaimReleased ==
    ASSUME TypeOK, ClaimInv, NEW a \in Agents, UNCHANGED <<ledger, posts>>,
           \A b \in Agents : b # a => agent'[b] = agent[b],
           \/ agent'[a].pc \in {"idle", "execute", "submit"}
           \/ agent'[a].pc = "sign" /\ agent'[a].job.purpose = "WRITE"
    PROVE  ClaimInv'
    BY DEF ClaimInv, Holding

(* Every step preserves ClaimInv. *)
LEMMA ClaimStep == ASSUME Inv, [Next]_vars PROVE ClaimInv'
<1> USE DEF Inv
<1>1. CASE UNCHANGED <<agent, ledger, posts>>
    BY <1>1 DEF ClaimInv, Holding
<1>2. ASSUME NEW a \in Agents, NEW j \in JobIds, Fetch(a, j) PROVE ClaimInv'
    BY <1>2, ClaimReleased DEF Fetch, TypeOK, IdleAgent
<1>3. ASSUME NEW a \in Agents,
             Inspect(a) \/ LocalFailure(a) \/ CreateRaises(a) \/ PollRead(a)
                \/ ReconciliationRead(a) \/ Submit(a) \/ Crash(a)
      PROVE  ClaimInv'
    <2>1. UNCHANGED <<ledger, posts>> /\ \A b \in Agents : b # a => agent'[b] = agent[b]
        BY <1>3 DEF Inspect, LocalFailure, CreateRaises, PollRead, ReconciliationRead,
                    Submit, Crash, HasResult, TypeOK
    <2>2. \/ agent'[a].pc \in {"idle", "execute", "submit"}
          \/ agent'[a].pc = "sign" /\ agent'[a].job.purpose = "WRITE"
        <3>1. CASE Inspect(a)
            BY <3>1 DEF Inspect, HasResult, TypeOK, AgentStates
        <3>2. CASE LocalFailure(a) \/ CreateRaises(a) \/ PollRead(a) \/ ReconciliationRead(a)
            <4>1. \E r : HasResult(a, r)
                BY <3>2 DEF LocalFailure, CreateRaises, PollRead, ReconciliationRead
            <4> QED  BY <4>1 DEF HasResult, TypeOK, AgentStates
        <3>3. CASE Submit(a) \/ Crash(a)
            BY <3>3 DEF Submit, Crash, TypeOK, IdleAgent
        <3> QED  BY <1>3, <3>1, <3>2, <3>3
    <2> QED  BY <2>1, <2>2, ClaimReleased
<1>4. ASSUME NEW a \in Agents, SignAndClaim(a) PROVE ClaimInv'
    <2> DEFINE o == agent[a].job.op
    <2>1. o \in Ops
        BY <1>4, AgentJob DEF SignAndClaim
    <2>2. CASE ledger[o].state = "ABSENT"
        <3>1. /\ ledger' = [ledger EXCEPT ![o].state = "RESERVED"]
              /\ agent' = [agent EXCEPT ![a].pc = "create"]
              /\ UNCHANGED posts /\ agent[a].pc = "sign"
            BY <1>4, <2>2 DEF SignAndClaim
        <3>2. \A u \in Ops : ledger'[u].state = IF u = o THEN "RESERVED" ELSE ledger[u].state
            BY <3>1, <2>1 DEF TypeOK, LedgerRows
        <3>3. /\ agent'[a].pc = "create" /\ agent'[a].job = agent[a].job
              /\ \A b \in Agents : b # a => agent'[b] = agent[b]
            BY <3>1 DEF TypeOK, AgentStates
        <3>4. Len(posts[o]) = 0
            BY <2>1, <2>2 DEF ClaimInv
        <3>5. \A b \in Agents : b # a /\ Holding(b) => agent[b].job.op # o
            BY <2>2 DEF ClaimInv, Holding
        <3> QED  BY <2>1, <3>1, <3>2, <3>3, <3>4, <3>5 DEF ClaimInv, Holding
    <2>3. CASE ledger[o].state # "ABSENT"
        <3>1. /\ UNCHANGED <<ledger, posts>> /\ agent'[a].pc = "submit"
              /\ \A b \in Agents : b # a => agent'[b] = agent[b]
            BY <1>4, <2>3 DEF SignAndClaim, HasResult, TypeOK, AgentStates
        <3> QED  BY <3>1, ClaimReleased
    <2> QED  BY <2>2, <2>3
<1>5. ASSUME NEW a \in Agents, PostCreate(a) PROVE ClaimInv'
    <2> DEFINE o == agent[a].job.op
    <2>1. o \in Ops /\ Len(posts[o]) = 0 /\ Holding(a) /\ UNCHANGED ledger
        BY <1>5, AgentJob DEF PostCreate, ClaimInv, Holding
    <2>2. \A u \in Ops : Len(posts'[u]) = IF u = o THEN 1 ELSE Len(posts[u])
        <3>1. posts[o] \in Seq(PostStates) /\ posts'[o] = Append(posts[o], "INFLIGHT")
            BY <1>5, <2>1 DEF PostCreate, TypeOK
        <3>2. Len(posts'[o]) = 1
            BY <2>1, <3>1
        <3> QED  BY <1>5, <3>2 DEF PostCreate, TypeOK
    <2>3. /\ agent'[a].pc = "await" /\ agent'[a].job = agent[a].job /\ agent'[a].post = 1
          /\ \A b \in Agents : b # a => agent'[b] = agent[b]
        BY <1>5, <2>1 DEF PostCreate, TypeOK, AgentStates
    <2>4. \A b \in Agents : b # a /\ Holding(b) => agent[b].job.op # o
        BY <2>1 DEF ClaimInv
    <2>5. ledger[o].state = "RESERVED"
        BY <2>1 DEF ClaimInv
    <2>6. \A b \in Agents : agent[b].pc # "idle" => agent[b].job.op \in Ops
        BY AgentJob
    <2> HIDE DEF o
    <2>7. \A u \in Ops : Len(posts'[u]) <= 1 /\ (ledger'[u].state = "ABSENT" => Len(posts'[u]) = 0)
        BY <2>1, <2>2, <2>5 DEF ClaimInv
    <2>8. \A b \in Agents : /\ agent'[b].job = agent[b].job
                            /\ Holding(b)' <=> Holding(b)
                            /\ agent'[b].pc = "sign" => agent[b].pc = "sign"
                            /\ agent'[b].pc = "create" => agent[b].pc = "create" /\ b # a
                            /\ agent'[b].pc \in {"await", "record"} =>
                                  b = a \/ agent'[b] = agent[b]
        BY <2>1, <2>3 DEF Holding
    <2>9. \A b \in Agents : Holding(b) =>
              agent[b].job.op \in Ops /\ (b # a => agent[b].job.op # o)
        BY <2>4, <2>6 DEF Holding
    <2>10. \A b \in Agents : agent'[b].pc = "create" => Len(posts'[agent'[b].job.op]) = 0
        BY <2>2, <2>8, <2>9 DEF ClaimInv, Holding
    <2>11. \A b \in Agents : agent'[b].pc \in {"await", "record"} =>
              agent'[b].post = 1 /\ Len(posts'[agent'[b].job.op]) = 1
        <3>1. agent'[a].post = 1 /\ Len(posts'[agent'[a].job.op]) = 1
            BY <2>1, <2>2, <2>3 DEF o
        <3>2. \A b \in Agents : b # a /\ agent[b].pc \in {"await", "record"} =>
                 agent[b].post = 1 /\ Len(posts'[agent[b].job.op]) = 1
            BY <2>2, <2>9 DEF ClaimInv, Holding
        <3> QED  BY <2>3, <3>1, <3>2
    <2> QED  BY <2>1, <2>7, <2>8, <2>10, <2>11 DEF ClaimInv, Holding
<1>6. ASSUME NEW a \in Agents, NEW c \in CreateCategories, CreateResponds(a, c)
      PROVE  ClaimInv'
    <2>1. /\ agent'[a].pc = "record" /\ agent'[a].job = agent[a].job
          /\ agent'[a].post = agent[a].post /\ agent[a].pc = "await"
          /\ \A b \in Agents : b # a => agent'[b] = agent[b]
          /\ UNCHANGED <<ledger, posts>>
        BY <1>6 DEF CreateResponds, TypeOK, AgentStates
    <2> QED  BY <2>1 DEF ClaimInv, Holding
<1>7. ASSUME NEW a \in Agents, RecordResult(a) PROVE ClaimInv'
    <2> DEFINE o == agent[a].job.op
    <2>1. o \in Ops /\ Holding(a)
        BY <1>7, AgentJob DEF RecordResult, Holding
    <2>2. /\ agent'[a].pc = "submit" /\ \A b \in Agents : b # a => agent'[b] = agent[b]
          /\ UNCHANGED posts
        BY <1>7 DEF RecordResult, HasResult, TypeOK, AgentStates
    <2>3. CASE UNCHANGED ledger
        BY <2>2, <2>3, ClaimReleased
    <2>4. CASE ledger' = [ledger EXCEPT ![o] = [state |-> "COMPLETED",
                                               result |-> agent[a].result]]
        <3>1. \A u \in Ops : ledger'[u].state = IF u = o THEN "COMPLETED" ELSE ledger[u].state
            BY <2>1, <2>4 DEF TypeOK
        <3>2. \A b \in Agents : b # a /\ Holding(b) => agent[b].job.op # o
            BY <2>1 DEF ClaimInv
        <3>3. \A b \in Agents : Holding(b) => agent[b].job.op \in Ops
            BY AgentJob DEF Holding
        <3> QED  BY <2>1, <2>2, <3>1, <3>2, <3>3 DEF ClaimInv, Holding
    <2> QED  BY <1>7, <2>3, <2>4 DEF RecordResult
<1>8. ASSUME NEW o \in Ops, NEW s \in PostStates, NEW n \in DOMAIN posts[o],
             RemoteStep(o, n, s)
      PROVE  ClaimInv'
    <2>1. \A u \in Ops : Len(posts'[u]) = Len(posts[u])
        <3>1. posts[o] \in Seq(PostStates) /\ posts'[o] = [posts[o] EXCEPT ![n] = s]
            BY <1>8 DEF RemoteStep, TypeOK
        <3>2. Len(posts'[o]) = Len(posts[o])
            BY <3>1, ExceptSeq
        <3> QED  BY <1>8, <3>2 DEF RemoteStep, TypeOK
    <2>2. \A b \in Agents : agent[b].pc # "idle" => agent[b].job.op \in Ops
        BY AgentJob
    <2> QED  BY <1>8, <2>1, <2>2 DEF RemoteStep, ClaimInv, Holding
<1> QED
    BY <1>1, <1>2, <1>3, <1>4, <1>5, <1>6, <1>7, <1>8
    DEF Next, AgentStep, vars, PrepareApprovedWrite, LeaseExpires, SubmitResult, Lose

-----------------------------------------------------------------------------
(* Results that are truthful about the documents before a step are truthful
   after it. *)
LEMMA ResultsPersist ==
    ASSUME TypeOK', \A o \in Ops : Grows(posts[o], posts'[o]),
           \A a \in Agents : agent'[a].pc # "idle" =>
               Truthful(posts[agent'[a].job.op], agent'[a].result),
           \A o \in Ops : Truthful(posts[o], ledger'[o].result),
           \A m \in net' : Truthful(posts[m.job.op], m.result)
    PROVE  ResultInv'
<1>1. \A a \in Agents : agent'[a].pc # "idle" => agent'[a].job.op \in Ops
    BY JobIdShape DEF TypeOK, AgentStates
<1>2. \A m \in net' : m.job.op \in Ops
    BY JobIdShape DEF TypeOK, Messages
<1>3. \A o \in Ops : \A r : Truthful(posts[o], r) => Truthful(posts'[o], r)
    BY TruthPersists
<1> QED  BY <1>1, <1>2, <1>3 DEF ResultInv

(* A process that takes a truthful result in hand preserves ResultInv. *)
LEMMA TruthfulInHand ==
    ASSUME Inv, TypeOK', \A o \in Ops : Grows(posts[o], posts'[o]), NEW a \in Agents,
           UNCHANGED <<ledger, net>>,
           \A b \in Agents : b # a => agent'[b] = agent[b],
           agent'[a].pc # "idle" => Truthful(posts[agent'[a].job.op], agent'[a].result)
    PROVE  ResultInv'
    BY ResultsPersist DEF Inv, ResultInv

(* Every step preserves ResultInv. *)
LEMMA ResultStep == ASSUME Inv, [Next]_vars PROVE ResultInv'
<1> USE DEF Inv
<1>1. TypeOK' /\ \A o \in Ops : Grows(posts[o], posts'[o])
    BY TypeOKStep, PostsGrow
<1>2. CASE UNCHANGED <<agent, ledger>> /\ net' \subseteq net
    BY <1>1, <1>2, ResultsPersist DEF ResultInv
<1>3. ASSUME NEW a \in Agents, NEW j \in JobIds, Fetch(a, j) PROVE ResultInv'
    <2>1. agent'[a].result = NoResult /\ \A b \in Agents : b # a => agent'[b] = agent[b]
        BY <1>3 DEF Fetch, TypeOK, IdleAgent
    <2> QED  BY <1>1, <1>3, <2>1, TruthfulInHand, NoEvidenceIsTruthful DEF Fetch
<1>4. ASSUME NEW a \in Agents, NEW r, HasResult(a, r), UNCHANGED <<ledger, net>>,
             Truthful(posts[agent[a].job.op], r)
      PROVE  ResultInv'
    <2>1. agent'[a].result = r /\ agent'[a].job = agent[a].job
        BY <1>4 DEF HasResult, TypeOK, AgentStates
    <2>2. \A b \in Agents : b # a => agent'[b] = agent[b]
        BY <1>4 DEF HasResult, TypeOK
    <2> QED  BY <1>1, <1>4, <2>1, <2>2, TruthfulInHand
<1>5. ASSUME NEW a \in Agents, agent[a].pc # "idle", UNCHANGED <<ledger, net>>,
             NEW pc \in {"sign", "create", "submit"}, agent' = [agent EXCEPT ![a].pc = pc]
      PROVE  ResultInv'
    <2>1. agent'[a].result = agent[a].result /\ agent'[a].job = agent[a].job
        BY <1>5 DEF TypeOK, AgentStates
    <2>2. \A b \in Agents : b # a => agent'[b] = agent[b]
        BY <1>5 DEF TypeOK
    <2> QED  BY <1>1, <1>5, <2>1, <2>2, TruthfulInHand DEF ResultInv
<1>6. ASSUME NEW a \in Agents, Inspect(a) PROVE ResultInv'
    <2>1. Truthful(posts[agent[a].job.op], ledger[agent[a].job.op].result)
        BY <1>6, AgentJob DEF Inspect, ResultInv
    <2> QED  BY <1>4, <1>5, <1>6, <2>1, NoEvidenceIsTruthful DEF Inspect
<1>7. ASSUME NEW a \in Agents,
             LocalFailure(a) \/ CreateRaises(a) \/ ReconciliationRead(a)
      PROVE  ResultInv'
    BY <1>4, <1>7, NoEvidenceIsTruthful DEF LocalFailure, CreateRaises, ReconciliationRead
<1>8. ASSUME NEW a \in Agents, SignAndClaim(a) PROVE ResultInv'
    <2> DEFINE o == agent[a].job.op
    <2>1. o \in Ops /\ Truthful(posts[o], ledger[o].result)
        BY <1>8, AgentJob DEF SignAndClaim, ResultInv
    <2>2. CASE ledger[o].state # "ABSENT"
        BY <1>4, <1>8, <2>1, <2>2, NoEvidenceIsTruthful DEF SignAndClaim
    <2>3. CASE ledger[o].state = "ABSENT"
        <3>1. /\ ledger' = [ledger EXCEPT ![o].state = "RESERVED"]
              /\ agent' = [agent EXCEPT ![a].pc = "create"] /\ UNCHANGED net
              /\ agent[a].pc = "sign"
            BY <1>8, <2>3 DEF SignAndClaim
        <3>2. \A u \in Ops : ledger'[u].result = ledger[u].result
            BY <3>1, <2>1 DEF TypeOK, LedgerRows
        <3>3. \A b \in Agents : /\ agent'[b].result = agent[b].result
                                /\ agent'[b].job = agent[b].job
                                /\ agent'[b].pc # "idle" => agent[b].pc # "idle"
            BY <3>1 DEF TypeOK, AgentStates
        <3> QED  BY <1>1, <3>1, <3>2, <3>3, ResultsPersist DEF ResultInv
    <2> QED  BY <2>2, <2>3
<1>9. ASSUME NEW a \in Agents, PostCreate(a) PROVE ResultInv'
    <2>1. \A b \in Agents : /\ agent'[b].result = agent[b].result
                            /\ agent'[b].job = agent[b].job
                            /\ agent'[b].pc # "idle" => agent[b].pc # "idle"
        BY <1>9 DEF PostCreate, TypeOK, AgentStates
    <2> QED  BY <1>1, <1>9, <2>1, ResultsPersist DEF PostCreate, ResultInv
<1>10. ASSUME NEW a \in Agents, NEW c \in CreateCategories, CreateResponds(a, c)
       PROVE  ResultInv'
    <2> DEFINE o == agent[a].job.op
    <2>1. o \in Ops /\ agent[a].post = 1 /\ Len(posts[o]) = 1
        BY <1>10, AgentJob DEF CreateResponds, ClaimInv
    <2>2. posts[o][1] \in PostStates
        <3>1. posts[o] \in Seq(PostStates)
            BY <2>1 DEF TypeOK
        <3> QED  BY <2>1, <3>1
    <2>3. c \in Categories(posts[o][1])
        BY <1>10, <2>1 DEF CreateResponds
    <2>4. Truthful(posts[o], CreateResult(c, 1))
        BY <2>1, <2>2, <2>3, CreateResultIsTruthful
    <2>5. /\ agent'[a].result = CreateResult(c, 1) /\ agent'[a].job = agent[a].job
          /\ \A b \in Agents : b # a => agent'[b] = agent[b]
        BY <1>10, <2>1 DEF CreateResponds, TypeOK, AgentStates
    <2> QED  BY <1>1, <1>10, <2>4, <2>5, TruthfulInHand DEF CreateResponds
<1>11. ASSUME NEW a \in Agents, RecordResult(a) PROVE ResultInv'
    <2> DEFINE o == agent[a].job.op
    <2>1. o \in Ops /\ Truthful(posts[o], agent[a].result)
        BY <1>11, AgentJob DEF RecordResult, ResultInv
    <2>2. CASE HasResult(a, ErrorResult("LEDGER_FAILURE")) /\ UNCHANGED ledger
        BY <1>4, <1>11, <2>2, NoEvidenceIsTruthful DEF RecordResult
    <2>3. CASE /\ ledger' = [ledger EXCEPT ![o] = [state |-> "COMPLETED",
                                                  result |-> agent[a].result]]
               /\ agent' = [agent EXCEPT ![a].pc = "submit"]
        <3>1. \A u \in Ops : ledger'[u].result = IF u = o THEN agent[a].result
                                                 ELSE ledger[u].result
            BY <2>1, <2>3 DEF TypeOK
        <3>2. \A b \in Agents : /\ agent'[b].result = agent[b].result
                                /\ agent'[b].job = agent[b].job
                                /\ agent'[b].pc # "idle" => agent[b].pc # "idle"
            BY <1>11, <2>3 DEF TypeOK, AgentStates, RecordResult
        <3>3. UNCHANGED net
            BY <1>11 DEF RecordResult
        <3>4. \A u \in Ops : Truthful(posts[u], ledger'[u].result)
            BY <2>1, <3>1 DEF ResultInv
        <3> QED  BY <1>1, <3>2, <3>3, <3>4, ResultsPersist DEF ResultInv
    <2> QED  BY <1>11, <2>2, <2>3 DEF RecordResult
<1>12. ASSUME NEW a \in Agents, PollRead(a) PROVE ResultInv'
    <2> DEFINE j == agent[a].job
    <2>1. j \in JobIds /\ jobs[j].doc = 1 /\ Posted(posts[j.op], Registered)
        BY <1>12, AgentJob DEF PollRead, JobInv
    <2>2. \A s \in Answers(posts[j.op][jobs[j].doc]) : Truthful(posts[j.op], PollResult(s))
        BY <2>1, PollResultIsTruthful
    <2> QED  BY <1>4, <1>12, <2>2, NoEvidenceIsTruthful DEF PollRead
<1>13. ASSUME NEW a \in Agents, Submit(a) PROVE ResultInv'
    <2>1. agent'[a].pc = "idle" /\ \A b \in Agents : b # a => agent'[b] = agent[b]
        BY <1>13 DEF Submit, TypeOK, IdleAgent
    <2>2. \A m \in net' : Truthful(posts[m.job.op], m.result)
        BY <1>13 DEF Submit, ResultInv
    <2> QED  BY <1>1, <1>13, <2>1, <2>2, ResultsPersist DEF Submit, ResultInv
<1>14. ASSUME NEW a \in Agents, Crash(a) PROVE ResultInv'
    <2>1. agent'[a].pc = "idle" /\ \A b \in Agents : b # a => agent'[b] = agent[b]
        BY <1>14 DEF Crash, TypeOK, IdleAgent
    <2> QED  BY <1>1, <1>14, <2>1, TruthfulInHand DEF Crash
<1> QED
    BY <1>2, <1>3, <1>6, <1>7, <1>8, <1>9, <1>10, <1>11, <1>12, <1>13, <1>14
    DEF Next, AgentStep, vars, PrepareApprovedWrite, LeaseExpires, SubmitResult, Lose,
        RemoteStep

-----------------------------------------------------------------------------
(* submit_result on a job that is not completed, in one place: the row it
   leaves is true, and the job table changes in the completed job and at most
   one new one. *)
LEMMA SubmitResultEffect ==
    ASSUME Inv, NEW m \in net, SubmitResult(m), jobs[m.job].state # "COMPLETED"
    PROVE  /\ RowIsTrue(posts[m.job.op], ops'[m.job.op])
           /\ \A o \in Ops : o # m.job.op => ops'[o] = ops[o]
           /\ \A i \in JobIds :
                 \/ jobs'[i] = jobs[i]
                 \/ i = m.job /\ jobs'[i].state = "COMPLETED" /\ jobs'[i].doc = jobs[i].doc
                 \/ /\ jobs[i].state = "ABSENT" /\ jobs'[i].state = "PENDING"
                    /\ i.purpose = "POLL" => jobs'[i].doc = 1 /\ Posted(posts[i.op], Registered)
<1> USE DEF Inv
<1> DEFINE j == m.job
           op == ApplyCore(ops[j.op], m.result)
           js == CompleteJob(jobs, j, m.result)
           fu == FollowUp(j, op, js, m.result)
<1>1. j \in JobIds /\ j.op \in Ops /\ m.result \in AgentResults /\ ops[j.op] \in Operations
    BY JobIdShape DEF TypeOK, Messages
<1>2. op \in Operations /\ js \in [JobIds -> JobRows]
    BY <1>1, StoreTypes, JobTableTypes DEF TypeOK
<1>3. ops' = [ops EXCEPT ![j.op] = fu.op] /\ jobs' = fu.jobs
    BY DEF SubmitResult
<1>4. RowIsTrue(posts[j.op], op)
    BY <1>1, ApplyCoreIsTrue DEF ResultInv, OperationInv
<1>5. RowIsTrue(posts[j.op], fu.op)
    BY <1>1, <1>2, <1>4, FollowUpIsTrue
<1>6. \A i \in JobIds : IF i = j THEN js[i].state = "COMPLETED" /\ js[i].doc = jobs[i].doc
                        ELSE js[i] = jobs[i]
    BY <1>1 DEF CompleteJob, TypeOK, JobRows
<1>7. \A i \in JobIds :
         \/ fu.jobs[i] = js[i]
         \/ /\ js[i].state = "ABSENT" /\ fu.jobs[i].state = "PENDING" /\ i.op = j.op
            /\ i.purpose = "POLL" => op.doc # NoDoc /\ fu.jobs[i].doc = op.doc
    BY <1>1, <1>2, FollowUpJobs
<1>8. op.doc # NoDoc => op.doc = 1 /\ Posted(posts[j.op], Registered)
    BY <1>4 DEF RowIsTrue
<1> HIDE DEF fu, op, js, j
<1>9. \A i \in JobIds :
         \/ jobs'[i] = jobs[i]
         \/ i = j /\ jobs'[i].state = "COMPLETED" /\ jobs'[i].doc = jobs[i].doc
         \/ /\ jobs[i].state = "ABSENT" /\ jobs'[i].state = "PENDING"
            /\ i.purpose = "POLL" => jobs'[i].doc = 1 /\ Posted(posts[i.op], Registered)
    BY <1>3, <1>6, <1>7, <1>8
<1>10. ops'[j.op] = fu.op /\ \A o \in Ops : o # j.op => ops'[o] = ops[o]
    BY <1>1, <1>3 DEF TypeOK
<1> QED  BY <1>5, <1>9, <1>10 DEF j

(* Jobs are never deleted, their document is never changed, and a new POLL
   job names a registered document. *)
LEMMA JobsKept ==
    ASSUME Inv, [Next]_vars, NEW i \in JobIds
    PROVE  /\ jobs[i].state # "ABSENT" => jobs'[i].state # "ABSENT" /\ jobs'[i].doc = jobs[i].doc
           /\ jobs[i].state = "ABSENT" /\ jobs'[i].state # "ABSENT" /\ i.purpose = "POLL" =>
                 jobs'[i].doc = 1 /\ Posted(posts[i.op], Registered)
<1> USE DEF Inv
<1>1. CASE UNCHANGED jobs
    BY <1>1
<1>2. ASSUME NEW o \in Ops, PrepareApprovedWrite(o)
      PROVE  \/ jobs'[i] = jobs[i]
             \/ jobs[i].state = "ABSENT" /\ i.purpose = "WRITE"
    <2>1. WriteJob(o) \in JobIds /\ WriteJob(o).purpose = "WRITE"
        BY JobIdsClosed DEF WriteJob
    <2>2. jobs' = jobs \/ jobs[WriteJob(o)].state = "ABSENT"
        BY <1>2 DEF PrepareApprovedWrite, Enqueue
    <2>3. i # WriteJob(o) => jobs'[i] = jobs[i]
        BY <1>2, <2>1 DEF PrepareApprovedWrite, Enqueue, TypeOK
    <2>4. CASE i = WriteJob(o)
        BY <2>1, <2>2, <2>4
    <2> QED  BY <2>3, <2>4
<1>3. ASSUME NEW a \in Agents, NEW j \in JobIds, Fetch(a, j)
      PROVE  /\ jobs[i].state = "ABSENT" => jobs'[i] = jobs[i]
             /\ jobs[i].state # "ABSENT" => jobs'[i].state # "ABSENT"
             /\ jobs'[i].doc = jobs[i].doc
    <2>1. i # j => jobs'[i] = jobs[i]
        BY <1>3 DEF Fetch, TypeOK
    <2>2. /\ jobs'[j].state = "LEASED" /\ jobs'[j].doc = jobs[j].doc
          /\ jobs[j].state # "ABSENT"
        BY <1>3 DEF Fetch, Fetchable, TypeOK, JobRows
    <2> QED  BY <2>1, <2>2
<1>4. ASSUME NEW j \in JobIds, LeaseExpires(j)
      PROVE  /\ jobs[i].state = "ABSENT" => jobs'[i] = jobs[i]
             /\ jobs[i].state # "ABSENT" => jobs'[i].state # "ABSENT"
             /\ jobs'[i].doc = jobs[i].doc
    <2>1. i # j => jobs'[i] = jobs[i]
        BY <1>4 DEF LeaseExpires, TypeOK
    <2>2. /\ jobs'[j].state = "LEASED" /\ jobs'[j].doc = jobs[j].doc
          /\ jobs[j].state # "ABSENT"
        BY <1>4 DEF LeaseExpires, TypeOK, JobRows
    <2> QED  BY <2>1, <2>2
<1>5. ASSUME NEW m \in net, SubmitResult(m)
      PROVE  /\ jobs[i].state # "ABSENT" => jobs'[i].state # "ABSENT" /\ jobs'[i].doc = jobs[i].doc
             /\ jobs[i].state = "ABSENT" /\ jobs'[i].state # "ABSENT" /\ i.purpose = "POLL" =>
                   jobs'[i].doc = 1 /\ Posted(posts[i.op], Registered)
    <2>1. CASE jobs[m.job].state = "COMPLETED"
        BY <1>5, <2>1 DEF SubmitResult
    <2>2. CASE jobs[m.job].state # "COMPLETED"
        BY <1>5, <2>2, SubmitResultEffect DEF JobInv
    <2> QED  BY <2>1, <2>2
<1> QED
    BY <1>1, <1>2, <1>3, <1>4, <1>5
    DEF Next, AgentStep, vars, Inspect, LocalFailure, SignAndClaim, PostCreate, CreateRaises,
        CreateResponds, RecordResult, PollRead, ReconciliationRead, Submit, Crash, Lose,
        RemoteStep

(* Every step preserves JobInv. *)
LEMMA JobStep == ASSUME Inv, [Next]_vars PROVE JobInv'
<1> USE DEF Inv
<1>1. \A o \in Ops : Grows(posts[o], posts'[o])
    BY PostsGrow
<1>2. \A i \in JobIds : jobs[i].state # "ABSENT" => jobs'[i].state # "ABSENT"
    BY JobsKept
<1>3. \A i \in JobIds : i.purpose = "POLL" /\ jobs'[i].state # "ABSENT" =>
         jobs'[i].doc = 1 /\ Posted(posts'[i.op], Registered)
    <2> SUFFICES ASSUME NEW i \in JobIds, i.purpose = "POLL", jobs'[i].state # "ABSENT"
                 PROVE  jobs'[i].doc = 1 /\ Posted(posts'[i.op], Registered)
        OBVIOUS
    <2>1. jobs'[i].doc = 1 /\ Posted(posts[i.op], Registered)
        BY JobsKept DEF JobInv
    <2>2. i.op \in Ops
        BY JobIdShape
    <2> QED  BY <1>1, <2>1, <2>2 DEF Grows
<1>4. \A a \in Agents : agent'[a].pc # "idle" => jobs'[agent'[a].job].state # "ABSENT"
    <2>1. ASSUME NEW a \in Agents,
                 \/ agent[a].pc # "idle" /\ agent'[a].job = agent[a].job
                 \/ agent'[a].pc = "idle"
          PROVE  agent'[a].pc # "idle" => jobs'[agent'[a].job].state # "ABSENT"
        BY <2>1, <1>2, AgentJob DEF JobInv
    <2>2. ASSUME NEW a \in Agents, UNCHANGED agent
          PROVE  agent'[a].pc # "idle" => jobs'[agent'[a].job].state # "ABSENT"
        BY <2>1, <2>2
    <2>3. ASSUME NEW b \in Agents, NEW j \in JobIds, Fetch(b, j), NEW a \in Agents
          PROVE  agent'[a].pc # "idle" => jobs'[agent'[a].job].state # "ABSENT"
        <3>1. a # b => agent'[a] = agent[a]
            BY <2>3 DEF Fetch, TypeOK
        <3>2. agent'[b].job = j /\ jobs[j].state # "ABSENT"
            BY <2>3 DEF Fetch, Fetchable, TypeOK, IdleAgent
        <3> QED  BY <2>1, <3>1, <3>2, <1>2
    <2>4. ASSUME NEW b \in Agents, AgentStep(b) \/ Crash(b), NEW a \in Agents
          PROVE  agent'[a].pc # "idle" => jobs'[agent'[a].job].state # "ABSENT"
        <3>1. a # b => agent'[a] = agent[a]
            BY <2>4 DEF AgentStep, Inspect, LocalFailure, SignAndClaim, PostCreate,
                CreateRaises, CreateResponds, RecordResult, PollRead, ReconciliationRead,
                Submit, Crash, HasResult, TypeOK
        <3>2. agent[b].pc # "idle"
            BY <2>4 DEF AgentStep, Inspect, LocalFailure, SignAndClaim, PostCreate,
                CreateRaises, CreateResponds, RecordResult, PollRead, ReconciliationRead,
                Submit, Crash
        <3>3. CASE Submit(b) \/ Crash(b)
            BY <3>3, <3>1, <2>1 DEF Submit, Crash, TypeOK, IdleAgent
        <3>4. CASE ~ (Submit(b) \/ Crash(b))
            <4>1. agent'[b].job = agent[b].job
                <5>1. CASE \E r : HasResult(b, r)
                    BY <5>1 DEF HasResult, TypeOK, AgentStates
                <5>2. CASE \E pc : agent' = [agent EXCEPT ![b].pc = pc]
                    BY <5>2 DEF TypeOK, AgentStates
                <5>3. CASE PostCreate(b) \/ \E c \in CreateCategories : CreateResponds(b, c)
                    BY <5>3 DEF PostCreate, CreateResponds, TypeOK, AgentStates
                <5> QED
                    BY <2>4, <3>4, <5>1, <5>2, <5>3
                    DEF AgentStep, Inspect, LocalFailure, SignAndClaim, CreateRaises,
                        RecordResult, PollRead, ReconciliationRead
            <4> QED  BY <2>1, <3>1, <3>2, <4>1
        <3> QED  BY <3>3, <3>4
    <2> QED
        BY <2>2, <2>3, <2>4
        DEF Next, vars, PrepareApprovedWrite, LeaseExpires, SubmitResult, Lose, RemoteStep
<1>5. \A m \in net' : jobs'[m.job].state # "ABSENT"
    <2>1. ASSUME NEW a \in Agents, Submit(a) PROVE \A m \in net' : jobs'[m.job].state # "ABSENT"
        <3>1. agent[a].job \in JobIds /\ jobs[agent[a].job].state # "ABSENT"
            BY <2>1, AgentJob DEF Submit, JobInv
        <3>2. \A m \in net' : m.job \in JobIds /\ jobs[m.job].state # "ABSENT"
            BY <2>1, <3>1 DEF Submit, JobInv, TypeOK, Messages
        <3> QED  BY <3>2, <1>2
    <2>2. CASE net' \subseteq net
        BY <2>2, <1>2 DEF JobInv, TypeOK, Messages
    <2> QED
        BY <2>1, <2>2
        DEF Next, AgentStep, vars, PrepareApprovedWrite, LeaseExpires, Fetch, Inspect,
            LocalFailure, SignAndClaim, PostCreate, CreateRaises, CreateResponds,
            RecordResult, PollRead, ReconciliationRead, SubmitResult, Crash, Lose, RemoteStep
<1> QED  BY <1>3, <1>4, <1>5 DEF JobInv

-----------------------------------------------------------------------------
(* Every step preserves OperationInv. *)
LEMMA OperationStep == ASSUME Inv, [Next]_vars PROVE OperationInv'
<1> USE DEF Inv
<1>1. SUFFICES \A o \in Ops : RowIsTrue(posts[o], ops'[o])
    BY <1>1, PostsGrow, TruthPersists DEF OperationInv
<1>2. CASE UNCHANGED ops
    BY <1>2 DEF OperationInv
<1>3. ASSUME NEW o \in Ops, PrepareApprovedWrite(o)
      PROVE  \A u \in Ops : RowIsTrue(posts[u], ops'[u])
    <2>1. RowIsTrue(posts[o], Prepare(ops[o]))
        BY DEF OperationInv, Prepare, RowIsTrue
    <2> QED  BY <1>3, <2>1 DEF PrepareApprovedWrite, OperationInv, TypeOK
<1>4. ASSUME NEW m \in net, SubmitResult(m) PROVE \A u \in Ops : RowIsTrue(posts[u], ops'[u])
    <2>1. CASE jobs[m.job].state = "COMPLETED"
        BY <1>4, <2>1 DEF SubmitResult, OperationInv
    <2>2. CASE jobs[m.job].state # "COMPLETED"
        BY <1>4, <2>2, SubmitResultEffect DEF OperationInv
    <2> QED  BY <2>1, <2>2
<1> QED
    BY <1>2, <1>3, <1>4
    DEF Next, AgentStep, vars, LeaseExpires, Fetch, Inspect, LocalFailure, SignAndClaim,
        PostCreate, CreateRaises, CreateResponds, RecordResult, PollRead,
        ReconciliationRead, Submit, Crash, Lose, RemoteStep

(* Inv holds initially. *)
LEMMA InvInit == Init => Inv
<1> SUFFICES ASSUME Init PROVE Inv
    OBVIOUS
<1>1. TypeOK
    BY TypeOKInit
<1>2. ClaimInv
    BY DEF Init, ClaimInv, Holding, IdleAgent
<1>3. ResultInv
    BY NoEvidenceIsTruthful DEF Init, ResultInv, IdleAgent
<1>4. JobInv
    BY DEF Init, JobInv, AbsentJob, IdleAgent
<1>5. OperationInv
    BY DEF Init, OperationInv, RowIsTrue, AbsentOperation, NoDoc
<1> QED  BY <1>1, <1>2, <1>3, <1>4, <1>5 DEF Inv

(* Inv is an invariant of the write path. *)
THEOREM InvHolds == Spec => []Inv
<1>1. Inv /\ [Next]_vars => Inv'
    <2> SUFFICES ASSUME Inv, [Next]_vars PROVE Inv'
        OBVIOUS
    <2>1. TypeOK'
        BY TypeOKStep DEF Inv
    <2> QED  BY <2>1, ClaimStep, ResultStep, JobStep, OperationStep DEF Inv
<1> QED  BY InvInit, <1>1, PTL DEF Spec

(* At most one create request per operation ever leaves the machine,
   whatever crashes, expired leases and duplicate processes do. *)
THEOREM CreateAtMostOnce == Spec => []AtMostOneCreate
<1>1. Inv => AtMostOneCreate
    BY DEF Inv, ClaimInv, AtMostOneCreate
<1> QED  BY InvHolds, <1>1, PTL

(* SUCCEEDED and FAILED are only ever recorded for documents that True API
   accepted, respectively refused or rejected. *)
THEOREM VerdictsTrue == Spec => []VerdictsAreTrue
<1>1. Inv => VerdictsAreTrue
    <2> SUFFICES ASSUME Inv, NEW o \in Ops
                 PROVE  /\ ops[o].state = "SUCCEEDED" =>
                              /\ ops[o].doc \in DOMAIN posts[o]
                              /\ posts[o][ops[o].doc] = "OK"
                        /\ ops[o].state = "FAILED" =>
                              /\ posts[o] # << >>
                              /\ \A n \in DOMAIN posts[o] :
                                    posts[o][n] \in {"REJECTED", "NOT_OK"}
        BY DEF VerdictsAreTrue
    <2>1. posts[o] \in Seq(PostStates) /\ RowIsTrue(posts[o], ops[o])
        BY DEF Inv, TypeOK, OperationInv
    <2>2. Len(posts[o]) = 1 => DOMAIN posts[o] = {1} /\ posts[o] # << >>
        BY <2>1
    <2> QED  BY <2>1, <2>2 DEF RowIsTrue, Posted
<1> QED  BY InvHolds, <1>1, PTL

-----------------------------------------------------------------------------
(* No result moves a terminal row or replaces a known document id. *)
LEMMA RowFinal ==
    ASSUME NEW p, NEW j \in JobIds, NEW op \in Operations, NEW res \in AgentResults, NEW js,
           RowIsTrue(p, op)
    PROVE  LET new == FollowUp(j, ApplyCore(op, res), js, res).op IN
           /\ op.state \in TerminalStates => new = op
           /\ op.doc # NoDoc => new.doc = op.doc
<1>1. /\ op.state \in TerminalStates => ApplyCore(op, res) = op
      /\ op.doc # NoDoc => ApplyCore(op, res).doc = op.doc
    BY DEF ApplyCore, ApplyWriteResult, ApplyPollResult, RowIsTrue, TerminalStates, Operations
<1>2. ApplyCore(op, res) \in Operations
    BY StoreTypes
<1>3. ASSUME NEW o2 \in Operations
      PROVE  /\ o2.state \in TerminalStates => FollowUp(j, o2, js, res).op = o2
             /\ FollowUp(j, o2, js, res).op.doc = o2.doc
    <2>1. /\ o2.state \in TerminalStates => ReconciliationResult(o2, res) = o2
          /\ ReconciliationResult(o2, res).doc = o2.doc
        BY DEF ReconciliationResult, TerminalStates, Operations
    <2>2. AfterWrite(j.op, o2, js).op = o2
        BY DEF AfterWrite
    <2>3. MarkManualReview(o2).doc = o2.doc
        BY DEF MarkManualReview, Operations
    <2>4. /\ o2.state \in TerminalStates => AfterPoll(j.op, o2, js, j.attempt).op = o2
          /\ AfterPoll(j.op, o2, js, j.attempt).op.doc = o2.doc
        BY <2>3 DEF AfterPoll, TerminalStates
    <2> QED  BY <2>1, <2>2, <2>4 DEF FollowUp
<1> QED  BY <1>1, <1>2, <1>3

(* The operation rows move as RowFinal says, in every step. *)
LEMMA OperationsFinal ==
    ASSUME Inv, [Next]_vars, NEW o \in Ops
    PROVE  /\ ops[o].state \in TerminalStates => ops'[o] = ops[o]
           /\ ops[o].doc # NoDoc => ops'[o].doc = ops[o].doc
<1> USE DEF Inv
<1>1. CASE UNCHANGED ops
    BY <1>1
<1>2. ASSUME NEW u \in Ops, PrepareApprovedWrite(u)
      PROVE  /\ ops[o].state \in TerminalStates => ops'[o] = ops[o]
             /\ ops[o].doc # NoDoc => ops'[o].doc = ops[o].doc
    <2>1. ops[u].state \notin TerminalStates /\ ops[u].doc = NoDoc
        BY <1>2 DEF PrepareApprovedWrite, Prepare, TerminalStates, OperationInv, RowIsTrue
    <2>2. o # u => ops'[o] = ops[o]
        BY <1>2 DEF PrepareApprovedWrite, TypeOK
    <2> QED  BY <2>1, <2>2
<1>3. ASSUME NEW m \in net, SubmitResult(m)
      PROVE  /\ ops[o].state \in TerminalStates => ops'[o] = ops[o]
             /\ ops[o].doc # NoDoc => ops'[o].doc = ops[o].doc
    <2> DEFINE j == m.job
               fu == FollowUp(j, ApplyCore(ops[j.op], m.result),
                              CompleteJob(jobs, j, m.result), m.result)
    <2>1. j \in JobIds /\ j.op \in Ops /\ m.result \in AgentResults
        BY JobIdShape DEF TypeOK, Messages
    <2>2. ops[j.op] \in Operations /\ RowIsTrue(posts[j.op], ops[j.op])
        BY <2>1 DEF TypeOK, OperationInv
    <2>3. /\ ops[j.op].state \in TerminalStates => fu.op = ops[j.op]
          /\ ops[j.op].doc # NoDoc => fu.op.doc = ops[j.op].doc
        BY <2>1, <2>2, RowFinal
    <2>4. ops' = [ops EXCEPT ![j.op] = fu.op] \/ UNCHANGED ops
        BY <1>3 DEF SubmitResult
    <2> HIDE DEF fu, j
    <2> QED  BY <2>1, <2>3, <2>4 DEF TypeOK
<1> QED
    BY <1>1, <1>2, <1>3
    DEF Next, AgentStep, vars, LeaseExpires, Fetch, Inspect, LocalFailure, SignAndClaim,
        PostCreate, CreateRaises, CreateResponds, RecordResult, PollRead,
        ReconciliationRead, Submit, Crash, Lose, RemoteStep

(* A completed job is never touched again. *)
LEMMA CompletedJobsFinal ==
    ASSUME Inv, [Next]_vars, NEW i \in JobIds, jobs[i].state = "COMPLETED"
    PROVE  jobs'[i] = jobs[i]
<1> USE DEF Inv
<1>1. CASE UNCHANGED jobs
    BY <1>1
<1>2. ASSUME NEW o \in Ops, PrepareApprovedWrite(o) PROVE jobs'[i] = jobs[i]
    BY <1>2 DEF PrepareApprovedWrite, Enqueue, TypeOK
<1>3. ASSUME NEW a \in Agents, NEW j \in JobIds, Fetch(a, j) PROVE jobs'[i] = jobs[i]
    BY <1>3 DEF Fetch, Fetchable, TypeOK
<1>4. ASSUME NEW j \in JobIds, LeaseExpires(j) PROVE jobs'[i] = jobs[i]
    BY <1>4 DEF LeaseExpires, TypeOK
<1>5. ASSUME NEW m \in net, SubmitResult(m) PROVE jobs'[i] = jobs[i]
    <2>1. CASE jobs[m.job].state = "COMPLETED"
        BY <1>5, <2>1 DEF SubmitResult
    <2>2. CASE jobs[m.job].state # "COMPLETED"
        BY <1>5, <2>2, SubmitResultEffect
    <2> QED  BY <2>1, <2>2
<1> QED
    BY <1>1, <1>2, <1>3, <1>4, <1>5
    DEF Next, AgentStep, vars, Inspect, LocalFailure, SignAndClaim, PostCreate, CreateRaises,
        CreateResponds, RecordResult, PollRead, ReconciliationRead, Submit, Crash, Lose,
        RemoteStep

(* The replay ledger only moves forward. *)
LEMMA LedgerForward ==
    ASSUME Inv, [Next]_vars, NEW o \in Ops
    PROVE  /\ ledger[o].state = "COMPLETED" => ledger'[o] = ledger[o]
           /\ ledger[o].state = "RESERVED" => ledger'[o].state # "ABSENT"
<1> USE DEF Inv
<1>1. CASE UNCHANGED ledger
    BY <1>1
<1>2. ASSUME NEW a \in Agents, SignAndClaim(a)
      PROVE  /\ ledger[o].state = "COMPLETED" => ledger'[o] = ledger[o]
             /\ ledger[o].state = "RESERVED" => ledger'[o].state # "ABSENT"
    BY <1>2 DEF SignAndClaim, TypeOK, LedgerRows
<1>3. ASSUME NEW a \in Agents, RecordResult(a)
      PROVE  /\ ledger[o].state = "COMPLETED" => ledger'[o] = ledger[o]
             /\ ledger[o].state = "RESERVED" => ledger'[o].state # "ABSENT"
    BY <1>3 DEF RecordResult, TypeOK, LedgerRows
<1> QED
    BY <1>1, <1>2, <1>3
    DEF Next, AgentStep, vars, PrepareApprovedWrite, LeaseExpires, Fetch, Inspect,
        LocalFailure, PostCreate, CreateRaises, CreateResponds, PollRead,
        ReconciliationRead, Submit, SubmitResult, Crash, Lose, RemoteStep

(* However late or often results arrive, no completed job, no terminal
   operation, no document id and no ledger entry is ever rewritten. *)
THEOREM EvidenceFinal == Spec => EvidenceIsFinal
<1>1. Inv /\ [Next]_vars => [EvidenceKept]_vars
    BY OperationsFinal, CompletedJobsFinal, LedgerForward DEF EvidenceKept
<1> QED  BY InvHolds, <1>1, PTL DEF Spec, EvidenceIsFinal

----------------------------------------------------------------------------
(* Refinement: the mapping counts the create requests, reads what True API  *)
(* made of the first one, and forgets every state that is not a verdict.    *)

(* What the mapping sees of the one create request of an operation. *)
LEMMA TruthOfPosted ==
    ASSUME TypeOK, NEW o \in Ops
    PROVE  /\ Len(posts[o]) = 0 => Truth(o) = "UNKNOWN"
           /\ Len(posts[o]) = 1 => posts[o][1] \in PostStates
           /\ Len(posts[o]) = 1 =>
                 Truth(o) = IF posts[o][1] = "INFLIGHT" THEN "UNKNOWN" ELSE posts[o][1]
<1>1. posts[o] \in Seq(PostStates)
    BY DEF TypeOK
<1>2. Len(posts[o]) = 0 => posts[o] = << >>
    BY <1>1, EmptySeq
<1>3. Len(posts[o]) = 1 => posts[o] # << >> /\ Head(posts[o]) = posts[o][1]
    BY <1>1
<1>4. Len(posts[o]) = 1 => posts[o][1] \in PostStates
    BY <1>1
<1> QED  BY <1>2, <1>3, <1>4 DEF Truth

(* Initial states map to initial states. *)
LEMMA ContractInit == Init => Contract!Init
    BY DEF Init, Contract!Init, Truth, Verdict, AbsentOperation, TerminalStates

(* A step that leaves the requests and the operations alone is a stutter. *)
LEMMA ContractStutters ==
    ASSUME UNCHANGED <<ops, posts>>
    PROVE  UNCHANGED Contract!cvars
    BY DEF Contract!cvars, Truth, Verdict

(* Sending the create request is a Post. *)
LEMMA PostCreateIsPost ==
    ASSUME Inv, TypeOK', NEW a \in Agents, PostCreate(a), NEW o \in Ops, o = agent[a].job.op
    PROVE  Contract!Post(o)
<1> USE DEF Inv
<1>1. Len(posts[o]) = 0 /\ UNCHANGED ops
    BY DEF PostCreate, ClaimInv
<1>2. posts[o] \in Seq(PostStates) /\ posts'[o] = Append(posts[o], "INFLIGHT")
    BY DEF PostCreate, TypeOK
<1>3. Len(posts'[o]) = 1 /\ posts'[o][1] = "INFLIGHT"
    BY <1>1, <1>2
<1>4. \A u \in Ops : u # o => posts'[u] = posts[u]
    BY DEF PostCreate, TypeOK
<1>5. Truth(o) = "UNKNOWN" /\ Truth(o)' = "UNKNOWN"
    <2>1. Truth(o) = "UNKNOWN"
        BY <1>1, TruthOfPosted
    <2>2. posts'[o] \in Seq(PostStates)
        BY DEF TypeOK
    <2>3. Head(posts'[o]) = "INFLIGHT"
        BY <1>3, <2>2
    <2> QED  BY <2>1, <2>3 DEF Truth
<1>6. \A u \in Ops : Truth(u)' = Truth(u)
    BY <1>4, <1>5 DEF Truth
<1> QED  BY <1>1, <1>3, <1>4, <1>6 DEF Contract!Post, Verdict

(* What True API does with the request is a Judge. *)
LEMMA RemoteStepIsJudge ==
    ASSUME Inv, TypeOK', NEW o \in Ops, NEW s \in PostStates, NEW n \in DOMAIN posts[o],
           RemoteStep(o, n, s)
    PROVE  Contract!Judge(o)
<1> USE DEF Inv
<1>1. posts[o] \in Seq(PostStates) /\ Len(posts[o]) = 1 /\ n = 1
    BY OnlyRequest
<1>2. posts'[o] = [posts[o] EXCEPT ![1] = s]
    BY <1>1 DEF RemoteStep, TypeOK
<1>3. Len(posts'[o]) = 1 /\ posts'[o][1] = s /\ posts'[o] \in Seq(PostStates)
    <2>1. Len(posts'[o]) = 1 /\ posts'[o][1] = s
        BY <1>1, <1>2
    <2>2. posts'[o] \in Seq(PostStates)
        BY DEF TypeOK
    <2> QED  BY <2>1, <2>2
<1>4. \A u \in Ops : u # o => posts'[u] = posts[u]
    BY DEF RemoteStep, TypeOK
<1>5. \/ posts[o][1] = "INFLIGHT" /\ s \in {"PROCESSING", "REJECTED"}
      \/ posts[o][1] = "PROCESSING" /\ s \in {"OK", "NOT_OK"}
    BY <1>1 DEF RemoteStep
<1>6. Truth(o) = IF posts[o][1] = "INFLIGHT" THEN "UNKNOWN" ELSE posts[o][1]
    BY <1>1, TruthOfPosted
<1>7. Truth(o)' = s
    <2>1. posts'[o] # << >> /\ Head(posts'[o]) = s
        BY <1>3
    <2> QED  BY <2>1, <1>5 DEF Truth
<1>8. [u \in Ops |-> Truth(u)]' = [[u \in Ops |-> Truth(u)] EXCEPT ![o] = s]
    BY <1>4, <1>7 DEF Truth
<1>9. /\ [u \in Ops |-> Len(posts[u])]' = [u \in Ops |-> Len(posts[u])]
      /\ [u \in Ops |-> Verdict(u)]' = [u \in Ops |-> Verdict(u)]
    BY <1>1, <1>3, <1>4 DEF RemoteStep, Verdict
<1> QED  BY <1>1, <1>5, <1>6, <1>8, <1>9 DEF Contract!Judge

(* A step that moves the operations concludes at most one of them, on
   evidence, or leaves every verdict as it is. *)
LEMMA OperationStepConcludes ==
    ASSUME Inv, Inv', [Next]_vars, UNCHANGED posts, NEW o \in Ops,
           \A u \in Ops : u # o => ops'[u] = ops[u]
    PROVE  Contract!Conclude(o) \/ UNCHANGED Contract!cvars
<1> USE DEF Inv
<1>1. \A u \in Ops : Truth(u)' = Truth(u)
    BY DEF Truth
<1>2. \A u \in Ops : u # o => Verdict(u)' = Verdict(u)
    BY DEF Verdict
<1>3. CASE Verdict(o)' = Verdict(o)
    BY <1>1, <1>2, <1>3 DEF Contract!cvars
<1>4. CASE Verdict(o)' # Verdict(o)
    <2>1. Verdict(o) = "OPEN" /\ ops'[o].state \in TerminalStates
        BY <1>4, OperationsFinal DEF Verdict
    <2>2. Verdict(o)' = ops'[o].state
        BY <2>1 DEF Verdict
    <2>3. RowIsTrue(posts[o], ops'[o])
        BY DEF OperationInv
    <2>4. /\ ops'[o].state = "SUCCEEDED" => Truth(o) = "OK"
          /\ ops'[o].state = "FAILED" => Truth(o) \in {"REJECTED", "NOT_OK"}
        BY <2>3, TruthOfPosted DEF RowIsTrue, Posted
    <2>5. [u \in Ops |-> Verdict(u)]' =
              [[u \in Ops |-> Verdict(u)] EXCEPT ![o] = ops'[o].state]
        BY <1>2, <2>2
    <2>6. UNCHANGED <<[u \in Ops |-> Len(posts[u])], [u \in Ops |-> Truth(u)]>>
        BY <1>1
    <2> QED  BY <2>1, <2>4, <2>5, <2>6 DEF Contract!Conclude, TerminalStates
<1> QED  BY <1>3, <1>4

(* Every step of the write path is a step of the contract or a stutter. *)
LEMMA ContractStep == Inv /\ Inv' /\ [Next]_vars => [Contract!Next]_(Contract!cvars)
<1> SUFFICES ASSUME Inv, Inv', [Next]_vars PROVE [Contract!Next]_(Contract!cvars)
    OBVIOUS
<1> USE DEF Inv
<1>1. CASE UNCHANGED <<ops, posts>>
    BY <1>1, ContractStutters
<1>2. ASSUME NEW a \in Agents, PostCreate(a) PROVE Contract!Next
    BY <1>2, AgentJob, PostCreateIsPost DEF Contract!Next, PostCreate
<1>3. ASSUME NEW o \in Ops, NEW s \in PostStates, NEW n \in DOMAIN posts[o],
             RemoteStep(o, n, s)
      PROVE  Contract!Next
    BY <1>3, RemoteStepIsJudge DEF Contract!Next
<1>4. ASSUME NEW o \in Ops, UNCHANGED posts, \A u \in Ops : u # o => ops'[u] = ops[u]
      PROVE  [Contract!Next]_(Contract!cvars)
    BY <1>4, OperationStepConcludes DEF Contract!Next
<1>5. ASSUME NEW o \in Ops, PrepareApprovedWrite(o) PROVE [Contract!Next]_(Contract!cvars)
    BY <1>4, <1>5 DEF PrepareApprovedWrite, TypeOK
<1>6. ASSUME NEW m \in net, SubmitResult(m) PROVE [Contract!Next]_(Contract!cvars)
    <2>1. m.job.op \in Ops
        BY JobIdShape DEF TypeOK, Messages
    <2>2. UNCHANGED posts /\ \A u \in Ops : u # m.job.op => ops'[u] = ops[u]
        BY <1>6, <2>1 DEF SubmitResult, TypeOK
    <2> QED  BY <1>4, <2>1, <2>2
<1> QED
    BY <1>1, <1>2, <1>3, <1>5, <1>6
    DEF Next, AgentStep, vars, LeaseExpires, Fetch, Inspect, LocalFailure, SignAndClaim,
        CreateRaises, CreateResponds, RecordResult, PollRead, ReconciliationRead, Submit,
        Crash, Lose

(* The write path implements the contract: one post per operation, at most
   one verdict, and a verdict only on evidence from True API. *)
THEOREM WritePathImplementsContract == Spec => ImplementsContract
    BY ContractInit, ContractStep, InvHolds, PTL DEF Spec, ImplementsContract, Contract!Spec

----------------------------------------------------------------------------
(* Waiting operations are driven: how the state of an operation and the      *)
(* states of its WRITE job, its POLL jobs and its CIS read go together.      *)

OpenStates == {"PENDING", "LEASED"}
Early == {"ABSENT", "AWAITING_SIGNATURE", "SIGNED", "SUBMITTING"}

(* s is the operation's state, w that of its WRITE job, p those of its POLL
   jobs by attempt, r that of its CIS read. *)
Driven(s, w, p, r) ==
    /\ s \in Early => r = "ABSENT" /\ \A n \in 1..MaxPoll : p[n] = "ABSENT"
    /\ w \in OpenStates => s = "AWAITING_SIGNATURE"
    /\ \A n, k \in 1..MaxPoll : n < k /\ p[k] # "ABSENT" => p[n] = "COMPLETED"
    /\ s = "PROCESSING" => \E n \in 1..MaxPoll : p[n] \in OpenStates
    /\ r # "ABSENT" => s \in {"RECONCILIATION_REQUIRED"} \cup TerminalStates
    /\ s = "RECONCILIATION_REQUIRED" => r \in OpenStates

Polls(o, js) == [n \in 1..MaxPoll |-> js[PollJob(o, n)].state]

DriveInv ==
    \A o \in Ops : Driven(ops[o].state, jobs[WriteJob(o)].state, Polls(o, jobs),
                          jobs[ReconciliationJob(o)].state)

(* A poll in the queue is the last one queued, and the only one. *)
LEMMA OpenPollIsLast ==
    ASSUME NEW s, NEW w, NEW p, NEW r, Driven(s, w, p, r),
           NEW k \in 1..MaxPoll, p[k] \in OpenStates
    PROVE  /\ s \notin Early /\ w \notin OpenStates
           /\ \A n \in 1..MaxPoll : (n < k => p[n] = "COMPLETED") /\ (n > k => p[n] = "ABSENT")
<1>1. p[k] # "ABSENT" /\ p[k] # "COMPLETED"
    BY DEF OpenStates
<1> QED  BY <1>1, MaxPollAssumption DEF Driven, Early

(* A WRITE job's result: the operation is refused, registered or left alone. *)
LEMMA DrivenByWrite ==
    ASSUME NEW s, NEW w, NEW p, DOMAIN p = 1..MaxPoll, NEW r, Driven(s, w, p, r), w \in OpenStates,
           NEW z \in {"AWAITING_SIGNATURE", "SUBMITTED", "MANUAL_REVIEW", "FAILED"}
    PROVE  /\ Driven(z, "COMPLETED", p, r)
           /\ z = "SUBMITTED" => Driven(z, "COMPLETED", [p EXCEPT ![1] = "PENDING"], r)
<1>1. s = "AWAITING_SIGNATURE" /\ r = "ABSENT" /\ \A n \in 1..MaxPoll : p[n] = "ABSENT"
    BY DEF Driven, Early
<1>2. PICK q : q = [p EXCEPT ![1] = "PENDING"]
    OBVIOUS
<1>3. \A n \in 1..MaxPoll : q[n] = IF n = 1 THEN "PENDING" ELSE "ABSENT"
    BY <1>1, <1>2
<1>4. \A n, k \in 1..MaxPoll : n < k /\ q[k] # "ABSENT" => q[n] = "COMPLETED"
    <2> SUFFICES ASSUME NEW n \in 1..MaxPoll, NEW k \in 1..MaxPoll, n < k PROVE q[k] = "ABSENT"
        OBVIOUS
    <2>1. k # 1
        BY MaxPollAssumption
    <2> QED  BY <1>3, <2>1
<1>5. Driven(z, "COMPLETED", p, r)
    BY <1>1 DEF Driven, OpenStates, Early
<1>6. z = "SUBMITTED" => Driven(z, "COMPLETED", q, r)
    BY <1>1, <1>4 DEF Driven, OpenStates, Early
<1> QED  BY <1>2, <1>5, <1>6

(* Only attempt k's state moves, to v. *)
Marked(p, q, k, v) == \A n \in 1..MaxPoll : q[n] = IF n = k THEN v ELSE p[n]

(* A POLL job's result, with the follow-up submit_result queues. *)
LEMMA DrivenByPoll ==
    ASSUME NEW s, NEW w, NEW p, NEW r, Driven(s, w, p, r),
           NEW k \in 1..MaxPoll, p[k] \in OpenStates, NEW q, Marked(p, q, k, "COMPLETED"),
           NEW t, Marked(q, t, k + 1, "PENDING"), NEW z
    PROVE  /\ z \in TerminalStates \/ (z = s /\ z # "PROCESSING") => Driven(z, w, q, r)
           /\ s \in {"SUBMITTED", "PROCESSING"} /\ k < MaxPoll =>
                 q[k + 1] = "ABSENT" /\ Driven("PROCESSING", w, t, r)
           /\ s \in {"SUBMITTED", "PROCESSING"} =>
                 r = "ABSENT" /\ Driven("RECONCILIATION_REQUIRED", w, q, "PENDING")
<1>1. /\ s \notin Early /\ w \notin OpenStates
      /\ \A n \in 1..MaxPoll : (n < k => p[n] = "COMPLETED") /\ (n > k => p[n] = "ABSENT")
    BY OpenPollIsLast
<1>2. \A n \in 1..MaxPoll : q[n] = IF n <= k THEN "COMPLETED" ELSE "ABSENT"
    BY <1>1, MaxPollAssumption DEF Marked
<1>3. \A n, m \in 1..MaxPoll : n < m /\ q[m] # "ABSENT" => q[n] = "COMPLETED"
    BY <1>2, MaxPollAssumption
<1>4. ASSUME z \in TerminalStates \/ (z = s /\ z # "PROCESSING") PROVE Driven(z, w, q, r)
    BY <1>1, <1>3, <1>4 DEF Driven, Early, TerminalStates
<1>5. s \in {"SUBMITTED", "PROCESSING"} => r = "ABSENT"
    BY DEF Driven, TerminalStates
<1>6. ASSUME s \in {"SUBMITTED", "PROCESSING"}, k < MaxPoll
      PROVE  q[k + 1] = "ABSENT" /\ Driven("PROCESSING", w, t, r)
    <2>2. k + 1 \in 1..MaxPoll
        BY <1>6, MaxPollAssumption
    <2>3. \A n \in 1..MaxPoll : t[n] = IF n <= k THEN "COMPLETED" ELSE IF n = k + 1 THEN "PENDING" ELSE "ABSENT"
        BY <1>2, <2>2, MaxPollAssumption DEF Marked
    <2>4. \A n, m \in 1..MaxPoll : n < m /\ t[m] # "ABSENT" => t[n] = "COMPLETED"
        <3> SUFFICES ASSUME NEW n \in 1..MaxPoll, NEW m \in 1..MaxPoll, n < m, t[m] # "ABSENT"
                     PROVE  t[n] = "COMPLETED"
            OBVIOUS
        <3>1. m <= k + 1
            BY <2>3, MaxPollAssumption
        <3>2. n <= k
            BY <3>1, MaxPollAssumption
        <3> QED  BY <2>3, <3>2
    <2>5. \E n \in 1..MaxPoll : t[n] \in OpenStates
        <3>1. t[k + 1] = "PENDING"
            BY <2>2 DEF Marked
        <3> QED  BY <2>2, <3>1 DEF OpenStates
    <2>6. Driven("PROCESSING", w, t, r)
        BY <1>1, <1>5, <1>6, <2>4, <2>5 DEF Driven, Early
    <2>7. q[k + 1] = "ABSENT"
        BY <1>2, <2>2, MaxPollAssumption
    <2> QED  BY <2>6, <2>7
<1>7. ASSUME s \in {"SUBMITTED", "PROCESSING"} PROVE Driven("RECONCILIATION_REQUIRED", w, q, "PENDING")
    BY <1>1, <1>3 DEF Driven, Early, OpenStates
<1> QED  BY <1>4, <1>5, <1>6, <1>7

(* A CIS read's result ends the operation, or finds it ended. *)
LEMMA DrivenByRead ==
    ASSUME NEW s, NEW w, NEW p, NEW r, Driven(s, w, p, r), r \in OpenStates, NEW z \in TerminalStates
    PROVE  s \in {"RECONCILIATION_REQUIRED"} \cup TerminalStates /\ Driven(z, w, p, "COMPLETED")
<1>1. r # "ABSENT"
    BY DEF OpenStates
<1>2. s \in {"RECONCILIATION_REQUIRED"} \cup TerminalStates
    BY <1>1 DEF Driven
<1>3. s \notin Early /\ w \notin OpenStates
    BY <1>2 DEF Driven, Early, TerminalStates
<1> QED  BY <1>2, <1>3 DEF Driven, Early, TerminalStates

(* What the result's own fields do to the operation before the follow-up. *)
LEMMA CoreStates ==
    ASSUME NEW op \in Operations, NEW res \in AgentResults, NEW z, z = ApplyCore(op, res)
    PROVE  /\ op.state = "AWAITING_SIGNATURE" =>
                 z.state \in {"AWAITING_SIGNATURE", "SUBMITTED", "MANUAL_REVIEW", "FAILED"}
           /\ op.state \notin Early =>
                 \/ z = op
                 \/ /\ op.state \in {"SUBMITTED", "PROCESSING"}
                    /\ z.state \in {"PROCESSING", "RECONCILIATION_REQUIRED", "FAILED", "MANUAL_REVIEW"}
<1>1. CompleteSubmit(op, res).state \in {"SUBMITTED", "MANUAL_REVIEW", "FAILED"}
    BY DEF CompleteSubmit
<1>2. op.state \in {"SUBMITTED", "PROCESSING"} =>
         ApplyPollResult(op, res).state \in {"PROCESSING", "RECONCILIATION_REQUIRED", "FAILED", "MANUAL_REVIEW"}
    BY DEF ApplyPollResult, Operations
<1>3. op.state \notin {"SUBMITTED", "PROCESSING"} => ApplyPollResult(op, res) = op
    BY DEF ApplyPollResult
<1>4. op.state \notin Early => ApplyWriteResult(op, res) = op
    BY DEF ApplyWriteResult, Early
<1>5. op.state = "AWAITING_SIGNATURE" => ApplyWriteResult(op, res) = CompleteSubmit(op, res)
    BY DEF ApplyWriteResult
<1>6. z \in {ApplyWriteResult(op, res), ApplyPollResult(op, res), op}
    BY DEF ApplyCore
<1> QED  BY <1>1, <1>2, <1>3, <1>4, <1>5, <1>6

(* What enqueue does to the states of the job table. *)
LEMMA EnqueueStates ==
    ASSUME NEW js \in [JobIds -> JobRows], NEW k \in JobIds, NEW d
    PROVE  \A i \in JobIds : Enqueue(js, k, d)[i].state =
              IF i = k /\ js[k].state = "ABSENT" THEN "PENDING" ELSE js[i].state
    BY DEF Enqueue, AbsentJob

(* The jobs of an operation have ids of their own. *)
LEMMA JobIdsApart ==
    /\ \A o, u, n : WriteJob(o) # PollJob(u, n) /\ ReconciliationJob(o) # PollJob(u, n)
    /\ \A o, u : WriteJob(o) # ReconciliationJob(u)
    /\ \A o, u, n, k : PollJob(o, n) = PollJob(u, k) => o = u /\ n = k
    /\ \A o, u : WriteJob(o) = WriteJob(u) \/ ReconciliationJob(o) = ReconciliationJob(u) => o = u
<1>1. \A o, n : /\ WriteJob(o).purpose = "WRITE" /\ WriteJob(o).op = o
                /\ ReconciliationJob(o).purpose = "RECONCILIATION_CIS" /\ ReconciliationJob(o).op = o
                /\ PollJob(o, n).purpose = "POLL" /\ PollJob(o, n).op = o /\ PollJob(o, n).attempt = n
    BY DEF WriteJob, PollJob, ReconciliationJob
<1> QED  BY <1>1

(* The job table after a result, by operation: one state changes, and at most
   one follow-up is queued. *)
LEMMA ResultDrives ==
    ASSUME NEW o \in Ops, NEW j \in JobIds, j.op = o, NEW before \in Operations,
           NEW js0 \in [JobIds -> JobRows], NEW res \in AgentResults, js0[j].state \in OpenStates,
           Driven(before.state, js0[WriteJob(o)].state, Polls(o, js0), js0[ReconciliationJob(o)].state),
           NEW op, op = ApplyCore(before, res), NEW js, js = CompleteJob(js0, j, res),
           NEW fu, fu = FollowUp(j, op, js, res)
    PROVE  Driven(fu.op.state, fu.jobs[WriteJob(o)].state, Polls(o, fu.jobs),
                  fu.jobs[ReconciliationJob(o)].state)
<1>1. op \in Operations /\ js \in [JobIds -> JobRows]
    BY StoreTypes, JobTableTypes
<1>2. \A i \in JobIds : js[i].state = IF i = j THEN "COMPLETED" ELSE js0[i].state
    BY DEF CompleteJob, JobRows
<1>3. PICK s, w, p, r : /\ s = before.state /\ w = js0[WriteJob(o)].state
                        /\ p = Polls(o, js0) /\ r = js0[ReconciliationJob(o)].state
    OBVIOUS
<1>4. Driven(s, w, p, r) /\ DOMAIN p = 1..MaxPoll
      /\ \A n \in 1..MaxPoll : p[n] = js0[PollJob(o, n)].state
    BY <1>3 DEF Polls
<1>5. /\ WriteJob(o) \in JobIds /\ ReconciliationJob(o) \in JobIds
      /\ \A n \in 1..MaxPoll : PollJob(o, n) \in JobIds
    BY JobIdsClosed
<1>6. CASE j.purpose = "WRITE"
    <2>1. j = WriteJob(o)
        BY <1>6 DEF JobIds, WriteJob, PollJob, ReconciliationJob
    <2>2. w \in OpenStates /\ s = "AWAITING_SIGNATURE"
        BY <1>3, <1>4, <2>1 DEF Driven
    <2>3. op.state \in {"AWAITING_SIGNATURE", "SUBMITTED", "MANUAL_REVIEW", "FAILED"}
        BY <1>3, <2>2, CoreStates
    <2>4. /\ Driven(op.state, "COMPLETED", p, r)
          /\ op.state = "SUBMITTED" => Driven(op.state, "COMPLETED", [p EXCEPT ![1] = "PENDING"], r)
        BY <1>4, <2>2, <2>3, DrivenByWrite
    <2>5. /\ js[WriteJob(o)].state = "COMPLETED" /\ js[ReconciliationJob(o)].state = r
          /\ \A n \in 1..MaxPoll : js[PollJob(o, n)].state = p[n]
        BY <1>2, <1>3, <1>4, <1>5, <2>1, JobIdsApart
    <2>6. 1 \in 1..MaxPoll /\ p[1] = "ABSENT"
        BY <1>4, <2>2, MaxPollAssumption DEF Driven, Early
    <2>7. CASE op.state = "SUBMITTED" /\ op.doc # NoDoc
        <3>1. fu.op = op /\ fu.jobs = Enqueue(js, PollJob(o, 1), op.doc)
            BY <1>6, <2>7 DEF FollowUp, AfterWrite
        <3>2. \A i \in JobIds : fu.jobs[i].state = IF i = PollJob(o, 1) THEN "PENDING" ELSE js[i].state
            BY <1>1, <1>5, <2>5, <2>6, <3>1, EnqueueStates
        <3>3. /\ fu.jobs[WriteJob(o)].state = "COMPLETED" /\ fu.jobs[ReconciliationJob(o)].state = r
              /\ \A n \in 1..MaxPoll : fu.jobs[PollJob(o, n)].state = IF n = 1 THEN "PENDING" ELSE p[n]
            BY <1>5, <2>5, <3>2, JobIdsApart
        <3>4. Polls(o, fu.jobs) = [p EXCEPT ![1] = "PENDING"]
            <4>1. [p EXCEPT ![1] = "PENDING"] = [n \in 1..MaxPoll |-> IF n = 1 THEN "PENDING" ELSE p[n]]
                BY <1>4
            <4> QED  BY <3>3, <4>1 DEF Polls
        <3> QED  BY <2>4, <2>7, <3>1, <3>3, <3>4
    <2>8. CASE ~(op.state = "SUBMITTED" /\ op.doc # NoDoc)
        <3>1. fu.op = op /\ fu.jobs = js
            BY <1>6, <2>8 DEF FollowUp, AfterWrite
        <3>2. Polls(o, js) = p
            BY <1>3, <1>4, <2>5 DEF Polls
        <3> QED  BY <2>4, <2>5, <3>1, <3>2
    <2> QED  BY <2>7, <2>8
<1>7. CASE j.purpose = "POLL"
    <2>1. PICK k \in 1..MaxPoll : j = PollJob(o, k) /\ k = j.attempt
        BY <1>7 DEF JobIds, WriteJob, PollJob, ReconciliationJob
    <2>2. p[k] \in OpenStates
        BY <1>4, <2>1
    <2>3. PICK q, t : q = [p EXCEPT ![k] = "COMPLETED"] /\ t = [q EXCEPT ![k + 1] = "PENDING"]
        OBVIOUS
    <2>4. ASSUME NEW z
          PROVE
          /\ z \in TerminalStates \/ (z = s /\ z # "PROCESSING") => Driven(z, w, q, r)
          /\ s \in {"SUBMITTED", "PROCESSING"} /\ k < MaxPoll =>
                q[k + 1] = "ABSENT" /\ Driven("PROCESSING", w, t, r)
          /\ s \in {"SUBMITTED", "PROCESSING"} =>
                r = "ABSENT" /\ Driven("RECONCILIATION_REQUIRED", w, q, "PENDING")
        <3>1. Driven(s, w, p, r)
            BY <1>4
        <3>2. DOMAIN q = 1..MaxPoll
            BY <1>4, <2>3
        <3>3. Marked(p, q, k, "COMPLETED")
            BY <1>4, <2>3 DEF Marked
        <3>4. Marked(q, t, k + 1, "PENDING")
            BY <2>3, <3>2 DEF Marked
        <3> QED  BY <2>1, <2>2, <3>1, <3>3, <3>4, DrivenByPoll
    <2>5. s \notin Early
        BY <1>4, <2>2, OpenPollIsLast
    <2>6. /\ DOMAIN q = 1..MaxPoll
          /\ \A n \in 1..MaxPoll : q[n] = IF n = k THEN "COMPLETED" ELSE p[n]
        BY <1>4, <2>3
    <2>7. /\ js[WriteJob(o)].state = w /\ js[ReconciliationJob(o)].state = r
          /\ \A n \in 1..MaxPoll : js[PollJob(o, n)].state = q[n]
        BY <1>2, <1>3, <1>4, <1>5, <2>1, <2>6, JobIdsApart
    <2>8. Polls(o, js) = q
        <3>1. q = [n \in 1..MaxPoll |-> q[n]]
            BY <1>4, <2>3
        <3> QED  BY <2>7, <3>1 DEF Polls
    <2>9. \/ op = before
          \/ /\ s \in {"SUBMITTED", "PROCESSING"}
             /\ op.state \in {"PROCESSING", "RECONCILIATION_REQUIRED", "FAILED", "MANUAL_REVIEW"}
        BY <1>3, <2>5, CoreStates
    <2>10. fu = AfterPoll(o, op, js, k)
        BY <1>7, <2>1 DEF FollowUp
    <2>11. CASE op.state = "PROCESSING" /\ (k >= MaxPoll \/ op.doc = NoDoc)
        <3>1. fu = [op |-> MarkManualReview(op), jobs |-> js]
            <4>1. ~(k < MaxPoll) \/ op.doc = NoDoc
                BY <2>11, MaxPollAssumption
            <4> QED  BY <2>10, <2>11, <4>1 DEF AfterPoll
        <3>2. fu.op.state = "MANUAL_REVIEW" /\ fu.jobs = js
            BY <1>1, <3>1 DEF MarkManualReview, Operations
        <3>3. Driven("MANUAL_REVIEW", w, q, r)
            BY <2>4 DEF TerminalStates
        <3> QED  BY <2>7, <2>8, <3>2, <3>3
    <2>12. CASE op.state = "PROCESSING" /\ k < MaxPoll /\ op.doc # NoDoc
        <3>1. fu = [op |-> op, jobs |-> Enqueue(js, PollJob(o, k + 1), op.doc)]
            <4>1. ~(k >= MaxPoll)
                BY <2>12, MaxPollAssumption
            <4> QED  BY <2>10, <2>12, <4>1 DEF AfterPoll
        <3>2. k + 1 \in 1..MaxPoll /\ s \in {"SUBMITTED", "PROCESSING"}
            BY <1>3, <2>9, <2>12, MaxPollAssumption
        <3>3. js[PollJob(o, k + 1)].state = "ABSENT"
            BY <2>4, <2>7, <2>12, <3>2
        <3>4. \A i \in JobIds : fu.jobs[i].state = IF i = PollJob(o, k + 1) THEN "PENDING" ELSE js[i].state
            BY <1>1, <1>5, <3>1, <3>2, <3>3, EnqueueStates
        <3>5. /\ fu.jobs[WriteJob(o)].state = w /\ fu.jobs[ReconciliationJob(o)].state = r
              /\ \A n \in 1..MaxPoll : fu.jobs[PollJob(o, n)].state = IF n = k + 1 THEN "PENDING" ELSE q[n]
            BY <1>5, <2>7, <3>4, JobIdsApart
        <3>6. Polls(o, fu.jobs) = t
            <4>1. t = [n \in 1..MaxPoll |-> IF n = k + 1 THEN "PENDING" ELSE q[n]]
                BY <2>3, <2>6
            <4> QED  BY <3>5, <4>1 DEF Polls
        <3>7. fu.op.state = "PROCESSING"
            BY <2>12, <3>1
        <3> QED  BY <2>4, <2>12, <3>2, <3>5, <3>6, <3>7
    <2>13. CASE op.state = "RECONCILIATION_REQUIRED"
        <3>1. fu = [op |-> op, jobs |-> Enqueue(js, ReconciliationJob(o), NoDoc)]
            BY <2>10, <2>13 DEF AfterPoll
        <3>2. \A i \in JobIds : fu.jobs[i].state =
                 IF i = ReconciliationJob(o) /\ r = "ABSENT" THEN "PENDING" ELSE js[i].state
            BY <1>1, <1>5, <2>7, <3>1, EnqueueStates
        <3>3. /\ fu.jobs[WriteJob(o)].state = w
              /\ fu.jobs[ReconciliationJob(o)].state = IF r = "ABSENT" THEN "PENDING" ELSE r
              /\ \A n \in 1..MaxPoll : fu.jobs[PollJob(o, n)].state = js[PollJob(o, n)].state
            BY <1>5, <2>7, <3>2, JobIdsApart
        <3>4. Polls(o, fu.jobs) = q
            BY <2>8, <3>3 DEF Polls
        <3>5. CASE s \in {"SUBMITTED", "PROCESSING"}
            BY <2>4, <2>13, <3>1, <3>3, <3>4, <3>5
        <3>6. CASE s \notin {"SUBMITTED", "PROCESSING"}
            <4>1. s = "RECONCILIATION_REQUIRED"
                BY <1>3, <2>9, <2>13, <3>6
            <4>2. r # "ABSENT"
                BY <1>4, <4>1 DEF Driven, OpenStates
            <4>3. Driven(s, w, q, r)
                BY <2>4, <4>1
            <4> QED  BY <2>13, <3>1, <3>3, <3>4, <4>1, <4>2, <4>3
        <3> QED  BY <3>5, <3>6
    <2>14. CASE op.state \notin {"PROCESSING", "RECONCILIATION_REQUIRED"}
        <3>1. fu = [op |-> op, jobs |-> js]
            BY <2>10, <2>14 DEF AfterPoll
        <3>2. op.state \in TerminalStates \/ (op.state = s /\ s # "PROCESSING")
            BY <1>3, <2>9, <2>14 DEF TerminalStates
        <3>3. Driven(op.state, w, q, r)
            BY <2>4, <3>2
        <3> QED  BY <2>7, <2>8, <3>1, <3>3
    <2>15. k < MaxPoll \/ k >= MaxPoll
        BY MaxPollAssumption
    <2> QED  BY <2>11, <2>12, <2>13, <2>14, <2>15
<1>8. CASE j.purpose = "RECONCILIATION_CIS"
    <2>1. j = ReconciliationJob(o)
        BY <1>8 DEF JobIds, WriteJob, PollJob, ReconciliationJob
    <2>2. r \in OpenStates
        BY <1>3, <2>1
    <2>3. s \in {"RECONCILIATION_REQUIRED"} \cup TerminalStates
        BY <1>4, <2>2, DrivenByRead DEF TerminalStates
    <2>4. op = before
        BY <1>3, <2>3, CoreStates DEF Early, TerminalStates
    <2>5. fu = [op |-> ReconciliationResult(op, res), jobs |-> js]
        BY <1>8 DEF FollowUp
    <2>6. fu.op.state \in TerminalStates
        BY <1>1, <1>3, <2>3, <2>4, <2>5 DEF ReconciliationResult, TerminalStates, Operations
    <2>7. Driven(fu.op.state, w, p, "COMPLETED")
        BY <1>4, <2>2, <2>6, DrivenByRead
    <2>8. /\ js[WriteJob(o)].state = w /\ js[ReconciliationJob(o)].state = "COMPLETED"
          /\ \A n \in 1..MaxPoll : js[PollJob(o, n)].state = js0[PollJob(o, n)].state
        BY <1>2, <1>3, <1>5, <2>1, JobIdsApart
    <2>9. Polls(o, js) = p
        BY <1>3, <2>8 DEF Polls
    <2> QED  BY <2>5, <2>7, <2>8, <2>9
<1> QED  BY <1>6, <1>7, <1>8, JobIdShape DEF Purposes

(* A step that moves no operation and neither creates, opens nor completes a
   job leaves every operation driven. *)
LEMMA DriveRests ==
    ASSUME Inv, DriveInv, ops' = ops,
           \A i \in JobIds : /\ jobs'[i].state = "ABSENT" <=> jobs[i].state = "ABSENT"
                             /\ jobs'[i].state = "COMPLETED" <=> jobs[i].state = "COMPLETED"
                             /\ jobs'[i].state \in OpenStates <=> jobs[i].state \in OpenStates
    PROVE  DriveInv'
<1> SUFFICES ASSUME NEW o \in Ops
             PROVE  Driven(ops[o].state, jobs'[WriteJob(o)].state, Polls(o, jobs'),
                           jobs'[ReconciliationJob(o)].state)
    BY DEF DriveInv
<1>1. PICK s, w, p, r : /\ s = ops[o].state /\ w = jobs[WriteJob(o)].state
                        /\ p = Polls(o, jobs) /\ r = jobs[ReconciliationJob(o)].state
    OBVIOUS
<1>2. PICK w2, p2, r2 : /\ w2 = jobs'[WriteJob(o)].state
                        /\ p2 = Polls(o, jobs') /\ r2 = jobs'[ReconciliationJob(o)].state
    OBVIOUS
<1>3. Driven(s, w, p, r)
    BY <1>1 DEF DriveInv
<1>4. /\ w2 \in OpenStates <=> w \in OpenStates
      /\ r2 \in OpenStates <=> r \in OpenStates
      /\ r2 = "ABSENT" <=> r = "ABSENT"
    BY <1>1, <1>2, JobIdsClosed
<1>5. \A n \in 1..MaxPoll : /\ p2[n] = "ABSENT" <=> p[n] = "ABSENT"
                            /\ p2[n] = "COMPLETED" <=> p[n] = "COMPLETED"
                            /\ p2[n] \in OpenStates <=> p[n] \in OpenStates
    BY <1>1, <1>2, JobIdsClosed DEF Polls
<1>6. Driven(s, w2, p2, r2)
    BY <1>3, <1>4, <1>5 DEF Driven
<1> QED  BY <1>1, <1>2, <1>6

LEMMA DriveStep == Inv /\ DriveInv /\ [Next]_vars => DriveInv'
<1> SUFFICES ASSUME Inv, DriveInv, [Next]_vars PROVE DriveInv'
    OBVIOUS
<1>0. TypeOK
    BY DEF Inv
<1>1. CASE UNCHANGED <<ops, jobs>>
    BY <1>1, DriveRests
<1>2. ASSUME NEW o \in Ops, PrepareApprovedWrite(o) PROVE DriveInv'
    <2>1. /\ ops[o].state \in {"ABSENT", "AWAITING_SIGNATURE"} /\ ops'[o].state = "AWAITING_SIGNATURE"
          /\ \A u \in Ops : u # o => ops'[u] = ops[u]
        BY <1>0, <1>2 DEF PrepareApprovedWrite, Prepare, TypeOK, Operations
    <2>2. jobs' = Enqueue(jobs, WriteJob(o), NoDoc)
        BY <1>2 DEF PrepareApprovedWrite
    <2>3. WriteJob(o) \in JobIds /\ jobs \in [JobIds -> JobRows]
        BY <1>0, JobIdsClosed DEF TypeOK
    <2>4. \A i \in JobIds : i # WriteJob(o) => jobs'[i].state = jobs[i].state
        BY <2>2, <2>3, EnqueueStates
    <2>5. ASSUME NEW u \in Ops
          PROVE  Driven(ops'[u].state, jobs'[WriteJob(u)].state, Polls(u, jobs'),
                        jobs'[ReconciliationJob(u)].state)
        <3>1. /\ jobs'[ReconciliationJob(u)].state = jobs[ReconciliationJob(u)].state
              /\ \A n \in 1..MaxPoll : jobs'[PollJob(u, n)].state = jobs[PollJob(u, n)].state
            BY <2>4, JobIdsClosed, JobIdsApart
        <3>2. Polls(u, jobs') = Polls(u, jobs)
            BY <3>1 DEF Polls
        <3>3. Driven(ops[u].state, jobs[WriteJob(u)].state, Polls(u, jobs), jobs[ReconciliationJob(u)].state)
            BY DEF DriveInv
        <3>4. CASE u = o
            BY <2>1, <3>1, <3>2, <3>3, <3>4 DEF Driven, Early, TerminalStates
        <3>5. CASE u # o
            <4>1. jobs'[WriteJob(u)].state = jobs[WriteJob(u)].state
                BY <2>4, <3>5, JobIdsClosed, JobIdsApart
            <4> QED  BY <2>1, <3>1, <3>2, <3>3, <3>5, <4>1
        <3> QED  BY <3>4, <3>5
    <2> QED  BY <2>5 DEF DriveInv
<1>3. ASSUME NEW j \in JobIds, LeaseExpires(j) PROVE DriveInv'
    <2>1. ops' = ops /\ \A i \in JobIds : jobs'[i].state = jobs[i].state
        BY <1>0, <1>3 DEF LeaseExpires, TypeOK, JobRows
    <2> QED  BY <2>1, DriveRests
<1>4. ASSUME NEW a \in Agents, NEW j \in JobIds, Fetch(a, j) PROVE DriveInv'
    <2>1. /\ ops' = ops /\ jobs[j].state \in OpenStates /\ jobs'[j].state = "LEASED"
          /\ \A i \in JobIds : i # j => jobs'[i] = jobs[i]
        BY <1>0, <1>4 DEF Fetch, Fetchable, OpenStates, TypeOK, JobRows
    <2>2. ASSUME NEW i \in JobIds
          PROVE  /\ jobs'[i].state = "ABSENT" <=> jobs[i].state = "ABSENT"
                 /\ jobs'[i].state = "COMPLETED" <=> jobs[i].state = "COMPLETED"
                 /\ jobs'[i].state \in OpenStates <=> jobs[i].state \in OpenStates
        BY <2>1 DEF OpenStates
    <2> QED  BY <2>1, <2>2, DriveRests
<1>5. ASSUME NEW m \in net, SubmitResult(m) PROVE DriveInv'
    <2>1. CASE jobs[m.job].state = "COMPLETED"
        BY <1>1, <1>5, <2>1 DEF SubmitResult
    <2>2. CASE jobs[m.job].state # "COMPLETED"
        <3>1. PICK j, o : j = m.job /\ o = j.op
            OBVIOUS
        <3>2. PICK op, js : op = ApplyCore(ops[o], m.result) /\ js = CompleteJob(jobs, j, m.result)
            OBVIOUS
        <3>3. PICK fu : fu = FollowUp(j, op, js, m.result)
            OBVIOUS
        <3>4. ops' = [ops EXCEPT ![o] = fu.op] /\ jobs' = fu.jobs
            BY <1>5, <2>2, <3>1, <3>2, <3>3 DEF SubmitResult
        <3>5. /\ j \in JobIds /\ o \in Ops /\ ops[o] \in Operations
              /\ jobs \in [JobIds -> JobRows] /\ m.result \in AgentResults
            BY <1>0, <3>1, JobIdShape DEF TypeOK, Messages
        <3>6. jobs[j].state \in OpenStates
            <4>1. jobs[j].state \in {"ABSENT", "PENDING", "LEASED", "COMPLETED"}
                BY <3>5 DEF JobRows
            <4>2. jobs[j].state # "ABSENT"
                BY <3>1 DEF Inv, JobInv
            <4> QED  BY <2>2, <3>1, <4>1, <4>2 DEF OpenStates
        <3>7. PICK before, js0, res : before = ops[o] /\ js0 = jobs /\ res = m.result
            OBVIOUS
        <3>8. Driven(before.state, js0[WriteJob(o)].state, Polls(o, js0), js0[ReconciliationJob(o)].state)
            BY <3>5, <3>7 DEF DriveInv
        <3>9. Driven(fu.op.state, fu.jobs[WriteJob(o)].state, Polls(o, fu.jobs),
                     fu.jobs[ReconciliationJob(o)].state)
            <4>1. /\ before \in Operations /\ js0 \in [JobIds -> JobRows] /\ res \in AgentResults
                  /\ js0[j].state \in OpenStates /\ j.op = o
                  /\ op = ApplyCore(before, res) /\ js = CompleteJob(js0, j, res)
                  /\ fu = FollowUp(j, op, js, res)
                BY <3>1, <3>2, <3>3, <3>5, <3>6, <3>7
            <4> QED  BY <3>5, <3>8, <4>1, ResultDrives
        <3>10. ops'[o] = fu.op /\ \A u \in Ops : u # o => ops'[u] = ops[u]
            BY <1>0, <3>4, <3>5 DEF TypeOK
        <3>11. ASSUME NEW u \in Ops, u # o
               PROVE  Driven(ops'[u].state, jobs'[WriteJob(u)].state, Polls(u, jobs'),
                             jobs'[ReconciliationJob(u)].state)
            <4>1. op \in Operations /\ js \in [JobIds -> JobRows]
                BY <3>2, <3>5, StoreTypes, JobTableTypes
            <4>2. ASSUME NEW i \in JobIds, i.op = u PROVE jobs'[i] = jobs[i]
                <5>1. i # j /\ i.op # j.op
                    BY <3>1, <3>11, <4>2
                <5>2. js[i] = jobs[i]
                    BY <3>2, <3>5, <5>1 DEF CompleteJob
                <5>3. fu.jobs[i] = js[i]
                    BY <3>3, <3>5, <4>1, <5>1, FollowUpJobs
                <5> QED  BY <3>4, <5>2, <5>3
            <4>3. /\ WriteJob(u).op = u /\ ReconciliationJob(u).op = u
                  /\ \A n \in 1..MaxPoll : PollJob(u, n).op = u
                BY DEF WriteJob, ReconciliationJob, PollJob
            <4>4. /\ jobs'[WriteJob(u)] = jobs[WriteJob(u)]
                  /\ jobs'[ReconciliationJob(u)] = jobs[ReconciliationJob(u)]
                  /\ \A n \in 1..MaxPoll : jobs'[PollJob(u, n)] = jobs[PollJob(u, n)]
                BY <4>2, <4>3, JobIdsClosed
            <4>5. Polls(u, jobs') = Polls(u, jobs)
                BY <4>4 DEF Polls
            <4> QED  BY <3>10, <3>11, <4>4, <4>5 DEF DriveInv
        <3> QED  BY <3>4, <3>9, <3>10, <3>11 DEF DriveInv
    <2> QED  BY <2>1, <2>2
<1>6. ASSUME NEW a \in Agents, AgentStep(a) PROVE UNCHANGED <<ops, jobs>>
    <2>1. Inspect(a) \/ LocalFailure(a) \/ SignAndClaim(a) => UNCHANGED <<ops, jobs>>
        BY DEF Inspect, LocalFailure, SignAndClaim
    <2>2. PostCreate(a) \/ CreateRaises(a) => UNCHANGED <<ops, jobs>>
        BY DEF PostCreate, CreateRaises
    <2>3. \A c : CreateResponds(a, c) => UNCHANGED <<ops, jobs>>
        BY DEF CreateResponds
    <2>4. RecordResult(a) \/ PollRead(a) => UNCHANGED <<ops, jobs>>
        BY DEF RecordResult, PollRead
    <2>5. ReconciliationRead(a) \/ Submit(a) => UNCHANGED <<ops, jobs>>
        BY DEF ReconciliationRead, Submit
    <2> QED  BY <1>6, <2>1, <2>2, <2>3, <2>4, <2>5 DEF AgentStep
<1>7. ASSUME NEW a, Crash(a) PROVE UNCHANGED <<ops, jobs>>
    BY <1>7 DEF Crash
<1>8. ASSUME NEW m, Lose(m) PROVE UNCHANGED <<ops, jobs>>
    BY <1>8 DEF Lose
<1>9. ASSUME NEW o, NEW n, NEW s, RemoteStep(o, n, s) PROVE UNCHANGED <<ops, jobs>>
    BY <1>9 DEF RemoteStep
<1> QED
    BY <1>1, <1>2, <1>3, <1>4, <1>5, <1>6, <1>7, <1>8, <1>9 DEF Next, vars

(* No waiting operation is forgotten: PROCESSING has exactly one poll in the
   queue, RECONCILIATION_REQUIRED an outstanding CIS read, and attempts follow
   one another (submit_result, _after_write, _after_poll, _schedule_poll), for
   any number of operations, agents, attempts, faults and late results. *)
THEOREM WaitingOperationsDriven == Spec => []WaitingIsDriven
<1>1. Init => DriveInv
    <2> SUFFICES ASSUME Init, NEW o \in Ops
                 PROVE  Driven(ops[o].state, jobs[WriteJob(o)].state, Polls(o, jobs),
                               jobs[ReconciliationJob(o)].state)
        BY DEF DriveInv
    <2>1. /\ ops[o].state = "ABSENT" /\ jobs[WriteJob(o)].state = "ABSENT"
          /\ jobs[ReconciliationJob(o)].state = "ABSENT"
          /\ \A n \in 1..MaxPoll : jobs[PollJob(o, n)].state = "ABSENT"
        BY JobIdsClosed DEF Init, AbsentOperation, AbsentJob
    <2>2. \A n \in 1..MaxPoll : Polls(o, jobs)[n] = "ABSENT"
        BY <2>1 DEF Polls
    <2> QED  BY <2>1, <2>2 DEF Driven, Early, OpenStates
<1>2. DriveInv => WaitingIsDriven
    <2> SUFFICES ASSUME DriveInv, NEW o \in Ops
                 PROVE  /\ ops[o].state = "PROCESSING" =>
                              Cardinality({n \in 1..MaxPoll : Open(PollJob(o, n))}) = 1
                        /\ ops[o].state = "RECONCILIATION_REQUIRED" => Open(ReconciliationJob(o))
                        /\ \A n \in 2..MaxPoll :
                              jobs[PollJob(o, n)].state # "ABSENT"
                                => jobs[PollJob(o, n - 1)].state = "COMPLETED"
        BY DEF WaitingIsDriven
    <2>1. PICK s, w, p, r : /\ s = ops[o].state /\ w = jobs[WriteJob(o)].state
                            /\ p = Polls(o, jobs) /\ r = jobs[ReconciliationJob(o)].state
        OBVIOUS
    <2>2. Driven(s, w, p, r) /\ \A n \in 1..MaxPoll : p[n] = jobs[PollJob(o, n)].state
        BY <2>1 DEF DriveInv, Polls
    <2>3. ASSUME s = "PROCESSING" PROVE Cardinality({n \in 1..MaxPoll : Open(PollJob(o, n))}) = 1
        <3>1. PICK k \in 1..MaxPoll : p[k] \in OpenStates
            BY <2>2, <2>3 DEF Driven
        <3>2. \A n \in 1..MaxPoll : (n < k => p[n] = "COMPLETED") /\ (n > k => p[n] = "ABSENT")
            BY <2>2, <3>1, OpenPollIsLast
        <3>3. \A n \in 1..MaxPoll : p[n] \in OpenStates => n = k
            BY <3>2, MaxPollAssumption DEF OpenStates
        <3>4. \A n \in 1..MaxPoll : Open(PollJob(o, n)) <=> p[n] \in OpenStates
            BY <2>2 DEF Open, OpenStates
        <3>5. {n \in 1..MaxPoll : Open(PollJob(o, n))} = {k}
            BY <3>1, <3>3, <3>4
        <3> QED  BY <3>5, FS_Singleton
    <2>4. s = "RECONCILIATION_REQUIRED" => Open(ReconciliationJob(o))
        BY <2>1, <2>2 DEF Driven, Open, OpenStates
    <2>5. \A n \in 2..MaxPoll : n \in 1..MaxPoll /\ n - 1 \in 1..MaxPoll /\ n - 1 < n
        BY MaxPollAssumption
    <2>6. \A n \in 2..MaxPoll : p[n] # "ABSENT" => p[n - 1] = "COMPLETED"
        BY <2>2, <2>5 DEF Driven
    <2> QED  BY <2>1, <2>2, <2>3, <2>4, <2>5, <2>6
<1> QED  BY <1>1, <1>2, DriveStep, InvHolds, PTL DEF Spec

=============================================================================
