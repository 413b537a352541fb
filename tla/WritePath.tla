----------------------------- MODULE WritePath -----------------------------
(***************************************************************************)
(* The write path end to end: the backend turns an approved decision into  *)
(* a write operation and a durable WRITE job, a Windows agent leases the   *)
(* job, signs, reserves the create in its local replay ledger, posts the   *)
(* document to True API and reports back; the backend then polls the       *)
(* document and finally reads the CIS again to confirm the change.         *)
(*                                                                         *)
(* Backend and agent only share the job queue (leases that expire) and the *)
(* result messages (which may be lost or arrive late).  The agent may      *)
(* crash between any two steps; its ledger survives.                       *)
(*                                                                         *)
(* src/wbcz_web/services/agent_orchestration.py, repositories/agent.py     *)
(* src/wbcz/windows_agent.py, windows_agent_runtime.py, agent_http.py      *)
(***************************************************************************)
EXTENDS OperationStore, Sequences, FiniteSets

CONSTANTS
    Ops,          \* write operations: one per business fingerprint
    Agents,       \* agent processes that share one replay ledger
    NoJob,        \* an agent's current job when it has none
    MaxPoll,      \* config.agent_poll_max_attempts
    MaxFaults,    \* bound: crashes and lost messages in one behaviour
    MaxInFlight   \* bound: result requests on the wire at the same time

ASSUME MaxPollAssumption == MaxPoll \in Nat \ {0}
ASSUME MaxFaultsAssumption == MaxFaults \in Nat
ASSUME MaxInFlightAssumption == MaxInFlight \in Nat \ {0}

Purposes == {"WRITE", "POLL", "RECONCILIATION_CIS"}

(* _stable_job_id: the id is a digest of purpose, operation and seed, so the
   same triple always names the same job.  The POLL seed is "doc:attempt". *)
WriteJob(o) == [op |-> o, purpose |-> "WRITE", attempt |-> 0]
PollJob(o, n) == [op |-> o, purpose |-> "POLL", attempt |-> n]
ReconciliationJob(o) ==
    [op |-> o, purpose |-> "RECONCILIATION_CIS", attempt |-> 0]

JobIds == {WriteJob(o) : o \in Ops}
          \cup {PollJob(o, n) : o \in Ops, n \in 1..MaxPoll}
          \cup {ReconciliationJob(o) : o \in Ops}

ASSUME NoJobAssumption == NoJob \notin JobIds

VARIABLES
    ops,     \* write_operations: Ops -> Operations
    jobs,    \* agent_jobs: JobIds -> rows
    ledger,  \* windows_agent_write_replay: Ops -> [state, result]
    agent,   \* per process: program counter, leased job, result in hand
    net,     \* result messages on their way to the backend
    posts,   \* per operation, the create requests sent, and what became of them
    faults   \* crashes and losses so far

vars == <<ops, jobs, ledger, agent, net, posts, faults>>

(* A create request on its way, refused, or registered and then judged. *)
PostStates == {"INFLIGHT", "REJECTED", "PROCESSING", "OK", "NOT_OK"}
Registered == {"PROCESSING", "OK", "NOT_OK"}

JobRows == [state   : {"ABSENT", "PENDING", "LEASED", "COMPLETED"},
            expired : BOOLEAN,
            doc     : Nat,
            result  : AgentResults]
AbsentJob == [state |-> "ABSENT", expired |-> FALSE, doc |-> NoDoc,
              result |-> NoResult]

LedgerRows == [state : {"ABSENT", "RESERVED", "COMPLETED"},
               result : AgentResults]

AgentStates == [pc     : {"idle", "execute", "sign", "create", "await",
                          "record", "submit"},
                job    : JobIds \cup {NoJob},
                post   : Nat,
                result : AgentResults]
IdleAgent == [pc |-> "idle", job |-> NoJob, post |-> 0, result |-> NoResult]

Messages == [job : JobIds, result : AgentResults]

Init ==
    /\ ops = [o \in Ops |-> AbsentOperation]
    /\ jobs = [j \in JobIds |-> AbsentJob]
    /\ ledger = [o \in Ops |-> [state |-> "ABSENT", result |-> NoResult]]
    /\ agent = [a \in Agents |-> IdleAgent]
    /\ net = {}
    /\ posts = [o \in Ops |-> << >>]
    /\ faults = 0

-----------------------------------------------------------------------------
(* Results the agent builds. *)

(* run_once: any exception becomes MANUAL_REVIEW and the exception's name. *)
ErrorResult(name) ==
    [NoResult EXCEPT !.outcome = "MANUAL_REVIEW", !.error = name]

CreateResult(category, doc) ==
    [NoResult EXCEPT
        !.outcome = CASE category = "SUCCESS_WITH_ID" -> "SUBMITTED"
                      [] category = "CLIENT_ERROR"    -> "FAILED"
                      [] OTHER                        -> "MANUAL_REVIEW",
        !.category = category,
        !.doc = IF category = "SUCCESS_WITH_ID" THEN doc ELSE NoDoc]

(* _poll on HTTP 200; `remote` is None when the parser finds no status. *)
PollResult(remote) ==
    [NoResult EXCEPT
        !.outcome = CASE Classify(remote) = "INTERMEDIATE"     -> "INTERMEDIATE"
                      [] Classify(remote) = "TERMINAL_SUCCESS" -> "RECONCILIATION_REQUIRED"
                      [] Classify(remote) = "TERMINAL_FAILURE" -> "FAILED"
                      [] OTHER                                 -> "MANUAL_REVIEW",
        !.remote = remote]

CisResult(cis) == [NoResult EXCEPT !.outcome = "CIS_CHECKED", !.cis = cis]

(* What True API answers about a document in a given state; it may also use
   a status the parser or the classifier does not know. *)
Answers(status) ==
    {None, "OTHER"} \cup
    (CASE status = "PROCESSING" -> {"IN_PROGRESS"}
       [] status = "OK"         -> {"CHECKED_OK"}
       [] status = "NOT_OK"     -> {"CHECKED_NOT_OK"}
       [] OTHER                 -> {})

-----------------------------------------------------------------------------
(* Backend.  Every action is one database transaction. *)

(* SqlAlchemyAgentJobStore.enqueue: an existing row is returned unchanged. *)
Enqueue(js, j, doc) ==
    IF js[j].state # "ABSENT" THEN js
    ELSE [js EXCEPT ![j] = [AbsentJob EXCEPT !.state = "PENDING", !.doc = doc]]

(* prepare_approved_write for an event whose decision is READY: prepare the
   operation, then enqueue its WRITE job.  signing_request refuses a row that
   has left AWAITING_SIGNATURE; a replay before that changes nothing. *)
PrepareApprovedWrite(o) ==
    /\ Prepare(ops[o]).state = "AWAITING_SIGNATURE"
    /\ ops' = [ops EXCEPT ![o] = Prepare(ops[o])]
    /\ jobs' = Enqueue(jobs, WriteJob(o), NoDoc)
    /\ UNCHANGED <<ledger, agent, net, posts, faults>>

(* Time reaches lease_expires_at. *)
LeaseExpires(j) ==
    /\ jobs[j].state = "LEASED"
    /\ ~jobs[j].expired
    /\ jobs' = [jobs EXCEPT ![j].expired = TRUE]
    /\ UNCHANGED <<ops, ledger, agent, net, posts, faults>>

(* Wrong variant: a lease never runs out. *)
FetchablePendingOnly(j) == jobs[j].state = "PENDING"

(* fetch_one: a pending job, or one whose lease ran out.  The order by
   available_at is left to the clock, so any such job may come first. *)
Fetchable(j) ==
    \/ jobs[j].state = "PENDING"
    \/ jobs[j].state = "LEASED" /\ jobs[j].expired

Fetch(a, j) ==
    /\ agent[a].pc = "idle"
    /\ Fetchable(j)
    /\ jobs' = [jobs EXCEPT ![j].state = "LEASED", ![j].expired = FALSE]
    /\ agent' = [agent EXCEPT ![a] = [IdleAgent EXCEPT !.pc = "execute", !.job = j]]
    /\ UNCHANGED <<ops, ledger, net, posts, faults>>

(* The rest of submit_result, run on the row the core left: what a finished
   job makes of the operation and which follow-up job it queues. *)
AfterWrite(o, op, js) ==
    IF op.state = "SUBMITTED" /\ op.doc # NoDoc
    THEN [op |-> op, jobs |-> Enqueue(js, PollJob(o, 1), op.doc)]
    ELSE [op |-> op, jobs |-> js]

(* Wrong variants: the attempt number is not advanced; the attempt limit is
   reached without asking for a human. *)
AfterPollSameAttempt(o, op, js, attempt) ==
    CASE op.state = "PROCESSING" /\ (attempt >= MaxPoll \/ op.doc = NoDoc) ->
           [op |-> MarkManualReview(op), jobs |-> js]
      [] op.state = "PROCESSING" /\ attempt < MaxPoll /\ op.doc # NoDoc ->
           [op |-> op, jobs |-> Enqueue(js, PollJob(o, attempt), op.doc)]
      [] op.state = "RECONCILIATION_REQUIRED" ->
           [op |-> op, jobs |-> Enqueue(js, ReconciliationJob(o), NoDoc)]
      [] OTHER -> [op |-> op, jobs |-> js]

AfterPollNoLimit(o, op, js, attempt) ==
    CASE op.state = "PROCESSING" /\ attempt < MaxPoll ->
           [op |-> op, jobs |-> Enqueue(js, PollJob(o, attempt + 1), op.doc)]
      [] op.state = "RECONCILIATION_REQUIRED" ->
           [op |-> op, jobs |-> Enqueue(js, ReconciliationJob(o), NoDoc)]
      [] OTHER -> [op |-> op, jobs |-> js]

AfterPoll(o, op, js, attempt) ==
    CASE op.state = "PROCESSING" /\ (attempt >= MaxPoll \/ op.doc = NoDoc) ->
           [op |-> MarkManualReview(op), jobs |-> js]
      [] op.state = "PROCESSING" /\ attempt < MaxPoll /\ op.doc # NoDoc ->
           [op |-> op, jobs |-> Enqueue(js, PollJob(o, attempt + 1), op.doc)]
      [] op.state = "RECONCILIATION_REQUIRED" ->
           [op |-> op, jobs |-> Enqueue(js, ReconciliationJob(o), NoDoc)]
      [] OTHER -> [op |-> op, jobs |-> js]

FollowUp(j, op, js, res) ==
    CASE j.purpose = "WRITE" -> AfterWrite(j.op, op, js)
      [] j.purpose = "POLL"  -> AfterPoll(j.op, op, js, j.attempt)
      [] OTHER -> [op |-> ReconciliationResult(op, res), jobs |-> js]

(* job_store.complete *)
CompleteJob(js, j, res) ==
    [js EXCEPT ![j] = [@ EXCEPT !.state = "COMPLETED", !.expired = FALSE,
                                !.result = res]]

(* Wrong variant: the replay check on a completed job is missing. *)
SubmitResultNoReplayCheck(m) ==
    /\ m \in net
    /\ net' = net \ {m}
    /\ LET j  == m.job
           fu == FollowUp(j, ApplyCore(ops[j.op], m.result),
                          CompleteJob(jobs, j, m.result), m.result)
       IN  ops' = [ops EXCEPT ![j.op] = fu.op] /\ jobs' = fu.jobs
    /\ UNCHANGED <<ledger, agent, posts, faults>>

(* AgentOrchestrationBroker.submit_result on one delivered message.  A result
   for a completed job changes nothing: the same result is a replay, another
   one is refused with AgentReplayConflict. *)
SubmitResult(m) ==
    /\ m \in net
    /\ net' = net \ {m}
    /\ LET j   == m.job
           fu  == FollowUp(j, ApplyCore(ops[j.op], m.result),
                           CompleteJob(jobs, j, m.result), m.result)
       IN  IF jobs[j].state = "COMPLETED"
           THEN UNCHANGED <<ops, jobs>>
           ELSE /\ ops' = [ops EXCEPT ![j.op] = fu.op]
                /\ jobs' = fu.jobs
    /\ UNCHANGED <<ledger, agent, posts, faults>>

-----------------------------------------------------------------------------
(* Windows agent: run_once, one job at a time. *)

HasResult(a, res) ==
    agent' = [agent EXCEPT ![a].pc = "submit", ![a].result = res]

(* _write, first step: the ledger is consulted before anything else. *)
Inspect(a) ==
    LET row == ledger[agent[a].job.op] IN
    /\ agent[a].pc = "execute"
    /\ agent[a].job.purpose = "WRITE"
    /\ CASE row.state = "COMPLETED" -> HasResult(a, row.result)
         [] row.state = "RESERVED"  ->
              HasResult(a, ErrorResult("AgentCreateOutcomeUnresolved"))
         [] OTHER -> agent' = [agent EXCEPT ![a].pc = "sign"]
    /\ UNCHANGED <<ops, jobs, ledger, net, posts, faults>>

(* production_write is off, or the signer or the certificate fails: nothing
   was reserved and nothing was sent. *)
LocalFailure(a) ==
    /\ \/ agent[a].pc = "execute" /\ agent[a].job.purpose = "WRITE"
       \/ agent[a].pc = "sign"
    /\ HasResult(a, ErrorResult("LOCAL_FAILURE"))
    /\ UNCHANGED <<ops, jobs, ledger, net, posts, faults>>

(* Wrong variant: the claim trusts what inspect() saw before signing. *)
SignAndClaimUnchecked(a) ==
    LET o == agent[a].job.op IN
    /\ agent[a].pc = "sign"
    /\ ledger' = [ledger EXCEPT ![o].state = "RESERVED"]
    /\ agent' = [agent EXCEPT ![a].pc = "create"]
    /\ UNCHANGED <<ops, jobs, net, posts, faults>>

(* Signed; claim() re-reads the ledger under BEGIN IMMEDIATE. *)
SignAndClaim(a) ==
    LET o == agent[a].job.op IN
    /\ agent[a].pc = "sign"
    /\ CASE ledger[o].state = "ABSENT" ->
              /\ ledger' = [ledger EXCEPT ![o].state = "RESERVED"]
              /\ agent' = [agent EXCEPT ![a].pc = "create"]
         [] ledger[o].state = "RESERVED" ->
              /\ HasResult(a, ErrorResult("AgentCreateOutcomeUnresolved"))
              /\ UNCHANGED ledger
         [] OTHER ->
              /\ HasResult(a, ledger[o].result)
              /\ UNCHANGED ledger
    /\ UNCHANGED <<ops, jobs, net, posts, faults>>

(* transport.create_document: the POST leaves the machine. *)
PostCreate(a) ==
    LET o == agent[a].job.op IN
    /\ agent[a].pc = "create"
    /\ posts' = [posts EXCEPT ![o] = Append(@, "INFLIGHT")]
    /\ agent' = [agent EXCEPT ![a].pc = "await",
                              ![a].post = Len(posts[o]) + 1]
    /\ UNCHANGED <<ops, jobs, ledger, net, faults>>

(* bearer_token or the transport raises, before or after the POST left: a
   timeout says nothing about what True API did with it. *)
CreateRaises(a) ==
    /\ agent[a].pc \in {"create", "await"}
    /\ HasResult(a, ErrorResult("TRANSPORT_FAILURE"))
    /\ UNCHANGED <<ops, jobs, ledger, net, posts, faults>>

(* The responses True API can give to a request in a given state: 200/201
   once it registered the document, 4xx when it refused it, 5xx any time. *)
Categories(status) ==
    {"SERVER_ERROR"} \cup
    (CASE status \in Registered ->
            {"SUCCESS_WITH_ID", "SUCCESS_CONTRACT_UNCONFIRMED"}
       [] status = "REJECTED" -> {"CLIENT_ERROR"}
       [] OTHER -> {})

CreateResponds(a, category) ==
    /\ agent[a].pc = "await"
    /\ category \in Categories(posts[agent[a].job.op][agent[a].post])
    /\ agent' = [agent EXCEPT ![a].pc = "record",
                     ![a].result = CreateResult(category, agent[a].post)]
    /\ UNCHANGED <<ops, jobs, ledger, net, posts, faults>>

(* replay_store.complete, which may itself raise (disk, lock timeout). *)
RecordResult(a) ==
    LET o == agent[a].job.op IN
    /\ agent[a].pc = "record"
    /\ \/ /\ ledger[o].state = "RESERVED"
          /\ ledger' = [ledger EXCEPT ![o] = [state |-> "COMPLETED",
                                              result |-> agent[a].result]]
          /\ agent' = [agent EXCEPT ![a].pc = "submit"]
       \/ /\ HasResult(a, ErrorResult("LEDGER_FAILURE"))
          /\ UNCHANGED ledger
    /\ UNCHANGED <<ops, jobs, net, posts, faults>>

(* _poll *)
PollRead(a) ==
    LET j == agent[a].job IN
    /\ agent[a].pc = "execute"
    /\ j.purpose = "POLL"
    /\ \/ \E s \in Answers(posts[j.op][jobs[j].doc]) : HasResult(a, PollResult(s))
       \/ \E e \in {"POLL_HTTP_ERROR", "TRANSPORT_FAILURE"} :
             HasResult(a, ErrorResult(e))
    /\ UNCHANGED <<ops, jobs, ledger, net, posts, faults>>

(* _cis_check for the reconciliation read.  Other parties act on the same
   code, so the read may differ from what the document asked for. *)
ReconciliationRead(a) ==
    /\ agent[a].pc = "execute"
    /\ agent[a].job.purpose = "RECONCILIATION_CIS"
    /\ \/ \E c \in {"CONFIRMS", "DIFFERS"} : HasResult(a, CisResult(c))
       \/ HasResult(a, ErrorResult("TRANSPORT_FAILURE"))
    /\ UNCHANGED <<ops, jobs, ledger, net, posts, faults>>

(* backend.submit_result: one POST, never retried; whatever the answer, the
   loop goes on with the next fetch. *)
Submit(a) ==
    /\ agent[a].pc = "submit"
    /\ Cardinality(net) < MaxInFlight
    /\ net' = net \cup {[job |-> agent[a].job, result |-> agent[a].result]}
    /\ agent' = [agent EXCEPT ![a] = IdleAgent]
    /\ UNCHANGED <<ops, jobs, ledger, posts, faults>>

-----------------------------------------------------------------------------
(* Environment. *)

(* The process dies; only the ledger is durable.  A lost answer to fetch_one
   is the same as a crash right after the fetch. *)
Crash(a) ==
    /\ agent[a].pc # "idle"
    /\ faults < MaxFaults
    /\ agent' = [agent EXCEPT ![a] = IdleAgent]
    /\ faults' = faults + 1
    /\ UNCHANGED <<ops, jobs, ledger, net, posts>>

(* A result never reaches the backend, or its transaction rolls back. *)
Lose(m) ==
    /\ m \in net
    /\ faults < MaxFaults
    /\ net' = net \ {m}
    /\ faults' = faults + 1
    /\ UNCHANGED <<ops, jobs, ledger, agent, posts>>

(* True API registers or refuses a request, then judges the document. *)
RemoteStep(o, n, s) ==
    /\ n \in DOMAIN posts[o]
    /\ \/ posts[o][n] = "INFLIGHT" /\ s \in {"PROCESSING", "REJECTED"}
       \/ posts[o][n] = "PROCESSING" /\ s \in {"OK", "NOT_OK"}
    /\ posts' = [posts EXCEPT ![o][n] = s]
    /\ UNCHANGED <<ops, jobs, ledger, agent, net, faults>>

-----------------------------------------------------------------------------
AgentStep(a) ==
    \/ Inspect(a)
    \/ LocalFailure(a)
    \/ SignAndClaim(a)
    \/ PostCreate(a)
    \/ CreateRaises(a)
    \/ \E c \in CreateCategories : CreateResponds(a, c)
    \/ RecordResult(a)
    \/ PollRead(a)
    \/ ReconciliationRead(a)
    \/ Submit(a)

Next ==
    \/ \E o \in Ops : PrepareApprovedWrite(o)
    \/ \E j \in JobIds : LeaseExpires(j)
    \/ \E a \in Agents, j \in JobIds : Fetch(a, j)
    \/ \E a \in Agents : AgentStep(a)
    \/ \E m \in net : SubmitResult(m)
    \/ \E a \in Agents : Crash(a)
    \/ \E m \in net : Lose(m)
    \/ \E o \in Ops, s \in PostStates : \E n \in DOMAIN posts[o] : RemoteStep(o, n, s)

Spec == Init /\ [][Next]_vars

(* Leases run out, the agent loop keeps polling and finishes what it leased,
   and a request that is not lost is eventually handled.  Nothing makes an
   operator prepare a write, True API decide, or a fault happen. *)
Fairness ==
    /\ \A j \in JobIds : WF_vars(LeaseExpires(j))
    /\ \A a \in Agents : WF_vars(\E j \in JobIds : Fetch(a, j))
    /\ \A a \in Agents : WF_vars(AgentStep(a))
    /\ WF_vars(\E m \in net : SubmitResult(m))

FairSpec == Spec /\ Fairness

-----------------------------------------------------------------------------
(* Every variable has the shape the code's rows and objects have, and an
   agent holds a job exactly while it works on one. *)
TypeOK ==
    /\ ops \in [Ops -> Operations]
    /\ jobs \in [JobIds -> JobRows]
    /\ ledger \in [Ops -> LedgerRows]
    /\ agent \in [Agents -> AgentStates]
    /\ \A a \in Agents : agent[a].job = NoJob <=> agent[a].pc = "idle"
    /\ net \in SUBSET Messages
    /\ posts \in [Ops -> Seq(PostStates)]
    /\ faults \in Nat

(* The replay ledger's purpose: whatever crashes, leases that run out and
   duplicate agent processes do, at most one create request per operation
   ever leaves the machine (windows_agent_runtime.py, _write). *)
AtMostOneCreate == \A o \in Ops : Len(posts[o]) <= 1

(* The backend's verdicts agree with True API: SUCCEEDED means the recorded
   document exists and was accepted, FAILED means the request was refused or
   the document rejected - a FAILED operation never has a document that can
   still take effect (complete_submit, apply_poll_status). *)
VerdictsAreTrue ==
    \A o \in Ops :
        /\ ops[o].state = "SUCCEEDED" =>
              /\ ops[o].doc \in DOMAIN posts[o]
              /\ posts[o][ops[o].doc] = "OK"
        /\ ops[o].state = "FAILED" =>
              /\ posts[o] # << >>
              /\ \A n \in DOMAIN posts[o] : posts[o][n] \in {"REJECTED", "NOT_OK"}

Open(j) == jobs[j].state \in {"PENDING", "LEASED"}

(* No operation that waits for True API is forgotten: PROCESSING has exactly
   one poll outstanding, RECONCILIATION_REQUIRED an outstanding CIS read, and
   the attempts of the poll chain are consumed one after the other. *)
WaitingIsDriven ==
    \A o \in Ops :
        /\ ops[o].state = "PROCESSING" =>
              Cardinality({n \in 1..MaxPoll : Open(PollJob(o, n))}) = 1
        /\ ops[o].state = "RECONCILIATION_REQUIRED" => Open(ReconciliationJob(o))
        /\ \A n \in 2..MaxPoll :
              jobs[PollJob(o, n)].state # "ABSENT"
                => jobs[PollJob(o, n - 1)].state = "COMPLETED"

(* Evidence is never rewritten: a completed job keeps its result, a ledger
   entry never goes back, a known document id is never replaced and a
   terminal operation never moves, however late or often results arrive. *)
EvidenceKept ==
    /\ \A j \in JobIds : jobs[j].state = "COMPLETED" => jobs'[j] = jobs[j]
    /\ \A o \in Ops : ops[o].state \in TerminalStates => ops'[o] = ops[o]
    /\ \A o \in Ops : ops[o].doc # NoDoc => ops'[o].doc = ops[o].doc
    /\ \A o \in Ops : ledger[o].state = "COMPLETED" => ledger'[o] = ledger[o]
    /\ \A o \in Ops : ledger[o].state = "RESERVED" => ledger'[o].state # "ABSENT"

(* EvidenceKept holds of every step. *)
EvidenceIsFinal == [][EvidenceKept]_vars

(* Every job the backend queues is eventually completed, whatever the agent
   meets while executing it (run_once turns every exception into a result,
   and the lease of a lost delivery runs out). *)
JobsComplete ==
    \A j \in JobIds : (jobs[j].state # "ABSENT") ~> (jobs[j].state = "COMPLETED")

(* Polling is bounded: an operation does not stay PROCESSING, even if True
   API never decides (agent_poll_max_attempts). *)
ProcessingEnds ==
    \A o \in Ops : (ops[o].state = "PROCESSING") ~> (ops[o].state # "PROCESSING")

-----------------------------------------------------------------------------
(* A statement of the repository that the code does not keep: a result that
   carries only an error completes its job and leaves the operation where it
   was. *)

(* docs/M15_FIRST_REAL_WRITE_RUNBOOK.md:13: an ambiguous transport outcome
   enters manual review.  Here: once the WRITE job is completed, an operation
   whose request left the machine does not stay AWAITING_SIGNATURE. *)
AmbiguousCreateGoesToReview ==
    \A o \in Ops :
        posts[o] # << >> /\ jobs[WriteJob(o)].state = "COMPLETED"
            => ops[o].state # "AWAITING_SIGNATURE"

-----------------------------------------------------------------------------
(* The contract the write path implements. *)
Truth(o) ==
    IF posts[o] = << >> \/ Head(posts[o]) = "INFLIGHT" THEN "UNKNOWN" ELSE Head(posts[o])

Verdict(o) == IF ops[o].state \in TerminalStates THEN ops[o].state ELSE "OPEN"

Contract == INSTANCE SubmissionContract
    WITH sent    <- [o \in Ops |-> Len(posts[o])],
         truth   <- [o \in Ops |-> Truth(o)],
         verdict <- [o \in Ops |-> Verdict(o)]

(* The write path implements the submission contract: one post, one verdict,
   and a verdict only on evidence. *)
ImplementsContract == Contract!Spec
=============================================================================
