------------------------------ MODULE Reports ------------------------------
(* M11 reports: a request is queued, a worker generates a local report, the  *)
(* agent and the orchestrator drive a remote one through CREATE, TASK_GET,   *)
(* RESULTS and DOWNLOAD.  services/reports.py, services/worker_runtime.py,   *)
(* services/report_downloads.py, the report part of the Windows agent.       *)
(* Every action is one database transaction, or one local step of the agent. *)
EXTENDS ReportStore

CONSTANTS Jobs,            \* report jobs that may be requested
          Owned,           \* those created under a tenant scope
          MaxPolls         \* bound on the repetitions of one remote step

ASSUME ReportsAssumption ==
    /\ Owned \subseteq Jobs
    /\ MaxPolls \in Nat

VARIABLES row,        \* report_jobs
          files,      \* READY report_artifacts
          completed,  \* the audit event report:{id}:generation-completed
          worker,     \* ProductionWorkerRuntime
          reviews,    \* active manual_review_cases of report jobs
          todo,       \* the open agent job of a report
          agent,      \* the Windows agent's current job
          ledger,     \* windows_agent_write_replay, m11-report-create rows
          upload,     \* report_artifact_upload_bindings.state
          posts       \* CREATE requests that reached the remote dispenser

control == <<row, files, completed, reviews>>
remote == <<todo, agent, ledger, upload, posts>>
vars == <<row, files, completed, worker, reviews, todo, agent, ledger, upload, posts>>

----------------------------------------------------------------------------
NoEvent == [by |-> NoWorker, attempt |-> 0]
Idle == [phase |-> "idle"]
NoStep == [step |-> "NONE", n |-> 0]
NoEntry == [state |-> "NONE", n |-> 0, outcome |-> "none"]
Steps == [step : AgentSteps, n : 0 .. MaxPolls]
CreateOutcomes == {"RETRY_SCHEDULED", "REPORT_TASK_CREATED", "READ_FAILED", "MANUAL_REVIEW",
                   "REMOTE_CREATE_AMBIGUOUS"}
Outcomes == CreateOutcomes \cup
    {"AgentReplayConflict", "AgentCreateOutcomeUnresolved", "PREPARATION", "COMPLETED",
     "TERMINAL_OR_UNKNOWN", "NO_RESULT", "AVAILABLE", "NOT_AVAILABLE",
     "AMBIGUOUS_OR_MULTIPART", "REPORT_ARTIFACT_UPLOADED"}

Executions == {Idle}
    \cup [phase : {"running"}, job : Jobs, attempt : 1 .. MaxAttempts]
    \cup [phase : {"failing"}, job : Jobs, class : Classes]
AgentRuns == {Idle}
    \cup [phase : {"reserved", "executing"}, job : Jobs, step : Steps]
    \cup [phase : {"posted"}, job : Jobs, step : Steps, outcome : CreateOutcomes]
    \cup [phase : {"answered"}, job : Jobs, step : Steps, outcome : Outcomes]
Entries == {NoEntry}
    \cup [state : {"RESERVED"}, n : 0 .. MaxPolls, outcome : {"none"}]
    \cup [state : {"COMPLETED"}, n : 0 .. MaxPolls, outcome : CreateOutcomes]

TypeOK ==
    /\ row \in [Jobs -> JobRows]
    /\ files \in [Jobs -> SUBSET Artifacts]
    /\ completed \in [Jobs -> [by : Workers \cup {NoWorker, "report-worker"},
                               attempt : 0 .. MaxAttempts]]
    /\ worker \in [Workers -> Executions]
    /\ reviews \subseteq Jobs \X {"FAILED", "MAX_AGE", "AMBIGUOUS"}
    /\ todo \in [Jobs -> Steps \cup {NoStep}]
    /\ agent \in AgentRuns
    /\ ledger \in [Jobs -> Entries]
    /\ upload \in [Jobs -> [state : {"NONE", "PREPARED", "COMPLETED"}, sized : BOOLEAN,
                            bytes : {"none", "a", "b"}]]
    /\ posts \in [Jobs -> Nat]

Init ==
    /\ row = [j \in Jobs |-> NoRow]
    /\ files = [j \in Jobs |-> {}]
    /\ completed = [j \in Jobs |-> NoEvent]
    /\ worker = [w \in Workers |-> Idle]
    /\ reviews = {}
    /\ todo = [j \in Jobs |-> NoStep]
    /\ agent = Idle
    /\ ledger = [j \in Jobs |-> NoEntry]
    /\ upload = [j \in Jobs |-> NoUpload]
    /\ posts = [j \in Jobs |-> 0]

----------------------------------------------------------------------------
(* Requests.                                                                 *)

Become(j, r) == row' = [row EXCEPT ![j] = r]

\* ReportJobService.request_local.
RequestLocal(j) ==
    /\ row[j].state = "NONE"
    /\ Become(j, QueuedJob("LOCAL"))
    /\ UNCHANGED <<files, completed, worker, reviews, remote>>

\* TrueApiReportOrchestrator.request_filtered_cis_report: the job row is
\* queued as a local one is, and the agent's CREATE is enqueued.
RequestRemote(j) ==
    /\ row[j].state = "NONE"
    /\ Become(j, QueuedJob("TRUE_API_REMOTE"))
    /\ todo' = [todo EXCEPT ![j] = [step |-> "CREATE", n |-> 0]]
    /\ UNCHANGED <<files, completed, worker, reviews, agent, ledger, upload, posts>>

----------------------------------------------------------------------------
(* The worker.                                                               *)

\* _claim: claim_next selects by state and lease, not by origin.
Claim(w, j) ==
    LET r == row[j] IN
    /\ worker[w] = Idle
    /\ Claimable(r)
    /\ IF HasReadyOutput(files[j])
       THEN Become(j, MarkedReady(r)) /\ UNCHANGED worker
       ELSE /\ Become(j, Claimed(r, w))
            /\ worker' = IF r.attempt >= MaxAttempts THEN worker
                         ELSE [worker EXCEPT ![w] =
                             [phase |-> "running", job |-> j, attempt |-> r.attempt + 1]]
    /\ UNCHANGED <<files, completed, reviews, remote>>

\* The audit append of mark_ready: the key of the event does not name the
\* attempt, and a job without a tenant has no event.
Completion(j, w) == [by |-> w, attempt |-> row[j].attempt]

\* Wrong variant: the event of a completion is not checked against the stored one.
AuditAcceptsAny(j, w) == TRUE

AuditAccepts(j, w) ==
    j \in Owned => completed[j] \in {NoEvent, Completion(j, w)}

Fails(w, exception) ==
    worker' = [worker EXCEPT ![w] = [phase |-> "failing", job |-> worker[w].job,
                                     class |-> ClassOf(exception)]]

\* record_snapshot, render, put_file, finalize_artifact, mark_ready, commit.
Publish(w) ==
    LET j == worker[w].job
        n == worker[w].attempt
    IN  /\ worker[w].phase = "running"
        /\ \E rows \in {0, MaxRows} : SourceSucceeds(row[j], rows)
        /\ OwnershipHolds(row[j], w)
        /\ AuditAccepts(j, w)
        /\ files' = [files EXCEPT ![j] = Finalized(@, OutputOf(n))]
        /\ Become(j, MarkedReady(Snapshotted(row[j], n)))
        /\ completed' = IF j \in Owned
                        THEN [completed EXCEPT ![j] = Completion(j, w)]
                        ELSE completed
        /\ worker' = [worker EXCEPT ![w] = Idle]
        /\ UNCHANGED <<reviews, remote>>

\* The execution raises and its transaction is rolled back.
ExecutionFails(w) ==
    LET j == worker[w].job IN
    /\ worker[w].phase = "running"
    /\ \/ \E n \in {0, MaxRows + 1} :
              \E x \in SourceExceptions(row[j], n) : Fails(w, x)
       \/ IsLocal(row[j]) /\ ~OwnershipHolds(row[j], w) /\ Fails(w, "ReportSecurityError")
       \/ IsLocal(row[j]) /\ OwnershipHolds(row[j], w) /\ ~AuditAccepts(j, w)
              /\ Fails(w, "AuditEventKeyConflict")
    /\ UNCHANGED <<control, remote>>

\* A review case belongs to a tenant; a job without one gets none.
Reviewable(js) == js \cap Owned

\* open_or_converge: one active case for a fingerprint.
Reviewed(js, reason) == reviews \cup (Reviewable(js) \X {reason})

\* _handle_failure.  schedule_retry raises for a row that is not GENERATING:
\* the exception ends run_forever and the process is started again.
HandleFailure(w) ==
    LET j == worker[w].job IN
    /\ worker[w].phase = "failing"
    /\ IF Retries(worker[w].class, row[j])
       THEN /\ Become(j, Retried(row[j]))
            /\ UNCHANGED reviews
       ELSE /\ Become(j, Failed(row[j]))
            /\ reviews' = Reviewed({j}, "FAILED")
    /\ worker' = [worker EXCEPT ![w] = Idle]
    /\ UNCHANGED <<files, completed, remote>>

\* The worker's process dies; nothing of its transaction is left.
Crash(w) ==
    /\ worker[w] # Idle
    /\ worker' = [worker EXCEPT ![w] = Idle]
    /\ UNCHANGED <<control, remote>>

\* Wrong variant: failed reports are taken for settled ones.
UnclearUnsettled(r) == r.ambiguous /\ r.state \notin {"READY", "FAILED"}

Unclear(r) == r.ambiguous /\ r.state # "READY"

\* ProductionScheduler.tick, the report jobs: remote ones past their age and
\* ambiguous creates.  No business state changes.
SchedulerTick ==
    LET aged == {j \in Jobs : /\ ~IsLocal(row[j]) /\ row[j].overdue
                              /\ row[j].state \in {"QUEUED", "GENERATING"}}
        unclear == {j \in Jobs : Unclear(row[j])}
        found == Reviewed(aged, "MAX_AGE") \cup Reviewed(unclear, "AMBIGUOUS")
    IN  /\ found # reviews
        /\ reviews' = found
        /\ UNCHANGED <<row, files, completed, worker, remote>>

\* ManualReviewService.resolve.
ResolveReview(c) ==
    /\ c \in reviews
    /\ reviews' = reviews \ {c}
    /\ UNCHANGED <<row, files, completed, worker, remote>>

----------------------------------------------------------------------------
(* The clock.  Nothing renews a lease while a report is generated.           *)

LeaseExpires(j) ==
    /\ row[j].state = "GENERATING" /\ ~row[j].lapsed
    /\ Become(j, [row[j] EXCEPT !.lapsed = TRUE])
    /\ UNCHANGED <<files, completed, worker, reviews, remote>>

RetryDue(j) ==
    /\ row[j].waiting
    /\ Become(j, [row[j] EXCEPT !.waiting = FALSE])
    /\ UNCHANGED <<files, completed, worker, reviews, remote>>

Ages(j) ==
    /\ row[j].state # "NONE" /\ ~row[j].overdue
    /\ Become(j, [row[j] EXCEPT !.overdue = TRUE])
    /\ UNCHANGED <<files, completed, worker, reviews, remote>>

----------------------------------------------------------------------------
(* The agent.                                                                *)

\* Answers after which the orchestrator repeats the step; MaxPolls bounds them.
Repeats == {"RETRY_SCHEDULED", "PREPARATION", "NO_RESULT", "NOT_AVAILABLE"}
Answered(j, outcome) ==
    /\ outcome \in Repeats => todo[j].n < MaxPolls
    /\ agent' = [phase |-> "answered", job |-> j, step |-> todo[j], outcome |-> outcome]

\* Wrong variant: a RESERVED entry is taken over by the next attempt.
ReservationTakenOver(e, n) ==
    IF e.state = "COMPLETED" /\ e.n = n THEN e.outcome ELSE "none"

\* claim of the replay ledger; "none" is a new reservation.  The payload hash
\* covers the agent job's id, which differs between the repetitions n.
PreviousCreate(e, n) ==
    CASE e.state = "NONE" -> "none"
      [] e.n # n -> "AgentReplayConflict"
      [] e.state = "COMPLETED" -> e.outcome
      [] OTHER -> "AgentCreateOutcomeUnresolved"

\* fetch_one, and for a CREATE the durable reservation before any I/O.
Fetch(j) ==
    LET t == todo[j]
        previous == PreviousCreate(ledger[j], t.n)
    IN  /\ agent = Idle
        /\ t # NoStep
        /\ \/ /\ t.step # "CREATE"
              /\ agent' = [phase |-> "executing", job |-> j, step |-> t]
              /\ UNCHANGED ledger
           \/ /\ t.step = "CREATE" /\ previous = "none"
              /\ agent' = [phase |-> "reserved", job |-> j, step |-> t]
              /\ ledger' = [ledger EXCEPT ![j] =
                     [state |-> "RESERVED", n |-> t.n, outcome |-> "none"]]
           \/ /\ t.step = "CREATE" /\ previous # "none"
              /\ Answered(j, previous)
              /\ UNCHANGED ledger
        /\ UNCHANGED <<control, worker, todo, upload, posts>>

Posted(j, outcome) ==
    /\ outcome \in Repeats => todo[j].n < MaxPolls
    /\ agent' = [phase |-> "posted", job |-> j, step |-> agent.step, outcome |-> outcome]

\* m11_report for REPORT_CREATE.  A call the rate limiter denies (its budget is
\* shared by every report of the participant), an answer, or an error of the
\* transport that the request may or may not have preceded; a broken TLS
\* session is raised past the ledger.
PostCreate ==
    LET j == agent.job
        received == [posts EXCEPT ![j] = @ + 1]
    IN  /\ agent.phase = "reserved"
        /\ \/ Posted(j, "RETRY_SCHEDULED") /\ UNCHANGED posts
           \/ /\ posts' = received
              /\ \E o \in {"REPORT_TASK_CREATED", "READ_FAILED", "MANUAL_REVIEW"} :
                     Posted(j, o)
           \/ /\ posts' \in {posts, received}
              /\ Posted(j, "REMOTE_CREATE_AMBIGUOUS") \/ Answered(j, "MANUAL_REVIEW")
        /\ UNCHANGED <<control, worker, todo, ledger, upload>>

\* complete of the replay ledger: the result is stored whatever it is.
CompleteCreate ==
    /\ agent.phase = "posted"
    /\ ledger' = [ledger EXCEPT ![agent.job] =
           [state |-> "COMPLETED", n |-> agent.step.n, outcome |-> agent.outcome]]
    /\ Answered(agent.job, agent.outcome)
    /\ UNCHANGED <<control, worker, todo, upload, posts>>

\* What the agent reports of a task and of its results.
Observations(s) ==
    {"RETRY_SCHEDULED", "READ_FAILED", "MANUAL_REVIEW"} \cup
    IF s = "TASK_GET" THEN {"PREPARATION", "COMPLETED", "TERMINAL_OR_UNKNOWN"}
    ELSE {"NO_RESULT", "AVAILABLE", "NOT_AVAILABLE", "AMBIGUOUS_OR_MULTIPART"}

\* m11_report for the two reads.
ReadStep ==
    /\ agent.phase = "executing" /\ agent.step.step \in {"TASK_GET", "RESULTS"}
    /\ \E o \in Observations(agent.step.step) : Answered(agent.job, o)
    /\ UNCHANGED <<control, worker, todo, ledger, upload, posts>>

\* The upload route: ingest, finalize_artifact and the agent's audit event.
\* A rejected upload is rolled back and the agent reports the error.
Uploads(j, bytes) ==
    IF Ingests(upload[j], bytes)
    THEN /\ files' = [files EXCEPT ![j] = Finalized(@, ArchiveOf)]
         /\ upload' = [upload EXCEPT ![j] = Ingested(@, bytes)]
         /\ Answered(j, "REPORT_ARTIFACT_UPLOADED")
    ELSE Answered(j, "MANUAL_REVIEW") /\ UNCHANGED <<files, upload>>

\* m11_report_download: what the streaming of an archive may end in instead.
DownloadFailures == {"RETRY_SCHEDULED", "READ_FAILED", "MANUAL_REVIEW"}

\* execute_report_download: the archive is streamed to a file and uploaded.
Download ==
    /\ agent.phase = "executing" /\ agent.step.step = "DOWNLOAD"
    /\ \/ \E bytes \in {"a", "b"} : Uploads(agent.job, bytes)
       \/ \E o \in DownloadFailures :
              Answered(agent.job, o) /\ UNCHANGED <<files, upload>>
    /\ UNCHANGED <<row, completed, worker, reviews, todo, ledger, posts>>

\* The agent's process dies, or its result is lost: the lease of the job runs
\* out and the job is offered again.
AgentCrash ==
    /\ agent # Idle
    /\ agent' = Idle
    /\ UNCHANGED <<control, worker, todo, ledger, upload, posts>>

----------------------------------------------------------------------------
(* submit_result: the agent job is completed and the orchestrator advances   *)
(* the report.  It does not look at the state of the report.                 *)

\* The agent job handle_agent_result enqueues.
NextStep(t, outcome) ==
    CASE outcome \in Repeats -> [t EXCEPT !.n = @ + 1]
      [] t.step = "CREATE" /\ outcome = "REPORT_TASK_CREATED"
             -> [step |-> "TASK_GET", n |-> 0]
      [] t.step = "TASK_GET" /\ outcome = "COMPLETED" -> [step |-> "RESULTS", n |-> 0]
      [] t.step = "RESULTS" /\ outcome = "AVAILABLE" -> [step |-> "DOWNLOAD", n |-> 0]
      [] OTHER -> NoStep

\* The agent uploaded an archive and the backend has it.
Arrived(j, outcome) == outcome = "REPORT_ARTIFACT_UPLOADED" /\ Archives(files[j]) # {}

\* The report row after the result.
RowAfter(j, t, outcome) ==
    CASE NextStep(t, outcome) # NoStep -> row[j]
      [] outcome = "REMOTE_CREATE_AMBIGUOUS" -> FailedAmbiguous(row[j])
      [] Arrived(j, outcome) -> MarkedReady(row[j])
      [] OTHER -> Failed(row[j])

Submit ==
    LET j == agent.job
        next == NextStep(agent.step, agent.outcome)
    IN  /\ agent.phase = "answered"
        /\ todo' = [todo EXCEPT ![j] = next]
        /\ Become(j, RowAfter(j, agent.step, agent.outcome))
        /\ IF agent.outcome = "AVAILABLE"
           THEN \E sized \in BOOLEAN : upload' = [upload EXCEPT ![j] = Prepared(sized)]
           ELSE UNCHANGED upload
        /\ completed' = IF j \in Owned /\ Arrived(j, agent.outcome)
                        THEN [completed EXCEPT ![j] = Completion(j, "report-worker")]
                        ELSE completed
        /\ agent' = Idle
        /\ UNCHANGED <<files, worker, reviews, ledger, posts>>

----------------------------------------------------------------------------
Work(w) == Publish(w) \/ ExecutionFails(w) \/ HandleFailure(w)
Clock(j) == LeaseExpires(j) \/ RetryDue(j) \/ Ages(j)
AgentStep == PostCreate \/ CompleteCreate \/ ReadStep
                 \/ Download \/ Submit

Next ==
    \/ \E j \in Jobs : RequestLocal(j) \/ RequestRemote(j) \/ Clock(j) \/ Fetch(j)
    \/ \E w \in Workers : Work(w) \/ Crash(w) \/ \E j \in Jobs : Claim(w, j)
    \/ SchedulerTick
    \/ \E c \in reviews : ResolveReview(c)
    \/ AgentStep
    \/ AgentCrash

Spec == Init /\ [][Next]_vars

\* run_forever claims, executes and ticks in a loop; leases and retry times
\* come from the clock.  The agent, crashes and requests are not fair.
Fairness ==
    /\ \A w \in Workers : WF_vars(\E j \in Jobs : Claim(w, j)) /\ WF_vars(Work(w))
    /\ \A j \in Jobs : WF_vars(LeaseExpires(j)) /\ WF_vars(RetryDue(j))
    /\ WF_vars(SchedulerTick)

FairSpec == Spec /\ Fairness

----------------------------------------------------------------------------
(* Properties.                                                               *)

\* A READY report of a tenant can be downloaded: it has a file, and every file
\* it has opens under the snapshot the job row names, whatever stale worker
\* published late (ReportDownloadService._aad, execute_claimed, mark_ready).
ReadyReportOpens ==
    \A j \in Owned : row[j].state = "READY" =>
        files[j] # {} /\ \A f \in files[j] : Opens(row[j], f)

\* However often the agent crashes or the orchestrator repeats the step, the
\* remote dispenser receives at most one CREATE for a report (the replay
\* ledger's reservation before the POST, DurableWindowsAgentExecutor.execute).
AtMostOneCreate == \A j \in Jobs : posts[j] <= 1

\* A queued local report is generated or fails, in spite of worker crashes,
\* expiring leases and retries (claim_next, the attempt limit, retry_decision).
LocalReportsEnd ==
    \A j \in Jobs :
        IsLocal(row[j]) /\ row[j].state = "QUEUED" ~> row[j].state \in {"READY", "FAILED"}

\* An ambiguous CREATE of a tenant reaches an operator (ProductionScheduler.tick).
AmbiguityIsReviewed ==
    \A j \in Owned : row[j].ambiguous ~> <<j, "AMBIGUOUS">> \in reviews

=============================================================================
