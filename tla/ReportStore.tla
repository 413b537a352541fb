---------------------------- MODULE ReportStore ----------------------------
(* Report jobs, their artifacts and the rules by which a worker's failure is *)
(* retried: repositories/reports.py, the retry policy of                     *)
(* production_hardening.py and the parts of m11_reports.py that store and    *)
(* open a file.  Rows are values here; Reports makes them a state machine.   *)
EXTENDS Naturals, FiniteSets

CONSTANTS Workers,         \* worker ids
          NoWorker,        \* lease_owner IS NULL
          MaxAttempts,     \* max_attempts of claim_next
          MaxSemantic,     \* max_semantic_attempts of a transient class
          MaxRows          \* report_max_local_rows

ASSUME ReportStoreAssumption ==
    /\ NoWorker \notin Workers
    /\ {MaxAttempts, MaxSemantic, MaxRows} \subseteq Nat

----------------------------------------------------------------------------
(* Rows.                                                                     *)

Origins == {"LOCAL", "TRUE_API_REMOTE"}
JobStates == {"NONE", "QUEUED", "GENERATING", "READY", "FAILED"}
AgentSteps == {"CREATE", "TASK_GET", "RESULTS", "DOWNLOAD"}

\* A report_jobs row.  lapsed: lease_expires_at has passed; waiting:
\* next_attempt_at has not; overdue: older than scheduler_max_age_seconds.
JobRows == [origin : Origins, state : JobStates, owner : Workers \cup {NoWorker}, lapsed : BOOLEAN,
            waiting : BOOLEAN, attempt : 0 .. MaxAttempts, semantic : 0 .. MaxSemantic,
            snapshot : 0 .. MaxAttempts, ambiguous : BOOLEAN, overdue : BOOLEAN]

NoRow == [origin |-> "LOCAL", state |-> "NONE", owner |-> NoWorker, lapsed |-> FALSE, waiting |-> FALSE,
          attempt |-> 0, semantic |-> 0, snapshot |-> 0, ambiguous |-> FALSE,
          overdue |-> FALSE]

\* A READY report_artifacts row: its role, what its publication key was made
\* from, and the additional data its file was sealed with.
Artifacts == [role : {"OUTPUT"}, key : 1 .. MaxAttempts, aad : 1 .. MaxAttempts]
                 \cup [role : {"REMOTE_TRUE_API_ARCHIVE"}, key : {0}, aad : {0}]

Outputs(files) == {f \in files : f.role = "OUTPUT"}
Archives(files) == {f \in files : f.role = "REMOTE_TRUE_API_ARCHIVE"}
HasReadyOutput(files) == Outputs(files) # {}

\* create_job and queue, one transaction of the request.
QueuedJob(origin) == [NoRow EXCEPT !.state = "QUEUED", !.origin = origin]
IsLocal(r) == r.origin = "LOCAL"

Released(r) == [r EXCEPT !.owner = NoWorker, !.lapsed = FALSE]

----------------------------------------------------------------------------
(* Leases.                                                                   *)

Claimable(r) ==
    \/ r.state = "QUEUED" /\ ~r.waiting
    \/ r.state = "GENERATING" /\ r.lapsed

\* Wrong variant: a reclaimed lease does not count as an attempt.
ClaimUncounted(r, w) ==
    [r EXCEPT !.state = "GENERATING", !.owner = w, !.lapsed = FALSE,
              !.waiting = FALSE, !.attempt = 1]

\* claim_next on a row without output: the attempt limit, or the lease.
Claimed(r, w) ==
    IF r.attempt >= MaxAttempts
    THEN Released([r EXCEPT !.state = "FAILED"])
    ELSE [r EXCEPT !.state = "GENERATING", !.owner = w, !.lapsed = FALSE,
                   !.waiting = FALSE, !.attempt = @ + 1]

\* record_snapshot.
Snapshotted(r, n) == [r EXCEPT !.snapshot = n]

\* mark_ready.
OwnershipHolds(r, w) == r.owner \in {NoWorker, w}
MarkedReady(r) == Released([r EXCEPT !.state = "READY"])

\* schedule_retry: for a row that is not GENERATING it raises, and leaves it.
Retried(r) ==
    IF r.state = "GENERATING"
    THEN Released([r EXCEPT !.state = "QUEUED", !.waiting = TRUE, !.semantic = @ + 1])
    ELSE r

\* fail: no test of the state or of the owner.
Failed(r) == Released([r EXCEPT !.state = "FAILED"])

\* set_remote_create_ambiguous, then fail.
FailedAmbiguous(r) == Failed([r EXCEPT !.ambiguous = TRUE])

----------------------------------------------------------------------------
(* Failures of a local execution.                                            *)

Classes == {"DATABASE_TRANSIENT", "STORAGE_TRANSIENT", "DETERMINISTIC_FAILURE",
            "VALIDATION_FAILURE", "UNKNOWN_REMOTE_ERROR"}

\* RETRY_POLICY, the classes a worker's exception can fall into.
Automatic(class) == class \in {"DATABASE_TRANSIENT", "STORAGE_TRANSIENT"}

\* retry_decision.
Retries(class, r) == Automatic(class) /\ r.semantic < MaxSemantic /\ ~r.overdue

\* classify_worker_exception.
ClassOf(exception) ==
    CASE exception = "DBAPIError" -> "DATABASE_TRANSIENT"
      [] exception = "OSError" -> "STORAGE_TRANSIENT"
      [] exception = "ArtifactLimitExceeded" -> "DETERMINISTIC_FAILURE"
      [] exception \in {"ValueError", "ReportSecurityError"} -> "VALIDATION_FAILURE"
      [] OTHER -> "UNKNOWN_REMOTE_ERROR"

\* materialize_jsonl_snapshot and StreamingReportRenderer.render on n rows.
Materializes(n) == n <= MaxRows
Renders(n) == n <= MaxRows

\* execute_claimed looks the type up among the local ones before it reads.
KnownType(r) == IsLocal(r)

\* What reading n source rows for a claimed row, and storing them, may raise.
SourceExceptions(r, n) ==
    {"DBAPIError", "OSError", "Exception"}
        \cup (IF KnownType(r) THEN {} ELSE {"ValueError"})
        \cup (IF Materializes(n) THEN {} ELSE {"ArtifactLimitExceeded"})

SourceSucceeds(r, n) == KnownType(r) /\ Materializes(n) /\ Renders(n)

----------------------------------------------------------------------------
(* Files.                                                                    *)

\* The artifact of an execution: put_file seals it with the descriptor of the
\* snapshot it was rendered from.
OutputOf(attempt) == [role |-> "OUTPUT", key |-> attempt, aad |-> attempt]
ArchiveOf == [role |-> "REMOTE_TRUE_API_ARCHIVE", key |-> 0, aad |-> 0]

\* finalize_artifact: the publication key is unique.
Finalized(files, f) ==
    IF \E g \in files : g.role = f.role /\ g.key = f.key THEN files ELSE files \cup {f}

\* decrypt_sensitive_to: the cipher authenticates the additional data.
Decrypts(f, aad) == f.aad = aad

\* _aad: the descriptor of the snapshot the job names, or the remote result.
AadOf(r, f) == IF f.role = "OUTPUT" THEN r.snapshot ELSE 0

\* open_download: a READY job's READY artifact.
Opens(r, f) == r.state = "READY" /\ Decrypts(f, AadOf(r, f))

\* ReportArtifactUploadBinding; only bytes "a" have the announced size.
NoUpload == [state |-> "NONE", sized |-> FALSE, bytes |-> "none"]
Prepared(sized) == [state |-> "PREPARED", sized |-> sized, bytes |-> "none"]

\* BinaryArtifactIngress.ingest accepts the bytes: a replay of a completed
\* upload, or the announced size.
Ingests(u, bytes) ==
    IF u.state = "COMPLETED" THEN u.bytes = bytes ELSE u.sized => bytes = "a"
Ingested(u, bytes) == [u EXCEPT !.state = "COMPLETED", !.bytes = bytes]

=============================================================================
