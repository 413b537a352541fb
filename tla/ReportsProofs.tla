--------------------------- MODULE ReportsProofs ---------------------------
(***************************************************************************)
(* Reports, for any jobs, workers and limits: the remote dispenser gets at *)
(* most one CREATE of a report, and a READY report of a tenant opens.      *)
(*                                                                         *)
(* The first rests on the ledger: a reservation is made before the POST    *)
(* and never taken back (CreateInv).  The second rests on the audit event  *)
(* of the completion, whose key does not name the attempt: it lets one     *)
(* worker publish one output of a job, and once the output is there the    *)
(* row is never claimable again, so the snapshot the row names stays the   *)
(* one the output was sealed with (FileInv).                               *)
(***************************************************************************)
EXTENDS Reports, TLAPS

Running(w, j) == worker[w].phase = "running" /\ worker[w].job = j

\* A CREATE is posted under a reservation, and once.
CreateInv ==
  /\ \A j \in Jobs : posts[j] \in {0, 1}
  /\ \A j \in Jobs : ledger[j].state = "NONE" => posts[j] = 0
  /\ agent.phase = "reserved" => posts[agent.job] = 0 /\ ledger[agent.job].state # "NONE"

\* Agent jobs belong to remote reports, and the agent works on the open one.
StepInv ==
  /\ \A j \in Jobs : todo[j] # NoStep => row[j].state # "NONE" /\ ~IsLocal(row[j])
  /\ agent # Idle => todo[agent.job] = agent.step
  /\ agent.phase = "answered" /\ agent.outcome \in Repeats => agent.step.n < MaxPolls

\* What a job's files say of its row, when the job has a tenant.
FilesAgree(j, r) ==
  /\ r.state = "READY" => files[j] # {}
  /\ Outputs(files[j]) # {} =>
       /\ IsLocal(r) /\ r.state \in {"READY", "FAILED"}
       /\ completed[j].by \in Workers /\ ~Running(completed[j].by, j)
  /\ \A f \in Outputs(files[j]) : f.aad = r.snapshot

FileInv == \A j \in Owned : FilesAgree(j, row[j])

ReportsInv == TypeOK /\ CreateInv /\ StepInv /\ FileInv

----------------------------------------------------------------------------
(* Rows                                                                    *)

\* The row s is the row r in another state.
Keeps(r, s) ==
  s \in JobRows /\ s.origin = r.origin /\ s.snapshot = r.snapshot

LEMMA NoRowShape == NoRow \in JobRows /\ NoRow.state = "NONE"
  BY ReportStoreAssumption DEF NoRow, JobRows, Origins, JobStates

LEMMA QueuedShape ==
  ASSUME NEW o \in Origins
  PROVE  QueuedJob(o) \in JobRows /\ QueuedJob(o).origin = o /\ QueuedJob(o).state = "QUEUED"
  BY NoRowShape DEF QueuedJob, JobRows, JobStates

LEMMA ReleasedShape ==
  ASSUME NEW r \in JobRows
  PROVE  Keeps(r, Released(r)) /\ Released(r).state = r.state
  BY DEF Keeps, Released, JobRows

\* mark_ready, fail and the ambiguous fail.
LEMMA EndShape ==
  ASSUME NEW r \in JobRows
  PROVE  /\ Keeps(r, MarkedReady(r)) /\ MarkedReady(r).state = "READY"
         /\ Keeps(r, Failed(r)) /\ Failed(r).state = "FAILED"
         /\ Keeps(r, FailedAmbiguous(r)) /\ FailedAmbiguous(r).state = "FAILED"
<1>1. ASSUME NEW s \in JobRows PROVE Keeps(s, Failed(s)) /\ Failed(s).state = "FAILED"
  <2>1. Keeps(s, [s EXCEPT !.state = "FAILED"]) /\ [s EXCEPT !.state = "FAILED"].state = "FAILED"
    BY DEF Keeps, JobRows, JobStates
  <2> QED
    BY <2>1, ReleasedShape DEF Failed, Keeps
<1>2. Keeps(r, [r EXCEPT !.state = "READY"]) /\ [r EXCEPT !.state = "READY"].state = "READY"
  BY DEF Keeps, JobRows, JobStates
<1>3. Keeps(r, MarkedReady(r)) /\ MarkedReady(r).state = "READY"
  BY <1>2, ReleasedShape DEF MarkedReady, Keeps
<1>4. Keeps(r, [r EXCEPT !.ambiguous = TRUE])
  BY DEF Keeps, JobRows
<1> QED
  BY <1>1, <1>3, <1>4 DEF FailedAmbiguous, Keeps

LEMMA ClaimedShape ==
  ASSUME NEW r \in JobRows, NEW w \in Workers
  PROVE  Keeps(r, Claimed(r, w)) /\ Claimed(r, w).state \in {"GENERATING", "FAILED"}
<1>1. CASE r.attempt >= MaxAttempts
  BY <1>1, EndShape DEF Claimed, Failed
<1>2. CASE ~(r.attempt >= MaxAttempts)
  <2>1. r.attempt + 1 \in 0 .. MaxAttempts
    BY <1>2, ReportStoreAssumption DEF JobRows
  <2>2. PICK n \in 0 .. MaxAttempts : n = r.attempt + 1
    BY <2>1
  <2>3. Claimed(r, w) = [r EXCEPT !.state = "GENERATING", !.owner = w, !.lapsed = FALSE,
                                  !.waiting = FALSE, !.attempt = n]
    BY <1>2, <2>2 DEF Claimed
  <2>4. Claimed(r, w) \in JobRows
    BY <2>3 DEF JobRows, JobStates
  <2>5. Claimed(r, w).origin = r.origin /\ Claimed(r, w).snapshot = r.snapshot
    BY <2>3 DEF JobRows
  <2>6. Claimed(r, w).state = "GENERATING"
    BY <2>3 DEF JobRows
  <2> QED
    BY <2>4, <2>5, <2>6 DEF Keeps
<1> QED
  BY <1>1, <1>2

LEMMA RetriedShape ==
  ASSUME NEW r \in JobRows, r.semantic < MaxSemantic
  PROVE  /\ Keeps(r, Retried(r))
         /\ r.state = "GENERATING" => Retried(r).state = "QUEUED"
         /\ r.state # "GENERATING" => Retried(r).state = r.state
<1>1. CASE r.state = "GENERATING"
  <2>1. r.semantic + 1 \in 0 .. MaxSemantic
    BY ReportStoreAssumption DEF JobRows
  <2>2. PICK n \in 0 .. MaxSemantic : n = r.semantic + 1
    BY <2>1
  <2>3. PICK s \in JobRows : /\ s = [r EXCEPT !.state = "QUEUED", !.waiting = TRUE, !.semantic = n]
                             /\ s.state = "QUEUED" /\ Keeps(r, s)
    <3>1. Keeps(r, [r EXCEPT !.state = "QUEUED", !.waiting = TRUE, !.semantic = n])
      BY DEF Keeps, JobRows, JobStates
    <3>2. [r EXCEPT !.state = "QUEUED", !.waiting = TRUE, !.semantic = n].state = "QUEUED"
      BY DEF JobRows
    <3> QED
      BY <3>1, <3>2 DEF Keeps
  <2>4. Retried(r) = Released(s)
    BY <1>1, <2>2, <2>3 DEF Retried
  <2> QED
    BY <1>1, <2>3, <2>4, ReleasedShape DEF Keeps
<1>2. CASE r.state # "GENERATING"
  BY <1>2 DEF Retried, Keeps
<1> QED
  BY <1>1, <1>2

----------------------------------------------------------------------------
(* What leaves each part of the invariant alone                            *)

LEMMA CreateFrame ==
  ASSUME CreateInv, UNCHANGED <<posts, ledger, agent>>
  PROVE  CreateInv'
  BY DEF CreateInv

\* The row of one job moves on.
LEMMA StepRow ==
  ASSUME ReportsInv, NEW j \in Jobs, NEW r \in JobRows, row' = [row EXCEPT ![j] = r],
         r.state # "NONE" \/ r.state = row[j].state, r.origin = row[j].origin,
         UNCHANGED <<todo, agent>>
  PROVE  StepInv'
<1>1. \A k \in Jobs : row'[k].state # "NONE" \/ row'[k].state = row[k].state
  BY DEF ReportsInv, TypeOK
<1>2. \A k \in Jobs : row'[k].origin = row[k].origin
  BY DEF ReportsInv, TypeOK
<1> QED
  BY <1>1, <1>2 DEF ReportsInv, StepInv, IsLocal

LEMMA StepFrame ==
  ASSUME StepInv, UNCHANGED <<row, todo, agent>>
  PROVE  StepInv'
  BY DEF StepInv

LEMMA FileRow ==
  ASSUME ReportsInv, NEW j \in Jobs, NEW r \in JobRows, row' = [row EXCEPT ![j] = r],
         r.origin = row[j].origin, r.snapshot = row[j].snapshot,
         j \in Owned /\ r.state = "READY" => files[j] # {},
         j \in Owned /\ Outputs(files[j]) # {} => r.state \in {"READY", "FAILED"},
         \A w \in Workers, k \in Jobs : Running(w, k)' =>
            Running(w, k) \/ row[k].state \notin {"READY", "FAILED"},
         UNCHANGED <<files, completed>>
  PROVE  FileInv'
<1> SUFFICES ASSUME NEW k \in Owned PROVE FilesAgree(k, row[k])'
  BY DEF FileInv
<1>1. FilesAgree(k, row[k]) /\ k \in Jobs
  BY ReportsAssumption DEF ReportsInv, FileInv
<1>2. CASE k = j
  <2>1. row'[k] = r
    BY <1>1, <1>2 DEF ReportsInv, TypeOK
  <2> QED
    BY <1>1, <1>2, <2>1 DEF FilesAgree, IsLocal
<1>3. CASE k # j
  <2>1. row'[k] = row[k]
    BY <1>1, <1>3 DEF ReportsInv, TypeOK
  <2> QED
    BY <1>1, <1>3, <2>1 DEF FilesAgree
<1> QED
  BY <1>2, <1>3

LEMMA FileFrame ==
  ASSUME FileInv, UNCHANGED <<row, files, completed>>,
         \A w \in Workers, k \in Jobs : Running(w, k)' => Running(w, k)
  PROVE  FileInv'
<1> SUFFICES ASSUME NEW k \in Owned PROVE FilesAgree(k, row[k])'
  BY DEF FileInv
<1>1. FilesAgree(k, row[k]) /\ k \in Jobs
  BY ReportsAssumption DEF FileInv
<1> QED
  BY <1>1 DEF FilesAgree

\* The execution or the agent run with a job is at one of the jobs.
LEMMA RunShape ==
  ASSUME TypeOK, NEW w \in Workers
  PROVE  /\ worker[w].phase = "running" => /\ worker[w].job \in Jobs
                                           /\ worker[w].attempt \in 1 .. MaxAttempts
         /\ worker[w].phase = "failing" => worker[w].job \in Jobs
  BY DEF TypeOK, Executions, Idle

LEMMA AgentShape ==
  ASSUME TypeOK
  PROVE  /\ agent.phase \in {"reserved", "executing", "posted", "answered"} =>
              agent # Idle /\ agent.job \in Jobs /\ agent.step \in Steps
         /\ agent.phase = "posted" => agent.outcome \in CreateOutcomes
         /\ agent.phase = "answered" => agent.outcome \in Outcomes
  BY DEF TypeOK, AgentRuns, Idle

----------------------------------------------------------------------------

(* Requests, the clock and the worker                                      *)

LEMMA NewFiles ==
  ASSUME ReportsInv, NEW j \in Jobs, row[j].state = "NONE",
         NEW r \in JobRows, r.state = "QUEUED", row' = [row EXCEPT ![j] = r],
         UNCHANGED <<files, completed, worker>>
  PROVE  FileInv'
<1> SUFFICES ASSUME NEW k \in Owned PROVE FilesAgree(k, row[k])'
  BY DEF FileInv
<1>1. FilesAgree(k, row[k]) /\ k \in Jobs
  BY ReportsAssumption DEF ReportsInv, FileInv
<1>2. CASE k = j
  <2>1. row'[k] = r
    BY <1>1, <1>2 DEF ReportsInv, TypeOK
  <2>2. Outputs(files[k]) = {}
    BY <1>1, <1>2 DEF FilesAgree
  <2> QED
    BY <2>1, <2>2 DEF FilesAgree
<1>3. CASE k # j
  <2>1. row'[k] = row[k]
    BY <1>1, <1>3 DEF ReportsInv, TypeOK
  <2> QED
    BY <1>1, <2>1 DEF FilesAgree, Running
<1> QED
  BY <1>2, <1>3

\* The open step of a job is none, or one of the agent's.
LEMMA NoStepApart == NoStep \notin Steps
  BY DEF NoStep, Steps, AgentSteps

LEMMA RequestLocalKeeps ==
  ASSUME ReportsInv, NEW j \in Jobs, RequestLocal(j)
  PROVE  ReportsInv'
<1> DEFINE r == QueuedJob("LOCAL")
<1>1. r \in JobRows /\ r.state = "QUEUED"
  BY QueuedShape DEF Origins
<1>2. /\ row[j].state = "NONE" /\ row' = [row EXCEPT ![j] = r]
      /\ UNCHANGED <<files, completed, worker, reviews, todo, agent, ledger, upload, posts>>
  BY DEF RequestLocal, Become, remote
<1> HIDE DEF r
<1>3. TypeOK'
  BY <1>1, <1>2 DEF ReportsInv, TypeOK
<1>4. CreateInv'
  BY <1>2, CreateFrame DEF ReportsInv
<1>5. StepInv'
  BY <1>1, <1>2 DEF ReportsInv, TypeOK, StepInv
<1>6. FileInv'
  BY <1>1, <1>2, NewFiles
<1> QED
  BY <1>3, <1>4, <1>5, <1>6 DEF ReportsInv

LEMMA RequestRemoteKeeps ==
  ASSUME ReportsInv, NEW j \in Jobs, RequestRemote(j)
  PROVE  ReportsInv'
<1> DEFINE r == QueuedJob("TRUE_API_REMOTE")
           s == [step |-> "CREATE", n |-> 0]
<1>1. r \in JobRows /\ r.state = "QUEUED" /\ r.origin = "TRUE_API_REMOTE"
  BY QueuedShape DEF Origins
<1>2. s \in Steps
  BY ReportsAssumption DEF Steps, AgentSteps
<1>3. /\ row[j].state = "NONE" /\ row' = [row EXCEPT ![j] = r] /\ todo' = [todo EXCEPT ![j] = s]
      /\ UNCHANGED <<files, completed, worker, reviews, agent, ledger, upload, posts>>
  BY DEF RequestRemote, Become
<1> HIDE DEF r, s
<1>4. TypeOK'
  BY <1>1, <1>2, <1>3 DEF ReportsInv, TypeOK
<1>5. CreateInv'
  BY <1>3, CreateFrame DEF ReportsInv
<1>6. StepInv'
  <2>1. todo[j] = NoStep
    BY <1>3 DEF ReportsInv, StepInv
  <2>2. agent # Idle => agent.job \in Jobs /\ agent.step \in Steps
    BY DEF ReportsInv, TypeOK, AgentRuns
  <2>3. agent # Idle => agent.job # j
    BY <2>1, <2>2, NoStepApart DEF ReportsInv, StepInv
  <2>4. \A k \in Jobs : todo'[k] # NoStep => row'[k].state # "NONE" /\ ~IsLocal(row'[k])
    BY <1>1, <1>3 DEF ReportsInv, TypeOK, StepInv, IsLocal
  <2> QED
    BY <1>3, <2>2, <2>3, <2>4 DEF ReportsInv, TypeOK, StepInv
<1>7. FileInv'
  BY <1>1, <1>3, NewFiles
<1> QED
  BY <1>4, <1>5, <1>6, <1>7 DEF ReportsInv

\* A job's row moves on without a change of its files, while a worker may end
\* its execution.
LEMMA RowMoves ==
  ASSUME ReportsInv, NEW j \in Jobs, NEW r, Keeps(row[j], r),
         row' = [row EXCEPT ![j] = r],
         r.state # "NONE" \/ r.state = row[j].state,
         j \in Owned /\ r.state = "READY" => files[j] # {},
         j \in Owned /\ Outputs(files[j]) # {} => r.state \in {"READY", "FAILED"},
         \A w \in Workers, k \in Jobs : Running(w, k)' =>
            Running(w, k) \/ row[k].state \notin {"READY", "FAILED"},
         worker' \in [Workers -> Executions],
         reviews' \subseteq Jobs \X {"FAILED", "MAX_AGE", "AMBIGUOUS"},
         UNCHANGED <<files, completed, todo, agent, ledger, upload, posts>>
  PROVE  ReportsInv'
<1>1. r \in JobRows /\ r.origin = row[j].origin /\ r.snapshot = row[j].snapshot
  BY DEF Keeps
<1>2. TypeOK'
  BY <1>1 DEF ReportsInv, TypeOK
<1>3. CreateInv'
  BY CreateFrame DEF ReportsInv
<1>4. StepInv'
  BY <1>1, StepRow
<1>5. FileInv'
  BY <1>1, FileRow
<1> QED
  BY <1>2, <1>3, <1>4, <1>5 DEF ReportsInv

\* What the files say of a job that is not at an end.
LEMMA NoOutputYet ==
  ASSUME ReportsInv, NEW j \in Owned, row[j].state \notin {"READY", "FAILED"}
  PROVE  Outputs(files[j]) = {}
  BY DEF ReportsInv, FileInv, FilesAgree

LEMMA ClockKeeps ==
  ASSUME ReportsInv, NEW j \in Jobs, Clock(j)
  PROVE  ReportsInv'
<1>1. row[j] \in JobRows
  BY DEF ReportsInv, TypeOK
<1>2. UNCHANGED <<files, completed, worker, reviews, todo, agent, ledger, upload, posts>>
  BY DEF Clock, LeaseExpires, RetryDue, Ages, remote
<1>3. worker' \in [Workers -> Executions] /\ reviews' \subseteq Jobs \X {"FAILED", "MAX_AGE", "AMBIGUOUS"}
  BY <1>2 DEF ReportsInv, TypeOK
<1>4. PICK r : /\ row' = [row EXCEPT ![j] = r]
               /\ Keeps(row[j], r) /\ r.state = row[j].state
  <2>1. /\ Keeps(row[j], [row[j] EXCEPT !.lapsed = TRUE])
        /\ [row[j] EXCEPT !.lapsed = TRUE].state = row[j].state
    BY <1>1 DEF Keeps, JobRows
  <2>2. /\ Keeps(row[j], [row[j] EXCEPT !.waiting = FALSE])
        /\ [row[j] EXCEPT !.waiting = FALSE].state = row[j].state
    BY <1>1 DEF Keeps, JobRows
  <2>3. /\ Keeps(row[j], [row[j] EXCEPT !.overdue = TRUE])
        /\ [row[j] EXCEPT !.overdue = TRUE].state = row[j].state
    BY <1>1 DEF Keeps, JobRows
  <2>4. \/ row' = [row EXCEPT ![j] = [row[j] EXCEPT !.lapsed = TRUE]]
        \/ row' = [row EXCEPT ![j] = [row[j] EXCEPT !.waiting = FALSE]]
        \/ row' = [row EXCEPT ![j] = [row[j] EXCEPT !.overdue = TRUE]]
    BY Zenon DEF Clock, LeaseExpires, RetryDue, Ages, Become
  <2> QED
    BY <2>1, <2>2, <2>3, <2>4, Zenon
<1>5. /\ j \in Owned /\ r.state = "READY" => files[j] # {}
      /\ j \in Owned /\ Outputs(files[j]) # {} => r.state \in {"READY", "FAILED"}
  BY <1>4 DEF ReportsInv, FileInv, FilesAgree
<1>6. \A w \in Workers, k \in Jobs : Running(w, k)' => Running(w, k)
  BY <1>2 DEF Running
<1> QED
  BY <1>2, <1>3, <1>4, <1>5, <1>6, RowMoves

\* The claim of a report: a lease for a row without output, otherwise READY.
LEMMA ClaimKeeps ==
  ASSUME ReportsInv, NEW w \in Workers, NEW j \in Jobs, Claim(w, j)
  PROVE  ReportsInv'
<1>1. row[j] \in JobRows /\ row[j].state \in {"QUEUED", "GENERATING"}
  BY DEF ReportsInv, TypeOK, Claim, Claimable
<1>2. UNCHANGED <<files, completed, reviews, todo, agent, ledger, upload, posts>>
  BY DEF Claim, remote
<1>3. reviews' \subseteq Jobs \X {"FAILED", "MAX_AGE", "AMBIGUOUS"}
  BY <1>2 DEF ReportsInv, TypeOK
<1>4. j \in Owned => Outputs(files[j]) = {}
  BY <1>1, NoOutputYet
<1>5. CASE HasReadyOutput(files[j])
  <2>1. row' = [row EXCEPT ![j] = MarkedReady(row[j])] /\ worker' = worker
    BY <1>5 DEF Claim, Become
  <2>2. Keeps(row[j], MarkedReady(row[j])) /\ MarkedReady(row[j]).state = "READY"
    BY <1>1, EndShape
  <2>3. j \notin Owned
    BY <1>4, <1>5 DEF HasReadyOutput
  <2>4. worker' \in [Workers -> Executions]
    BY <2>1 DEF ReportsInv, TypeOK
  <2>5. \A v \in Workers, k \in Jobs : Running(v, k)' => Running(v, k)
    BY <2>1 DEF Running
  <2> QED
    BY <1>2, <1>3, <2>1, <2>2, <2>3, <2>4, <2>5, RowMoves
<1>6. CASE ~HasReadyOutput(files[j])
  <2> DEFINE run == [phase |-> "running", job |-> j, attempt |-> row[j].attempt + 1]
  <2>1. /\ row' = [row EXCEPT ![j] = Claimed(row[j], w)]
        /\ worker' = IF row[j].attempt >= MaxAttempts THEN worker ELSE [worker EXCEPT ![w] = run]
    BY <1>6 DEF Claim, Become
  <2>2. Keeps(row[j], Claimed(row[j], w)) /\ Claimed(row[j], w).state \in {"GENERATING", "FAILED"}
    BY <1>1, ClaimedShape
  <2>3. worker' \in [Workers -> Executions]
    <3>1. CASE row[j].attempt >= MaxAttempts
      BY <2>1, <3>1 DEF ReportsInv, TypeOK
    <3>2. CASE ~(row[j].attempt >= MaxAttempts)
      <4>1. row[j].attempt + 1 \in 1 .. MaxAttempts
        BY <1>1, <3>2, ReportStoreAssumption DEF JobRows
      <4>2. run \in Executions
        BY <4>1 DEF Executions
      <4> QED
        BY <2>1, <3>2, <4>2 DEF ReportsInv, TypeOK
    <3> QED
      BY <3>1, <3>2
  <2>4. \A v \in Workers, k \in Jobs : Running(v, k)' =>
          Running(v, k) \/ row[k].state \notin {"READY", "FAILED"}
    BY <1>1, <2>1 DEF Running, ReportsInv, TypeOK
  <2> QED
    BY <1>2, <1>3, <1>4, <2>1, <2>2, <2>3, <2>4, RowMoves
<1> QED
  BY <1>5, <1>6

\* _handle_failure returns a GENERATING row to the queue or fails the report.
LEMMA FailureKeeps ==
  ASSUME ReportsInv, NEW w \in Workers, HandleFailure(w)
  PROVE  ReportsInv'
<1> DEFINE j == worker[w].job
<1>1. j \in Jobs /\ row[j] \in JobRows
  BY RunShape DEF ReportsInv, TypeOK, HandleFailure
<1>2. UNCHANGED <<files, completed, todo, agent, ledger, upload, posts>>
      /\ worker' = [worker EXCEPT ![w] = Idle]
  BY DEF HandleFailure, remote
<1>3. worker' \in [Workers -> Executions]
  BY <1>2 DEF ReportsInv, TypeOK, Executions
<1>4. \A v \in Workers, k \in Jobs : Running(v, k)' => Running(v, k)
  BY <1>2 DEF Running, ReportsInv, TypeOK, Idle
<1>5. CASE Retries(worker[w].class, row[j])
  <2>1. row' = [row EXCEPT ![j] = Retried(row[j])] /\ reviews' = reviews
    BY <1>5 DEF HandleFailure, Become
  <2>2. row[j].semantic < MaxSemantic
    BY <1>5 DEF Retries
  <2>3. /\ Keeps(row[j], Retried(row[j]))
        /\ row[j].state = "GENERATING" => Retried(row[j]).state = "QUEUED"
        /\ row[j].state # "GENERATING" => Retried(row[j]).state = row[j].state
    BY <1>1, <2>2, RetriedShape
  <2>4. /\ j \in Owned /\ Retried(row[j]).state = "READY" => files[j] # {}
        /\ j \in Owned /\ Outputs(files[j]) # {} => Retried(row[j]).state \in {"READY", "FAILED"}
    BY <2>3 DEF ReportsInv, FileInv, FilesAgree
  <2>5. Retried(row[j]).state # "NONE" \/ Retried(row[j]).state = row[j].state
    BY <2>3
  <2>6. reviews' \subseteq Jobs \X {"FAILED", "MAX_AGE", "AMBIGUOUS"}
    BY <2>1 DEF ReportsInv, TypeOK
  <2> QED
    BY <1>1, <1>2, <1>3, <1>4, <2>1, <2>3, <2>4, <2>5, <2>6, RowMoves
<1>6. CASE ~Retries(worker[w].class, row[j])
  <2>1. row' = [row EXCEPT ![j] = Failed(row[j])] /\ reviews' = Reviewed({j}, "FAILED")
    BY <1>6 DEF HandleFailure, Become
  <2>2. Keeps(row[j], Failed(row[j])) /\ Failed(row[j]).state = "FAILED"
    BY <1>1, EndShape
  <2>3. reviews' \subseteq Jobs \X {"FAILED", "MAX_AGE", "AMBIGUOUS"}
    BY <1>1, <2>1 DEF ReportsInv, TypeOK, Reviewed, Reviewable
  <2> QED
    BY <1>1, <1>2, <1>3, <1>4, <2>1, <2>2, <2>3, RowMoves
<1> QED
  BY <1>5, <1>6

\* A step that leaves every row, file, agent job and request to the remote
\* dispenser alone.
LEMMA WorkerMoves ==
  ASSUME ReportsInv, UNCHANGED <<row, files, completed, todo, agent, ledger, upload, posts>>,
         worker' \in [Workers -> Executions],
         reviews' \subseteq Jobs \X {"FAILED", "MAX_AGE", "AMBIGUOUS"},
         \A w \in Workers, k \in Jobs : Running(w, k)' => Running(w, k)
  PROVE  ReportsInv'
<1>1. TypeOK'
  BY DEF ReportsInv, TypeOK
<1>2. CreateInv' /\ StepInv' /\ FileInv'
  BY CreateFrame, StepFrame, FileFrame DEF ReportsInv
<1> QED
  BY <1>1, <1>2 DEF ReportsInv

LEMMA ClassShape == \A x : ClassOf(x) \in Classes
  BY DEF ClassOf, Classes

LEMMA ExecutionFailsKeeps ==
  ASSUME ReportsInv, NEW w \in Workers, ExecutionFails(w)
  PROVE  ReportsInv'
<1>1. PICK x : Fails(w, x)
  BY DEF ExecutionFails
<1>2. UNCHANGED <<row, files, completed, reviews, todo, agent, ledger, upload, posts>>
  BY DEF ExecutionFails, control, remote
<1>3. PICK c \in Classes : worker' = [worker EXCEPT ![w] =
        [phase |-> "failing", job |-> worker[w].job, class |-> c]]
  BY <1>1, ClassShape DEF Fails
<1>4. worker[w].job \in Jobs
  BY RunShape DEF ExecutionFails, ReportsInv
<1>5. worker' \in [Workers -> Executions]
  BY <1>3, <1>4 DEF ReportsInv, TypeOK, Executions
<1>6. \A v \in Workers, k \in Jobs : Running(v, k)' => Running(v, k)
  BY <1>3 DEF Running, ReportsInv, TypeOK
<1>7. reviews' \subseteq Jobs \X {"FAILED", "MAX_AGE", "AMBIGUOUS"}
  BY <1>2 DEF ReportsInv, TypeOK
<1> QED
  BY <1>2, <1>5, <1>6, <1>7, WorkerMoves

LEMMA CrashKeeps ==
  ASSUME ReportsInv, NEW w \in Workers, Crash(w)
  PROVE  ReportsInv'
<1>1. UNCHANGED <<row, files, completed, reviews, todo, agent, ledger, upload, posts>>
      /\ worker' = [worker EXCEPT ![w] = Idle]
  BY DEF Crash, control, remote
<1>2. worker' \in [Workers -> Executions]
  BY <1>1 DEF ReportsInv, TypeOK, Executions
<1>3. \A v \in Workers, k \in Jobs : Running(v, k)' => Running(v, k)
  BY <1>1 DEF Running, ReportsInv, TypeOK, Idle
<1>4. reviews' \subseteq Jobs \X {"FAILED", "MAX_AGE", "AMBIGUOUS"}
  BY <1>1 DEF ReportsInv, TypeOK
<1> QED
  BY <1>1, <1>2, <1>3, <1>4, WorkerMoves

LEMMA ReviewKeeps ==
  ASSUME ReportsInv, SchedulerTick \/ \E c \in reviews : ResolveReview(c)
  PROVE  ReportsInv'
<1>1. UNCHANGED <<row, files, completed, worker, todo, agent, ledger, upload, posts>>
  BY DEF SchedulerTick, ResolveReview, remote
<1>2. worker' \in [Workers -> Executions]
  BY <1>1 DEF ReportsInv, TypeOK
<1>3. \A v \in Workers, k \in Jobs : Running(v, k)' => Running(v, k)
  BY <1>1 DEF Running
<1>4. reviews' \subseteq Jobs \X {"FAILED", "MAX_AGE", "AMBIGUOUS"}
  BY DEF ReportsInv, TypeOK, SchedulerTick, ResolveReview, Reviewed, Reviewable
<1> QED
  BY <1>1, <1>2, <1>3, <1>4, WorkerMoves

LEMMA OutputShape ==
  ASSUME NEW n \in 1 .. MaxAttempts
  PROVE  /\ OutputOf(n) \in Artifacts /\ OutputOf(n).role = "OUTPUT" /\ OutputOf(n).aad = n
         /\ ArchiveOf \in Artifacts /\ ArchiveOf.role # "OUTPUT"
  BY DEF OutputOf, ArchiveOf, Artifacts

\* A tenant's report is published at most once: the completion of a first
\* output names a worker that will not run the job again.
LEMMA PublishedOnce ==
  ASSUME ReportsInv, NEW w \in Workers, NEW j \in Owned, Running(w, j), AuditAccepts(j, w)
  PROVE  Outputs(files[j]) = {}
<1> SUFFICES ASSUME Outputs(files[j]) # {} PROVE FALSE
  OBVIOUS
<1>1. completed[j].by \in Workers /\ ~Running(completed[j].by, j)
  BY DEF ReportsInv, FileInv, FilesAgree
<1>2. completed[j] # NoEvent
  BY <1>1, ReportStoreAssumption DEF NoEvent
<1>3. completed[j] = Completion(j, w)
  BY <1>2 DEF AuditAccepts
<1>4. completed[j].by = w
  BY <1>3 DEF Completion
<1> QED
  BY <1>1, <1>4

LEMMA PublishKeeps ==
  ASSUME ReportsInv, NEW w \in Workers, Publish(w)
  PROVE  ReportsInv'
<1> DEFINE j == worker[w].job
           n == worker[w].attempt
           r == MarkedReady(Snapshotted(row[j], n))
<1>1. j \in Jobs /\ n \in 1 .. MaxAttempts /\ row[j] \in JobRows /\ Running(w, j)
  BY RunShape DEF ReportsInv, TypeOK, Publish, Running
<1>2. IsLocal(row[j]) /\ AuditAccepts(j, w)
  BY DEF Publish, SourceSucceeds, KnownType
<1>3. r \in JobRows /\ r.state = "READY" /\ r.origin = row[j].origin /\ r.snapshot = n
  <2>1. /\ Snapshotted(row[j], n) \in JobRows
        /\ Snapshotted(row[j], n).origin = row[j].origin
        /\ Snapshotted(row[j], n).snapshot = n
    BY <1>1, ReportStoreAssumption DEF Snapshotted, JobRows
  <2> QED
    BY <2>1, EndShape DEF Keeps
<1>4. /\ files' = [files EXCEPT ![j] = Finalized(files[j], OutputOf(n))]
      /\ row' = [row EXCEPT ![j] = r]
      /\ completed' = IF j \in Owned THEN [completed EXCEPT ![j] = Completion(j, w)] ELSE completed
      /\ worker' = [worker EXCEPT ![w] = Idle]
      /\ UNCHANGED <<reviews, todo, agent, ledger, upload, posts>>
  BY DEF Publish, Become, remote
<1> HIDE DEF j, n, r
<1>5. OutputOf(n) \in Artifacts /\ OutputOf(n).role = "OUTPUT" /\ OutputOf(n).aad = n
  BY <1>1, OutputShape
<1>6. Completion(j, w) \in [by : Workers \cup {NoWorker, "report-worker"}, attempt : 0 .. MaxAttempts]
  BY <1>1 DEF Completion, JobRows
<1>7. TypeOK'
  <2>1. Finalized(files[j], OutputOf(n)) \subseteq Artifacts
    BY <1>1, <1>5 DEF Finalized, ReportsInv, TypeOK
  <2>2. files' \in [Jobs -> SUBSET Artifacts]
    BY <1>4, <2>1 DEF ReportsInv, TypeOK
  <2>3. completed' \in [Jobs -> [by : Workers \cup {NoWorker, "report-worker"},
                                 attempt : 0 .. MaxAttempts]]
    BY <1>1, <1>4, <1>6 DEF ReportsInv, TypeOK
  <2>4. row' \in [Jobs -> JobRows]
    BY <1>3, <1>4 DEF ReportsInv, TypeOK
  <2>5. worker' \in [Workers -> Executions]
    BY <1>4 DEF ReportsInv, TypeOK, Executions
  <2> QED
    BY <1>4, <2>2, <2>3, <2>4, <2>5 DEF ReportsInv, TypeOK
<1>8. CreateInv'
  BY <1>4, CreateFrame DEF ReportsInv
<1>9. StepInv'
  BY <1>1, <1>3, <1>4, StepRow
<1>10. FileInv'
  <2> SUFFICES ASSUME NEW k \in Owned PROVE FilesAgree(k, row[k])'
    BY DEF FileInv
  <2>1. FilesAgree(k, row[k]) /\ k \in Jobs
    BY ReportsAssumption DEF ReportsInv, FileInv
  <2>2. CASE k = j
    <3>1. Outputs(files[k]) = {}
      BY <1>1, <1>2, <2>2, PublishedOnce
    <3>2. files'[k] = files[k] \cup {OutputOf(n)}
      <4>1. ~\E g \in files[k] : g.role = OutputOf(n).role /\ g.key = OutputOf(n).key
        BY <1>5, <3>1 DEF Outputs
      <4> QED
        BY <1>4, <2>1, <2>2, <4>1 DEF Finalized, ReportsInv, TypeOK
    <3>3. Outputs(files[k])' = {OutputOf(n)}
      BY <1>5, <3>1, <3>2 DEF Outputs
    <3>4. row'[k] = r
      BY <1>1, <1>4, <2>2 DEF ReportsInv, TypeOK
    <3>5. completed'[k].by = w
      BY <1>1, <1>4, <2>2 DEF Completion, ReportsInv, TypeOK
    <3>6. ~Running(w, k)'
      BY <1>4 DEF Running, Idle, ReportsInv, TypeOK
    <3> QED
      BY <1>2, <1>3, <1>5, <2>2, <3>2, <3>3, <3>4, <3>5, <3>6 DEF FilesAgree, IsLocal
  <2>3. CASE k # j
    <3>1. row'[k] = row[k] /\ files'[k] = files[k] /\ completed'[k] = completed[k]
      BY <1>4, <2>1, <2>3 DEF ReportsInv, TypeOK
    <3>2. \A v \in Workers : Running(v, k)' => Running(v, k)
      BY <1>4 DEF Running, Idle, ReportsInv, TypeOK
    <3> QED
      BY <2>1, <3>1, <3>2 DEF FilesAgree
  <2> QED
    BY <2>2, <2>3
<1> QED
  BY <1>7, <1>8, <1>9, <1>10 DEF ReportsInv

----------------------------------------------------------------------------
(* The agent                                                               *)

UploadRows == [state : {"NONE", "PREPARED", "COMPLETED"}, sized : BOOLEAN,
               bytes : {"none", "a", "b"}]

\* The agent is at another point of its run.
LEMMA AgentMoves ==
  ASSUME ReportsInv, agent' \in AgentRuns,
         agent' # Idle => todo[agent'.job] = agent'.step,
         agent'.phase = "answered" /\ agent'.outcome \in Repeats => agent'.step.n < MaxPolls,
         ledger' \in [Jobs -> Entries], posts' \in [Jobs -> Nat], CreateInv',
         UNCHANGED <<row, files, completed, worker, reviews, todo, upload>>
  PROVE  ReportsInv'
<1>1. TypeOK'
  BY DEF ReportsInv, TypeOK
<1>2. StepInv'
  BY DEF ReportsInv, StepInv
<1>3. FileInv'
  BY FileFrame DEF ReportsInv, Running
<1> QED
  BY <1>1, <1>2, <1>3 DEF ReportsInv

\* An answer to the open step of a job.
LEMMA AnsweredShape ==
  ASSUME NEW j \in Jobs, todo[j] \in Steps, NEW o \in Outcomes, Answered(j, o)
  PROVE  /\ agent' \in AgentRuns /\ agent'.phase = "answered" /\ agent' # Idle
         /\ agent'.job = j /\ agent'.step = todo[j] /\ agent'.outcome = o
         /\ o \in Repeats => agent'.step.n < MaxPolls
  BY DEF Answered, AgentRuns, Idle

LEMMA PreviousShape ==
  ASSUME NEW e \in Entries, NEW n
  PROVE  /\ PreviousCreate(e, n) \in Outcomes \cup {"none"}
         /\ PreviousCreate(e, n) = "none" => e.state = "NONE"
  BY DEF PreviousCreate, Entries, NoEntry, Outcomes, CreateOutcomes

LEMMA FetchKeeps ==
  ASSUME ReportsInv, NEW j \in Jobs, Fetch(j)
  PROVE  ReportsInv'
<1> DEFINE t == todo[j]
           previous == PreviousCreate(ledger[j], t.n)
<1>1. t \in Steps /\ ledger[j] \in Entries
  BY DEF Fetch, ReportsInv, TypeOK
<1>2. UNCHANGED <<row, files, completed, worker, reviews, todo, upload, posts>>
  BY DEF Fetch, control
<1>3. posts' \in [Jobs -> Nat]
  BY <1>2 DEF ReportsInv, TypeOK
<1>4. CASE agent' = [phase |-> "executing", job |-> j, step |-> t] /\ ledger' = ledger
  <2>1. /\ agent' \in AgentRuns /\ agent'.phase = "executing"
        /\ agent'.job = j /\ agent'.step = t
    BY <1>1, <1>4 DEF AgentRuns
  <2>2. CreateInv'
    BY <1>2, <1>4, <2>1 DEF ReportsInv, CreateInv
  <2>3. ledger' \in [Jobs -> Entries]
    BY <1>4 DEF ReportsInv, TypeOK
  <2> QED
    BY <1>2, <1>3, <2>1, <2>2, <2>3, AgentMoves
<1>5. CASE /\ t.step = "CREATE" /\ previous = "none"
           /\ agent' = [phase |-> "reserved", job |-> j, step |-> t]
           /\ ledger' = [ledger EXCEPT ![j] = [state |-> "RESERVED", n |-> t.n, outcome |-> "none"]]
  <2>1. /\ agent' \in AgentRuns /\ agent'.phase = "reserved"
        /\ agent'.job = j /\ agent'.step = t
    BY <1>1, <1>5 DEF AgentRuns
  <2>2. [state |-> "RESERVED", n |-> t.n, outcome |-> "none"] \in Entries
    BY <1>1 DEF Entries, Steps
  <2>3. ledger' \in [Jobs -> Entries]
    BY <1>5, <2>2 DEF ReportsInv, TypeOK
  <2>4. posts[j] = 0
    BY <1>1, <1>5, PreviousShape DEF ReportsInv, CreateInv
  <2>5. /\ ledger'[j].state = "RESERVED"
        /\ \A k \in Jobs : ledger'[k].state = "NONE" => ledger[k].state = "NONE"
    BY <1>5 DEF ReportsInv, TypeOK
  <2>6. CreateInv'
    BY <1>2, <2>1, <2>4, <2>5 DEF ReportsInv, CreateInv
  <2> QED
    BY <1>2, <1>3, <2>1, <2>3, <2>6, AgentMoves
<1>6. CASE previous # "none" /\ Answered(j, previous) /\ ledger' = ledger
  <2>1. previous \in Outcomes
    BY <1>1, <1>6, PreviousShape
  <2>2. /\ agent' \in AgentRuns /\ agent'.phase = "answered" /\ agent'.job = j
        /\ agent'.step = todo[j] /\ agent'.outcome = previous
        /\ previous \in Repeats => agent'.step.n < MaxPolls
    BY <1>1, <1>6, <2>1, AnsweredShape
  <2>3. CreateInv'
    BY <1>2, <1>6, <2>2 DEF ReportsInv, CreateInv
  <2>4. ledger' \in [Jobs -> Entries]
    BY <1>6 DEF ReportsInv, TypeOK
  <2> QED
    BY <1>2, <1>3, <2>2, <2>3, <2>4, AgentMoves
<1> QED
  BY <1>4, <1>5, <1>6 DEF Fetch

\* The POST happens under the reservation, so no earlier one happened.
LEMMA PostKeeps ==
  ASSUME ReportsInv, PostCreate
  PROVE  ReportsInv'
<1> DEFINE j == agent.job
<1>1. j \in Jobs /\ agent.step \in Steps /\ agent # Idle /\ todo[j] = agent.step
  BY AgentShape DEF PostCreate, ReportsInv, StepInv
<1>2. posts[j] = 0 /\ ledger[j].state # "NONE"
  BY DEF PostCreate, ReportsInv, CreateInv
<1>3. UNCHANGED <<row, files, completed, worker, reviews, todo, ledger, upload>>
  BY DEF PostCreate, control
<1>4. posts' \in {posts, [posts EXCEPT ![j] = @ + 1]}
  BY DEF PostCreate
<1>5. posts' \in [Jobs -> Nat]
  BY <1>1, <1>4 DEF ReportsInv, TypeOK
<1>6. /\ \A k \in Jobs : posts'[k] \in {0, 1}
      /\ \A k \in Jobs : ledger[k].state = "NONE" => posts'[k] = 0
  BY <1>1, <1>2, <1>4 DEF ReportsInv, TypeOK, CreateInv
<1>7. /\ agent' \in AgentRuns /\ agent'.phase # "reserved"
      /\ agent' # Idle /\ agent'.job = j /\ agent'.step = todo[j]
      /\ agent'.phase = "answered" /\ agent'.outcome \in Repeats => agent'.step.n < MaxPolls
  <2>1. CASE Answered(j, "MANUAL_REVIEW")
    <3>1. "MANUAL_REVIEW" \in Outcomes
      BY DEF Outcomes, CreateOutcomes
    <3> QED
      BY <1>1, <2>1, <3>1, AnsweredShape
  <2>2. CASE \E o \in CreateOutcomes : Posted(j, o)
    <3>1. PICK o \in CreateOutcomes :
            agent' = [phase |-> "posted", job |-> j, step |-> agent.step, outcome |-> o]
      BY <2>2 DEF Posted
    <3> QED
      BY <1>1, <3>1 DEF AgentRuns, Idle
  <2> QED
    BY <2>1, <2>2 DEF PostCreate, CreateOutcomes
<1>8. CreateInv'
  BY <1>3, <1>6, <1>7 DEF CreateInv
<1>9. ledger' \in [Jobs -> Entries]
  BY <1>3 DEF ReportsInv, TypeOK
<1> QED
  BY <1>3, <1>5, <1>7, <1>8, <1>9, AgentMoves

LEMMA CompleteKeeps ==
  ASSUME ReportsInv, CompleteCreate
  PROVE  ReportsInv'
<1> DEFINE j == agent.job
           e == [state |-> "COMPLETED", n |-> agent.step.n, outcome |-> agent.outcome]
<1>1. j \in Jobs /\ agent.step \in Steps /\ todo[j] = agent.step /\ agent.outcome \in CreateOutcomes
  BY AgentShape DEF CompleteCreate, ReportsInv, StepInv
<1>2. e \in Entries /\ e.state # "NONE"
  BY <1>1 DEF Entries, Steps
<1>3. /\ ledger' = [ledger EXCEPT ![j] = e] /\ Answered(j, agent.outcome)
      /\ UNCHANGED <<row, files, completed, worker, reviews, todo, upload, posts>>
  BY DEF CompleteCreate, control
<1> HIDE DEF e
<1>4. agent.outcome \in Outcomes
  BY <1>1 DEF Outcomes
<1>5. /\ agent' \in AgentRuns /\ agent'.phase = "answered" /\ agent'.job = j
      /\ agent'.step = todo[j] /\ agent'.outcome = agent.outcome
      /\ agent.outcome \in Repeats => agent'.step.n < MaxPolls
  BY <1>1, <1>3, <1>4, AnsweredShape
<1>6. ledger' \in [Jobs -> Entries] /\ posts' \in [Jobs -> Nat]
  BY <1>2, <1>3 DEF ReportsInv, TypeOK
<1>7. \A k \in Jobs : ledger'[k].state = "NONE" => ledger[k].state = "NONE"
  BY <1>2, <1>3 DEF ReportsInv, TypeOK
<1>8. CreateInv'
  BY <1>3, <1>5, <1>7 DEF ReportsInv, CreateInv
<1> QED
  BY <1>3, <1>5, <1>6, <1>8, AgentMoves

\* An answer of the agent to a step that is no CREATE.
LEMMA AnswerKeeps ==
  ASSUME ReportsInv, agent.phase = "executing", NEW o \in Outcomes, Answered(agent.job, o),
         UNCHANGED <<row, files, completed, worker, reviews, todo, ledger, upload, posts>>
  PROVE  ReportsInv'
<1>1. agent.job \in Jobs /\ agent.step \in Steps /\ todo[agent.job] = agent.step
  BY AgentShape DEF ReportsInv, StepInv
<1>2. /\ agent' \in AgentRuns /\ agent'.phase = "answered" /\ agent'.job = agent.job
      /\ agent'.step = todo[agent.job] /\ agent'.outcome = o
      /\ o \in Repeats => agent'.step.n < MaxPolls
  BY <1>1, AnsweredShape
<1>3. ledger' \in [Jobs -> Entries] /\ posts' \in [Jobs -> Nat]
  BY DEF ReportsInv, TypeOK
<1>4. CreateInv'
  BY <1>2 DEF ReportsInv, CreateInv
<1> QED
  BY <1>2, <1>3, <1>4, AgentMoves

LEMMA ReadKeeps ==
  ASSUME ReportsInv, ReadStep
  PROVE  ReportsInv'
<1>1. PICK o \in Observations(agent.step.step) : Answered(agent.job, o)
  BY DEF ReadStep
<1>2. o \in Outcomes
  BY DEF Observations, Outcomes, CreateOutcomes
<1> QED
  BY <1>1, <1>2, AnswerKeeps DEF ReadStep, control

\* An archive is no output: the published file and its row are as they were.
LEMMA UploadKeeps ==
  ASSUME ReportsInv, agent.phase = "executing", NEW bytes \in {"a", "b"},
         Uploads(agent.job, bytes), Ingests(upload[agent.job], bytes),
         UNCHANGED <<row, completed, worker, reviews, todo, ledger, posts>>
  PROVE  ReportsInv'
<1> DEFINE j == agent.job
           o == "REPORT_ARTIFACT_UPLOADED"
<1>1. j \in Jobs /\ agent.step \in Steps /\ todo[j] = agent.step
  BY AgentShape DEF ReportsInv, StepInv
<1>2. /\ files' = [files EXCEPT ![j] = Finalized(files[j], ArchiveOf)]
      /\ upload' = [upload EXCEPT ![j] = Ingested(upload[j], bytes)]
      /\ Answered(j, o)
  BY DEF Uploads
<1>3. o \in Outcomes
  BY DEF Outcomes
<1>4. /\ agent' \in AgentRuns /\ agent'.phase = "answered" /\ agent'.job = j
      /\ agent'.step = todo[j] /\ agent'.outcome = o
      /\ o \in Repeats => agent'.step.n < MaxPolls
  BY <1>1, <1>2, <1>3, AnsweredShape
<1>5. ArchiveOf \in Artifacts /\ ArchiveOf.role # "OUTPUT"
  BY DEF ArchiveOf, Artifacts
<1>6. TypeOK'
  <2>1. files' \in [Jobs -> SUBSET Artifacts]
    BY <1>2, <1>5 DEF ReportsInv, TypeOK, Finalized
  <2>2. Ingested(upload[j], bytes) \in UploadRows
    BY <1>1, Zenon DEF Ingested, UploadRows, ReportsInv, TypeOK
  <2>3. upload' \in [Jobs -> UploadRows]
    BY <1>2, <2>2 DEF ReportsInv, TypeOK, UploadRows
  <2> QED
    BY <1>4, <2>1, <2>3 DEF ReportsInv, TypeOK, UploadRows
<1>7. CreateInv'
  BY <1>4 DEF ReportsInv, CreateInv
<1>8. StepInv'
  BY <1>4 DEF ReportsInv, StepInv
<1>9. FileInv'
  <2> SUFFICES ASSUME NEW k \in Owned PROVE FilesAgree(k, row[k])'
    BY DEF FileInv
  <2>1. FilesAgree(k, row[k]) /\ k \in Jobs
    BY ReportsAssumption DEF ReportsInv, FileInv
  <2>2. Outputs(files'[k]) = Outputs(files[k]) /\ (files[k] # {} => files'[k] # {})
    BY <1>2, <1>5, <2>1 DEF Outputs, Finalized, ReportsInv, TypeOK
  <2> QED
    BY <2>1, <2>2 DEF FilesAgree, Running
<1> QED
  BY <1>6, <1>7, <1>8, <1>9 DEF ReportsInv

LEMMA DownloadKeeps ==
  ASSUME ReportsInv, Download
  PROVE  ReportsInv'
<1>1. agent.phase = "executing"
      /\ UNCHANGED <<row, completed, worker, reviews, todo, ledger, posts>>
  BY DEF Download
<1>2. CASE \E bytes \in {"a", "b"} : Uploads(agent.job, bytes) /\ Ingests(upload[agent.job], bytes)
  BY <1>1, <1>2, UploadKeeps
<1>3. CASE \E o \in DownloadFailures \cup {"MANUAL_REVIEW"} :
             Answered(agent.job, o) /\ UNCHANGED <<files, upload>>
  <2>1. PICK o \in DownloadFailures \cup {"MANUAL_REVIEW"} :
             Answered(agent.job, o) /\ UNCHANGED <<files, upload>>
    BY <1>3
  <2>2. o \in Outcomes
    BY DEF DownloadFailures, Outcomes, CreateOutcomes
  <2> QED
    BY <1>1, <2>1, <2>2, AnswerKeeps
<1> QED
  BY <1>2, <1>3 DEF Download, Uploads

LEMMA AgentCrashKeeps ==
  ASSUME ReportsInv, AgentCrash
  PROVE  ReportsInv'
<1>1. agent' = Idle /\ UNCHANGED <<row, files, completed, worker, reviews, todo, ledger, upload, posts>>
  BY DEF AgentCrash, control
<1>2. agent' \in AgentRuns /\ agent'.phase = "idle"
  BY <1>1 DEF AgentRuns, Idle
<1>3. ledger' \in [Jobs -> Entries] /\ posts' \in [Jobs -> Nat]
  BY <1>1 DEF ReportsInv, TypeOK
<1>4. CreateInv'
  BY <1>1, <1>2 DEF ReportsInv, CreateInv
<1> QED
  BY <1>1, <1>2, <1>3, <1>4, AgentMoves

LEMMA NextStepShape ==
  ASSUME NEW t \in Steps, NEW o, o \in Repeats => t.n < MaxPolls
  PROVE  NextStep(t, o) \in Steps \cup {NoStep}
<1>1. CASE o \in Repeats
  <2>1. t.n + 1 \in 0 .. MaxPolls
    BY <1>1, ReportsAssumption DEF Steps
  <2>2. PICK n \in 0 .. MaxPolls : n = t.n + 1
    BY <2>1
  <2>3. NextStep(t, o) = [t EXCEPT !.n = n]
    BY <1>1, <2>2 DEF NextStep, Repeats
  <2> QED
    BY <2>3 DEF Steps
<1>2. CASE o \notin Repeats
  BY <1>2, ReportsAssumption DEF NextStep, Steps, AgentSteps
<1> QED
  BY <1>1, <1>2

\* The row after a result is the row as it was, or at an end.
LEMMA RowAfterShape ==
  ASSUME ReportsInv, NEW j \in Jobs, NEW t, NEW o
  PROVE  /\ Keeps(row[j], RowAfter(j, t, o))
         /\ NextStep(t, o) # NoStep => RowAfter(j, t, o) = row[j]
         /\ RowAfter(j, t, o).state # "NONE" \/ RowAfter(j, t, o).state = row[j].state
         /\ RowAfter(j, t, o).state = "READY" => row[j].state = "READY" \/ files[j] # {}
<1>1. row[j] \in JobRows /\ Keeps(row[j], row[j])
  BY DEF ReportsInv, TypeOK, Keeps
<1>2. /\ Keeps(row[j], MarkedReady(row[j])) /\ MarkedReady(row[j]).state = "READY"
      /\ Keeps(row[j], Failed(row[j])) /\ Failed(row[j]).state = "FAILED"
      /\ Keeps(row[j], FailedAmbiguous(row[j])) /\ FailedAmbiguous(row[j]).state = "FAILED"
  BY <1>1, EndShape
<1>3. Arrived(j, o) => files[j] # {}
  BY DEF Arrived, Archives
<1>4. \/ RowAfter(j, t, o) = row[j]
      \/ NextStep(t, o) = NoStep /\ RowAfter(j, t, o) = FailedAmbiguous(row[j])
      \/ NextStep(t, o) = NoStep /\ RowAfter(j, t, o) = MarkedReady(row[j]) /\ Arrived(j, o)
      \/ NextStep(t, o) = NoStep /\ RowAfter(j, t, o) = Failed(row[j])
  <2>1. o = "REMOTE_CREATE_AMBIGUOUS" \/ Arrived(j, o) => NextStep(t, o) = NoStep
    BY DEF NextStep, Repeats, Arrived
  <2>2. o = "REMOTE_CREATE_AMBIGUOUS" => ~Arrived(j, o)
    BY DEF Arrived
  <2> QED
    BY <2>1, <2>2 DEF RowAfter
<1> QED
  BY <1>1, <1>2, <1>3, <1>4

LEMMA SubmitKeeps ==
  ASSUME ReportsInv, Submit
  PROVE  ReportsInv'
<1> DEFINE j == agent.job
           next == NextStep(agent.step, agent.outcome)
           r == RowAfter(j, agent.step, agent.outcome)
<1>1. /\ j \in Jobs /\ agent.step \in Steps /\ todo[j] = agent.step
      /\ agent.outcome \in Repeats => agent.step.n < MaxPolls
  BY AgentShape DEF Submit, ReportsInv, StepInv
<1>2. /\ todo' = [todo EXCEPT ![j] = next]
      /\ row' = [row EXCEPT ![j] = r]
      /\ \/ upload' = upload
         \/ \E sized \in BOOLEAN : upload' = [upload EXCEPT ![j] = Prepared(sized)]
      /\ completed' \in {completed, [completed EXCEPT ![j] = Completion(j, "report-worker")]}
      /\ agent' = Idle
      /\ UNCHANGED <<files, worker, reviews, ledger, posts>>
  BY DEF Submit, Become
<1>3. next \in Steps \cup {NoStep}
  BY <1>1, NextStepShape
<1>4. /\ Keeps(row[j], r)
      /\ next # NoStep => r = row[j]
      /\ r.state # "NONE" \/ r.state = row[j].state
      /\ r.state = "READY" => row[j].state = "READY" \/ files[j] # {}
  BY <1>1, RowAfterShape
<1> HIDE DEF j, next, r
<1>5. row[j].state # "NONE" /\ ~IsLocal(row[j])
  BY <1>1, NoStepApart DEF ReportsInv, StepInv
<1>6. TypeOK'
  <2>1. row' \in [Jobs -> JobRows] /\ todo' \in [Jobs -> Steps \cup {NoStep}]
    BY <1>2, <1>3, <1>4 DEF ReportsInv, TypeOK, Keeps
  <2>2. Completion(j, "report-worker") \in
          [by : Workers \cup {NoWorker, "report-worker"}, attempt : 0 .. MaxAttempts]
    BY <1>1 DEF Completion, ReportsInv, TypeOK, JobRows
  <2>3. completed' \in [Jobs -> [by : Workers \cup {NoWorker, "report-worker"},
                                 attempt : 0 .. MaxAttempts]]
    BY <1>2, <2>2 DEF ReportsInv, TypeOK
  <2>4. \A sized \in BOOLEAN : Prepared(sized) \in UploadRows
    BY DEF Prepared, UploadRows
  <2>5. upload' \in [Jobs -> UploadRows]
    BY <1>2, <2>4 DEF ReportsInv, TypeOK, UploadRows
  <2>6. agent' \in AgentRuns
    BY <1>2 DEF AgentRuns
  <2> QED
    BY <1>2, <2>1, <2>3, <2>5, <2>6 DEF ReportsInv, TypeOK, UploadRows
<1>7. CreateInv'
  <2>1. agent'.phase = "idle"
    BY <1>2 DEF Idle
  <2> QED
    BY <1>2, <2>1 DEF ReportsInv, CreateInv
<1>8. StepInv'
  <2>1. \A k \in Jobs : todo'[k] # NoStep => row'[k].state # "NONE" /\ ~IsLocal(row'[k])
    BY <1>1, <1>2, <1>4, <1>5 DEF ReportsInv, TypeOK, StepInv
  <2>2. agent' = Idle /\ agent'.phase = "idle"
    BY <1>2 DEF Idle
  <2> QED
    BY <2>1, <2>2 DEF StepInv
<1>9. FileInv'
  <2> SUFFICES ASSUME NEW k \in Owned PROVE FilesAgree(k, row[k])'
    BY DEF FileInv
  <2>1. FilesAgree(k, row[k]) /\ k \in Jobs
    BY ReportsAssumption DEF ReportsInv, FileInv
  <2>2. CASE k = j
    <3>1. Outputs(files[k]) = {}
      BY <1>5, <2>1, <2>2 DEF FilesAgree
    <3>2. row'[k] = r /\ files' = files
      BY <1>2, <2>1, <2>2 DEF ReportsInv, TypeOK
    <3> QED
      BY <1>4, <2>1, <2>2, <3>1, <3>2 DEF FilesAgree
  <2>3. CASE k # j
    <3>1. row'[k] = row[k] /\ files' = files /\ completed'[k] = completed[k] /\ worker' = worker
      BY <1>2, <2>1, <2>3 DEF ReportsInv, TypeOK
    <3> QED
      BY <2>1, <3>1 DEF FilesAgree, Running
  <2> QED
    BY <2>2, <2>3
<1> QED
  BY <1>6, <1>7, <1>8, <1>9 DEF ReportsInv

----------------------------------------------------------------------------

LEMMA ReportsStart == Init => ReportsInv
<1> SUFFICES ASSUME Init PROVE ReportsInv
  OBVIOUS
<1>1. TypeOK
  <2>1. row \in [Jobs -> JobRows] /\ files \in [Jobs -> SUBSET Artifacts]
    BY NoRowShape DEF Init
  <2>2. completed \in [Jobs -> [by : Workers \cup {NoWorker, "report-worker"},
                                attempt : 0 .. MaxAttempts]]
    BY ReportStoreAssumption DEF Init, NoEvent
  <2>3. worker \in [Workers -> Executions] /\ agent \in AgentRuns
    BY DEF Init, Executions, AgentRuns
  <2>4. ledger \in [Jobs -> Entries] /\ posts \in [Jobs -> Nat]
    BY DEF Init, Entries
  <2>5. upload \in [Jobs -> UploadRows]
    BY DEF Init, NoUpload, UploadRows
  <2> QED
    BY <2>1, <2>2, <2>3, <2>4, <2>5 DEF TypeOK, Init, UploadRows
<1>2. CreateInv
  BY DEF Init, CreateInv, Idle
<1>3. StepInv
  BY DEF Init, StepInv, Idle
<1>4. FileInv
  BY NoRowShape, ReportsAssumption DEF Init, FileInv, FilesAgree, Outputs
<1> QED
  BY <1>1, <1>2, <1>3, <1>4 DEF ReportsInv

LEMMA ReportsStep == ReportsInv /\ [Next]_vars => ReportsInv'
<1> SUFFICES ASSUME ReportsInv, [Next]_vars PROVE ReportsInv'
  OBVIOUS
<1>1. CASE UNCHANGED vars
  <2>1. UNCHANGED <<row, files, completed, worker, reviews, todo, agent, ledger, upload, posts>>
    BY <1>1 DEF vars
  <2>2. worker' \in [Workers -> Executions]
        /\ reviews' \subseteq Jobs \X {"FAILED", "MAX_AGE", "AMBIGUOUS"}
    BY <2>1 DEF ReportsInv, TypeOK
  <2>3. \A w \in Workers, k \in Jobs : Running(w, k)' => Running(w, k)
    BY <2>1 DEF Running
  <2> QED
    BY <2>1, <2>2, <2>3, WorkerMoves
<1>2. ASSUME NEW j \in Jobs, RequestLocal(j) \/ RequestRemote(j) \/ Clock(j) \/ Fetch(j)
      PROVE  ReportsInv'
  BY <1>2, RequestLocalKeeps, RequestRemoteKeeps, ClockKeeps, FetchKeeps
<1>3. ASSUME NEW w \in Workers, Work(w) \/ Crash(w) \/ \E j \in Jobs : Claim(w, j)
      PROVE  ReportsInv'
  BY <1>3, PublishKeeps, ExecutionFailsKeeps, FailureKeeps, CrashKeeps, ClaimKeeps DEF Work
<1>4. CASE AgentStep \/ AgentCrash
  BY <1>4, PostKeeps, CompleteKeeps, ReadKeeps, DownloadKeeps, SubmitKeeps, AgentCrashKeeps
     DEF AgentStep
<1> QED
  BY <1>1, <1>2, <1>3, <1>4, ReviewKeeps DEF Next

\* The inductive invariant: rows, leases, artifacts, agent jobs and the ledger
\* agree in every state of report_execution, ReportDownloadService and the agent.
THEOREM ReportsInvHolds == Spec => []ReportsInv
  BY ReportsStart, ReportsStep, PTL DEF Spec

\* Every row, artifact, execution and agent job of M11 has its listed shape.
THEOREM ReportsTyped == Spec => []TypeOK
<1>1. ReportsInv => TypeOK
  BY DEF ReportsInv
<1> QED
  BY <1>1, ReportsInvHolds, PTL

\* The replay ledger's reservation before the POST lets at most one CREATE of a
\* report reach the dispenser, for any number of crashes and repetitions.
THEOREM OneCreateEver == Spec => []AtMostOneCreate
<1>1. ReportsInv => AtMostOneCreate
  BY DEF ReportsInv, CreateInv, AtMostOneCreate
<1> QED
  BY <1>1, ReportsInvHolds, PTL

\* A READY report of a tenant has a file, and every file of it opens under the
\* snapshot its row names, for any workers, leases and late publications.
THEOREM ReadyOpens == Spec => []ReadyReportOpens
<1>1. ReportsInv => ReadyReportOpens
  <2> SUFFICES ASSUME ReportsInv, NEW j \in Owned, row[j].state = "READY"
      PROVE  files[j] # {} /\ \A f \in files[j] : Opens(row[j], f)
    BY DEF ReadyReportOpens
  <2>1. FilesAgree(j, row[j]) /\ files[j] \subseteq Artifacts
    BY ReportsAssumption DEF ReportsInv, FileInv, TypeOK
  <2>2. ASSUME NEW f \in files[j] PROVE Opens(row[j], f)
    <3>1. CASE f.role = "OUTPUT"
      BY <2>1, <3>1 DEF FilesAgree, Outputs, Opens, Decrypts, AadOf
    <3>2. CASE f.role # "OUTPUT"
      BY <2>1, <3>2 DEF Artifacts, Opens, Decrypts, AadOf
    <3> QED
      BY <3>1, <3>2
  <2> QED
    BY <2>1, <2>2 DEF FilesAgree
<1> QED
  BY <1>1, ReportsInvHolds, PTL

=============================================================================
