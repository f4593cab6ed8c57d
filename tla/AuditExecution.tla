--------------------------- MODULE AuditExecution ---------------------------
(***************************************************************************)
(* One audit from its creation to its final status: the API handlers that  *)
(* start, retry and cancel it, the background jobs they enqueue, and the   *)
(* pipelines that schedule, execute and post-process its jobs.             *)
(*                                                                         *)
(* The database is PostgreSQL at READ COMMITTED, and an action is one      *)
(* transaction, or one read whose result the code carries over an await.   *)
(* Three facts of the code's use of SQLAlchemy shape the module:           *)
(*   - sessions are made with expire_on_commit=False, so a pipeline goes   *)
(*     on using the job and audit rows it loaded first (todo, seen);       *)
(*   - a flush writes an attribute only when its new value differs from    *)
(*     the value the session loaded (FlushStatus);                         *)
(*   - execute_job flushes jobs.status before the provider call, and the   *)
(*     row stays locked, its change invisible, until the commit (held).    *)
(* Queries flush what was assigned before them, so an UPDATE may lock its   *)
(* row some time before the commit.  The module keeps these locks where a   *)
(* provider call or a read lies in between (held, LockedBackgroundJobs);    *)
(* elsewhere the write happens with the commit.                             *)
(***************************************************************************)
EXTENDS AuditDomain

CONSTANTS
    MaxBackgroundJobs,  \* bound of the model: rows of background_jobs
    Slots,              \* API requests that may be in progress together
    DevCalls,           \* calls of the admin endpoint that runs a pipeline inline
    Operations,         \* the operations users perform
    Faults,             \* the internal failures that may happen
    MaxCrashes          \* bound of the model: restarts of the API process

BackgroundJob == 1..MaxBackgroundJobs

\* a pipeline runs on behalf of a background job or of an inline dev call
Worker == BackgroundJob \cup DevCalls

ASSUME ExecutionAssumption ==
    /\ MaxBackgroundJobs \in Nat
    /\ DevCalls \cap BackgroundJob = {}
    /\ Operations \subseteq {"enqueue", "trigger", "retry", "cancel", "dev"}
    /\ Faults \subseteq {"policy", "config", "adapter", "processing", "database"}
    /\ MaxCrashes \in Nat

VARIABLES
    (* committed rows *)
    audit,      \* audits.status
    jobs,       \* [JobKey -> JobStatus], jobs.status by idempotency key
    runs,       \* [JobKey -> RunStatus], runs.status by execution identity
    raw,        \* [JobKey -> Nat], how often the raw response was written
    parsed,     \* [JobKey -> Nat], the write of raw its parsed result and score stem from
    snapshots,  \* audit_metrics_snapshots rows: status and completed_runs
    bg,         \* [BackgroundJob -> BackgroundJobStatus]
    (* pipelines: process memory *)
    pc,         \* [Worker -> stage of the pipeline]
    seen,       \* [Worker -> AuditStatus], audit.status as its session holds it
    todo,       \* [Worker -> SUBSET JobKey], job rows its session holds
    held,       \* [Worker -> SUBSET JobKey], the job whose row it has locked
    trouble,    \* [Worker -> SUBSET Trouble], what its summaries report so far
    (* API requests: process memory *)
    req,        \* [Slots -> Request], a handler between its reads and its commit
    crashes     \* restarts so far

dbVars == <<audit, jobs, runs, raw, parsed, snapshots, bg>>
workerVars == <<pc, seen, todo, held, trouble>>
vars == <<dbVars, workerVars, req, crashes>>

Stage == {"idle", "queued", "schedule_read", "schedule_commit", "load", "execute",
          "provider_call", "post_process", "refresh", "finalize", "snapshot",
          "close", "done"}

Trouble == {"failed_runs", "execution_errors", "processing_errors", "fatal"}

Request == [op: {"idle", "enqueue", "trigger", "retry", "cancel", "cancel_marked",
                 "cancel_snapshot"},
            audit: AuditStatus,
            keys: SUBSET JobKey,
            target: SUBSET BackgroundJob]

Idle == [op |-> "idle", audit |-> "created", keys |-> {}, target |-> {}]

Snapshot == [status: TerminalSnapshotStatuses, completed_runs: Nat]

TypeOK ==
    /\ audit \in AuditStatus
    /\ jobs \in [JobKey -> JobStatus]
    /\ runs \in [JobKey -> RunStatus]
    /\ raw \in [JobKey -> Nat]
    /\ parsed \in [JobKey -> Nat]
    /\ snapshots \in SUBSET Snapshot
    /\ bg \in [BackgroundJob -> BackgroundJobStatus]
    /\ pc \in [Worker -> Stage]
    /\ seen \in [Worker -> AuditStatus]
    /\ todo \in [Worker -> SUBSET JobKey]
    /\ held \in [Worker -> SUBSET JobKey]
    /\ trouble \in [Worker -> SUBSET Trouble]
    /\ req \in [Slots -> Request]
    /\ crashes \in Nat

Init ==
    /\ audit = "created"
    /\ jobs = [k \in JobKey |-> "absent"]
    /\ runs = [k \in JobKey |-> "absent"]
    /\ raw = [k \in JobKey |-> 0]
    /\ parsed = [k \in JobKey |-> 0]
    /\ snapshots = {}
    /\ bg = [b \in BackgroundJob |-> "absent"]
    /\ pc = [w \in Worker |-> "idle"]
    /\ seen = [w \in Worker |-> "created"]
    /\ todo = [w \in Worker |-> {}]
    /\ held = [w \in Worker |-> {}]
    /\ trouble = [w \in Worker |-> {}]
    /\ req = [r \in Slots |-> Idle]
    /\ crashes = 0

-----------------------------------------------------------------------------
(* What the handlers and the pipelines read.                               *)

\* The session's unit of work: an assignment of the loaded value is no UPDATE.
FlushStatus(loaded, new, row) == IF new = loaded THEN row ELSE new

\* find_active_background_job, _active_audit_background_job
ActiveJobs == {b \in BackgroundJob : bg[b] \in ActiveBackgroundJobStatuses}

\* mutant: the loop does not skip jobs that are not pending
AnyKeys == {k \in JobKey : jobs[k] # "absent"}

\* mutant: cancelled jobs are executed again
PendingOrCancelledKeys == {k \in JobKey : jobs[k] \in {"pending", "cancelled"}}

\* mutant: the jobs a retry added are taken for surplus runs
ScheduledPendingKeys == {k \in ScheduledKeys : jobs[k] = "pending"}

PendingKeys == {k \in JobKey : jobs[k] = "pending"}

FailedKeys == {k \in JobKey : runs[k] = "failure"}

SuccessKeys == {k \in JobKey : runs[k] = "success"}

\* job candidates of the scheduler whose idempotency key is not in the table
MissingKeys == {k \in ScheduledKeys : jobs[k] = "absent"}

\* mutant: no unique constraint on the idempotency key
NeverConflicts(keys) == FALSE

\* the INSERTs meet a row another transaction committed since MissingKeys was read
Conflicts(keys) == \E k \in keys : jobs[k] # "absent"

JobsWith(keys) == [k \in JobKey |-> IF k \in keys THEN "pending" ELSE jobs[k]]

\* mutant: the SELECT of the jobs locks the rows it returns
LoadedOrHeldKeys(waiting) ==
    UNION {held[w] \cup todo[w] : w \in Worker \ waiting}

\* job rows locked by another transaction, which is waiting for its provider
LockedKeys(waiting) == UNION {held[w] : w \in Worker \ waiting}

\* background job rows a cancel request has updated and not committed yet
LockedBackgroundJobs ==
    UNION {req[r].target : r \in {s \in Slots : req[s].op = "cancel_marked"}}

\* bound of the model: every handler past its reads has a background job row left
RoomForBackgroundJob ==
    Cardinality({r \in Slots : req[r].op \in {"enqueue", "retry"}})
        < Cardinality({b \in BackgroundJob : bg[b] = "absent"})

\* the row INSERT gives the next id to
NextBackgroundJob(b) ==
    /\ bg[b] = "absent"
    /\ \A c \in 1..(b - 1) : bg[c] # "absent"

-----------------------------------------------------------------------------
(* create_audit_metrics_snapshot: the row the call adds, if it adds one.   *)
(* Usable data is a successful run or a model summary, and _model_summaries *)
(* makes one of any run.                                                   *)

HasUsableSnapshotData == \E k \in JobKey : runs[k] # "absent"

SnapshotDue ==
    /\ audit \in TerminalSnapshotStatuses
    /\ snapshots = {}
    /\ audit \in {"failed", "cancelled"} => HasUsableSnapshotData

SnapshotsAfterCall ==
    IF SnapshotDue
      THEN {[status |-> audit, completed_runs |-> Cardinality(SuccessKeys)]}
      ELSE snapshots

-----------------------------------------------------------------------------
(* POST /audits/{id}/run-pipeline: enqueue_audit_pipeline_run.             *)

\* load_real_provider_pilot_config raises: the environment it reads is that of
\* the process, so it stops being valid by a restart
BrokenConfiguration == "config" \in Faults /\ crashes > 0

\* validate_audit_pipeline_triggerable
MayStart == audit = "created" /\ ~ BrokenConfiguration

BeginEnqueue(r) ==
    /\ "enqueue" \in Operations
    /\ req[r].op = "idle"
    /\ MayStart
    /\ ActiveJobs = {}
    /\ RoomForBackgroundJob
    /\ req' = [req EXCEPT ![r] = [Idle EXCEPT !.op = "enqueue"]]
    /\ UNCHANGED <<dbVars, workerVars, crashes>>

\* the new row and the task Starlette runs after the response
EnqueueBackgroundJob ==
    \E b \in BackgroundJob :
        /\ NextBackgroundJob(b)
        /\ bg' = [bg EXCEPT ![b] = "queued"]
        /\ pc' = [pc EXCEPT ![b] = "queued"]

CommitEnqueue(r) ==
    /\ req[r].op = "enqueue"
    /\ audit' = "running"
    /\ EnqueueBackgroundJob
    /\ req' = [req EXCEPT ![r] = Idle]
    /\ UNCHANGED <<jobs, runs, raw, parsed, snapshots, seen, todo, held, trouble, crashes>>

(* POST /audits/{id}/run: trigger_audit_run_record schedules the jobs and  *)
(* sets the audit running, and enqueues nothing.                           *)
BeginTrigger(r) ==
    /\ "trigger" \in Operations
    /\ req[r].op = "idle"
    /\ MayStart
    /\ req' = [req EXCEPT ![r] = [Idle EXCEPT !.op = "trigger", !.keys = MissingKeys]]
    /\ UNCHANGED <<dbVars, workerVars, crashes>>

CommitTrigger(r) ==
    /\ req[r].op = "trigger"
    /\ ~ Conflicts(req[r].keys)
    /\ jobs' = JobsWith(req[r].keys)
    /\ audit' = "running"
    /\ req' = [req EXCEPT ![r] = Idle]
    /\ UNCHANGED <<runs, raw, parsed, snapshots, bg, workerVars, crashes>>

(* POST /audits/{id}/retry-failed: retry_failed_audit_runs_record.         *)
\* mutant: only the audit's status is checked
MayRetryUnlessRunning == audit # "running"

MayRetry == ActiveJobs = {} /\ audit # "running"

\* _retry_source_identities
RetrySources ==
    {UnitOf(k) : k \in FailedKeys \cup {k \in JobKey : jobs[k] = "cancelled"}}

\* _next_retry_run_number; run numbers of a unit are used from 1 upwards
UsedRunNumbers(u) ==
    {n \in 1..MaxRunNumber : jobs[<<u, n>>] # "absent" \/ runs[<<u, n>>] # "absent"}

IsNextRunNumber(u, n) ==
    /\ \A m \in UsedRunNumbers(u) : m < n
    /\ n = 1 \/ n - 1 \in UsedRunNumbers(u)

RetryKeys ==
    {k \in JobKey : UnitOf(k) \in RetrySources /\ IsNextRunNumber(UnitOf(k), RunNumber(k))}

\* bound of the model: no unit to retry has used up its run numbers
RoomForRetry == \A u \in RetrySources : MaxRunNumber \notin UsedRunNumbers(u)

BeginRetry(r) ==
    /\ "retry" \in Operations
    /\ req[r].op = "idle"
    /\ MayRetry
    /\ RetrySources # {}
    /\ RoomForRetry
    /\ RoomForBackgroundJob
    /\ req' = [req EXCEPT ![r] =
                 [Idle EXCEPT !.op = "retry", !.audit = audit, !.keys = RetryKeys]]
    /\ UNCHANGED <<dbVars, workerVars, crashes>>

CommitRetry(r) ==
    /\ req[r].op = "retry"
    /\ ~ Conflicts(req[r].keys)
    /\ jobs' = JobsWith(req[r].keys)
    /\ audit' = FlushStatus(req[r].audit, "running", audit)
    /\ EnqueueBackgroundJob
    /\ req' = [req EXCEPT ![r] = Idle]
    /\ UNCHANGED <<runs, raw, parsed, snapshots, seen, todo, held, trouble, crashes>>

\* IntegrityError on uq_jobs_idempotency_key: rolled back, answered with 500
RejectInsert(r) ==
    /\ req[r].op \in {"trigger", "retry"}
    /\ Conflicts(req[r].keys)
    /\ req' = [req EXCEPT ![r] = Idle]
    /\ UNCHANGED <<dbVars, workerVars, crashes>>

\* any other database error: the open transaction is rolled back
FailRequest(r) ==
    /\ "database" \in Faults
    /\ req[r].op # "idle"
    /\ req' = [req EXCEPT ![r] = Idle]
    /\ UNCHANGED <<dbVars, workerVars, crashes>>

(* POST /audits/{id}/cancel: cancel_audit_run_record.                      *)
LatestActiveJob == {b \in ActiveJobs : \A c \in ActiveJobs : c <= b}

\* mutant: the background job is closed although its pipeline goes on
WithCancelled(target) ==
    [b \in BackgroundJob |-> IF b \in target THEN "cancelled" ELSE bg[b]]

\* request_background_job_cancel
WithCancelRequest(target) ==
    [b \in BackgroundJob |-> IF b \in target THEN "cancel_requested" ELSE bg[b]]

BeginCancel(r) ==
    /\ "cancel" \in Operations
    /\ req[r].op = "idle"
    /\ audit = "running" \/ ActiveJobs # {}
    /\ req' = [req EXCEPT ![r] =
                 [op |-> "cancel", audit |-> audit, keys |-> {},
                  target |-> {b \in LatestActiveJob : bg[b] # "cancel_requested"}]]
    /\ UNCHANGED <<dbVars, workerVars, crashes>>

\* the SELECT of the pending jobs; before it, the background job is flushed
MarkCancel(r) ==
    /\ req[r].op = "cancel"
    /\ req[r].target \cap LockedBackgroundJobs = {}
    /\ req' = [req EXCEPT ![r].op = "cancel_marked", ![r].keys = PendingKeys]
    /\ UNCHANGED <<dbVars, workerVars, crashes>>

\* The UPDATEs name rows by id, whatever their status is by now, and wait for
\* the rows that are locked.
CommitCancel(r) ==
    /\ req[r].op = "cancel_marked"
    /\ req[r].keys \cap LockedKeys({}) = {}
    /\ jobs' = [k \in JobKey |-> IF k \in req[r].keys THEN "cancelled" ELSE jobs[k]]
    /\ audit' = FlushStatus(req[r].audit, "cancelled", audit)
    /\ bg' = WithCancelRequest(req[r].target)
    /\ req' = [req EXCEPT ![r] = [Idle EXCEPT !.op = "cancel_snapshot"]]
    /\ UNCHANGED <<runs, raw, parsed, snapshots, workerVars, crashes>>

CancelSnapshot(r) ==
    /\ req[r].op = "cancel_snapshot"
    /\ snapshots' = SnapshotsAfterCall
    /\ req' = [req EXCEPT ![r] = Idle]
    /\ UNCHANGED <<audit, jobs, runs, raw, parsed, bg, workerVars, crashes>>

-----------------------------------------------------------------------------
(* The pipeline.                                                           *)

Advance(w, from, to) == pc[w] = from /\ pc' = [pc EXCEPT ![w] = to]

Report(w, what) == trouble' = [trouble EXCEPT ![w] = @ \cup what]

\* execute_audit_pipeline_background_job: mark_background_job_running assigns
\* the status whatever it was
StartBackgroundJob(b) ==
    /\ b \notin LockedBackgroundJobs
    /\ Advance(b, "queued", "schedule_read")
    /\ bg' = [bg EXCEPT ![b] = "running"]
    /\ UNCHANGED <<audit, jobs, runs, raw, parsed, snapshots, seen, todo, held, trouble,
                   req, crashes>>

\* POST /dev/audits/{id}/run-pipeline: no check of the audit's status
StartDevPipeline(d) ==
    /\ "dev" \in Operations
    /\ Advance(d, "idle", "schedule_read")
    /\ UNCHANGED <<dbVars, seen, todo, held, trouble, req, crashes>>

\* run_audit_pipeline loads the audit, schedule_jobs_for_audit the existing keys
ReadSchedule(w) ==
    /\ Advance(w, "schedule_read", "schedule_commit")
    /\ seen' = [seen EXCEPT ![w] = audit]
    /\ todo' = [todo EXCEPT ![w] = MissingKeys]
    /\ UNCHANGED <<dbVars, held, trouble, req, crashes>>

CommitSchedule(w) ==
    /\ ~ Conflicts(todo[w])
    /\ Advance(w, "schedule_commit", "load")
    /\ jobs' = JobsWith(todo[w])
    /\ audit' = FlushStatus(seen[w], "running", audit)
    /\ seen' = [seen EXCEPT ![w] = "running"]
    /\ todo' = [todo EXCEPT ![w] = {}]
    /\ UNCHANGED <<runs, raw, parsed, snapshots, bg, held, trouble, req, crashes>>

\* rollback, then _set_audit_status(FAILED) on the reloaded audit
FailScheduling(w) ==
    /\ Conflicts(todo[w]) \/ "database" \in Faults
    /\ Advance(w, "schedule_commit", "close")
    /\ audit' = "failed"
    /\ todo' = [todo EXCEPT ![w] = {}]
    /\ Report(w, {"fatal"})
    /\ UNCHANGED <<jobs, runs, raw, parsed, snapshots, bg, seen, held, req, crashes>>

\* execute_audit_jobs: one SELECT of the jobs, before the first is executed
LoadJobs(w) ==
    /\ ~ BrokenConfiguration
    /\ Advance(w, "load", "execute")
    /\ todo' = [todo EXCEPT ![w] = PendingKeys]
    /\ UNCHANGED <<dbVars, seen, held, trouble, req, crashes>>

\* _validate_audit_policy; the retry handler lets an audit pass without it
RejectByPolicy(w) ==
    /\ "policy" \in Faults
    /\ ~ BrokenConfiguration
    /\ Advance(w, "load", "snapshot")
    /\ audit' = FlushStatus(seen[w], "failed", audit)
    /\ Report(w, {"fatal"})
    /\ UNCHANGED <<jobs, runs, raw, parsed, snapshots, bg, seen, todo, held, req, crashes>>

\* the loop goes over the loaded jobs in id order
IsNextJob(w, k) == k \in todo[w] /\ \A j \in todo[w] : ~ InsertedBefore(j, k)

\* the adapter factory raises: the job stays as it is, the loop goes on
SkipJob(w, k) ==
    /\ "adapter" \in Faults
    /\ Advance(w, "execute", "execute")
    /\ IsNextJob(w, k)
    /\ todo' = [todo EXCEPT ![w] = @ \ {k}]
    /\ Report(w, {"execution_errors"})
    /\ UNCHANGED <<dbVars, seen, held, req, crashes>>

\* execute_job up to the provider call: job.status = RUNNING is flushed
StartJob(w, k) ==
    /\ Advance(w, "execute", "provider_call")
    /\ IsNextJob(w, k)
    /\ k \notin LockedKeys({w})
    /\ todo' = [todo EXCEPT ![w] = @ \ {k}]
    /\ held' = [held EXCEPT ![w] = {k}]
    /\ UNCHANGED <<dbVars, seen, trouble, req, crashes>>

\* mutant: the run's status is written to the job's column
RunStatusOf(outcome) == outcome

ClosedJobStatus(outcome) == IF outcome = "success" THEN "completed" ELSE "failed"

\* execute_job after the provider call: run, job and raw response in one commit
FinishJob(w, outcome) ==
    /\ Advance(w, "provider_call", "execute")
    /\ runs' = [k \in JobKey |-> IF k \in held[w] THEN outcome ELSE runs[k]]
    /\ raw' = [k \in JobKey |-> IF k \in held[w] THEN raw[k] + 1 ELSE raw[k]]
    /\ jobs' = [k \in JobKey |->
                  IF k \in held[w] THEN ClosedJobStatus(outcome) ELSE jobs[k]]
    /\ held' = [held EXCEPT ![w] = {}]
    /\ UNCHANGED <<audit, parsed, snapshots, bg, seen, todo, trouble, req, crashes>>

\* the run status counts at the end of the loop go into the summary
FinishExecution(w) ==
    /\ todo[w] = {}
    /\ Advance(w, "execute", "post_process")
    /\ Report(w, IF FailedKeys # {} THEN {"failed_runs"} ELSE {})
    /\ UNCHANGED <<dbVars, seen, todo, held, req, crashes>>

\* _process_run: successful runs without a parsed result and a score
UnprocessedKeys == {k \in SuccessKeys : parsed[k] = 0}

\* counts of the audit's rows; the error counts come from the summaries
StatusCounts(usable, failures, errors, bad) ==
    [expected |-> ExpectedRunCount,
     terminal |-> Cardinality(SuccessKeys \cup FailedKeys),
     successful |-> Cardinality(SuccessKeys),
     usable |-> Cardinality(usable),
     terminal_failure |-> failures,
     execution_errors |-> errors,
     processing_errors |-> bad]

\* process_audit_results: bad are the runs whose parsing or scoring raises
PostProcess(w, bad) ==
    LET fresh == UnprocessedKeys \ bad
        usable == {k \in SuccessKeys : parsed[k] > 0} \cup fresh
        status == DerivePostProcessingStatus(
                    StatusCounts(usable, Cardinality(FailedKeys), 0, Cardinality(bad)),
                    seen[w])
    IN  /\ bad \subseteq UnprocessedKeys
        /\ bad # {} => "processing" \in Faults
        /\ Advance(w, "post_process", "refresh")
        /\ parsed' = [k \in JobKey |-> IF k \in fresh THEN raw[k] ELSE parsed[k]]
        /\ audit' = FlushStatus(seen[w], status, audit)
        /\ seen' = [seen EXCEPT ![w] = status]
        /\ Report(w, IF bad # {} THEN {"processing_errors"} ELSE {})
        /\ UNCHANGED <<jobs, runs, raw, snapshots, bg, todo, held, req, crashes>>

\* SQLAlchemyError, in the refresh after the commit too: rollback, then
\* _set_audit_status(FAILED) on the reloaded audit
FailPostProcessing(w) ==
    /\ "database" \in Faults
    /\ \E stage \in {"post_process", "refresh"} : Advance(w, stage, "snapshot")
    /\ audit' = "failed"
    /\ Report(w, {"fatal"})
    /\ UNCHANGED <<jobs, runs, raw, parsed, snapshots, bg, seen, todo, held, req, crashes>>

\* session.refresh(audit) after the commit of post-processing
RefreshAudit(w) ==
    /\ Advance(w, "refresh", "finalize")
    /\ seen' = [seen EXCEPT ![w] = audit]
    /\ UNCHANGED <<dbVars, todo, held, trouble, req, crashes>>

ReportedCount(w, what) == IF what \in trouble[w] THEN 1 ELSE 0

\* _derive_and_persist_final_status
FinalStatus(w) ==
    DeriveFinalAuditStatus(
        StatusCounts({k \in SuccessKeys : parsed[k] > 0},
                     ReportedCount(w, "failed_runs"),
                     ReportedCount(w, "execution_errors"),
                     ReportedCount(w, "processing_errors")))

Finalize(w) ==
    /\ Advance(w, "finalize", "snapshot")
    /\ audit' = FlushStatus(seen[w], FinalStatus(w), audit)
    /\ seen' = [seen EXCEPT ![w] = FinalStatus(w)]
    /\ UNCHANGED <<jobs, runs, raw, parsed, snapshots, bg, todo, held, trouble, req, crashes>>

\* _create_terminal_snapshot on the refreshed audit; it swallows exceptions
TakeSnapshot(w) ==
    /\ Advance(w, "snapshot", "close")
    /\ \/ snapshots' = SnapshotsAfterCall
       \/ "database" \in Faults /\ UNCHANGED snapshots
    /\ UNCHANGED <<audit, jobs, runs, raw, parsed, bg, seen, todo, held, trouble, req, crashes>>

\* the process memory of a pipeline that is over
Forget(gone) ==
    /\ pc' = [w \in Worker |-> IF w \in gone THEN "done" ELSE pc[w]]
    /\ seen' = [w \in Worker |-> IF w \in gone THEN "created" ELSE seen[w]]
    /\ todo' = [w \in Worker |-> IF w \in gone THEN {} ELSE todo[w]]
    /\ held' = [w \in Worker |-> IF w \in gone THEN {} ELSE held[w]]
    /\ trouble' = [w \in Worker |-> IF w \in gone THEN {} ELSE trouble[w]]

ClosedBackgroundJobStatus(w) == IF "fatal" \in trouble[w] THEN "failed" ELSE "completed"

\* mark_background_job_completed, mark_background_job_failed
CloseBackgroundJob(w) ==
    /\ pc[w] = "close"
    /\ w \notin LockedBackgroundJobs
    /\ bg' = [b \in BackgroundJob |->
                IF b = w THEN ClosedBackgroundJobStatus(w) ELSE bg[b]]
    /\ Forget({w})
    /\ UNCHANGED <<audit, jobs, runs, raw, parsed, snapshots, req, crashes>>

\* The two exceptions that leave run_audit_pipeline in good order: the background
\* job is failed and the audit keeps its status.
Escape(w, stage) ==
    /\ Advance(w, stage, "close")
    /\ held' = [held EXCEPT ![w] = {}]
    /\ todo' = [todo EXCEPT ![w] = {}]
    /\ Report(w, {"fatal"})
    /\ UNCHANGED <<dbVars, seen, req, crashes>>

\* execute_job fails: its rollback expires the job row, and the handler that
\* builds the error entry reads an attribute of that row (MissingGreenlet)
EscapeJob(w) ==
    /\ "database" \in Faults
    /\ \/ todo[w] # {} /\ Escape(w, "execute")
       \/ Escape(w, "provider_call")

\* execute_audit_jobs loads the configuration outside of its try
EscapeConfiguration(w) ==
    /\ BrokenConfiguration
    /\ Escape(w, "load")

-----------------------------------------------------------------------------
\* a pipeline that has a task in the process
Alive(w) == pc[w] \notin {"idle", "done"}

\* A database error no handler rolls back: closing the background job fails in
\* the same session, and the task ends with its rows as they are.
LoseTask(w) ==
    /\ "database" \in Faults
    /\ Alive(w)
    /\ Forget({w})
    /\ UNCHANGED <<dbVars, req, crashes>>

(* The API process dies: requests and tasks are gone, open transactions are *)
(* rolled back, and nothing at startup looks at background_jobs.            *)
Crash ==
    /\ crashes < MaxCrashes
    /\ crashes' = crashes + 1
    /\ Forget({w \in Worker : Alive(w)})
    /\ req' = [r \in Slots |-> Idle]
    /\ UNCHANGED dbVars

\* a handler past its reads
FinishRequest(r) ==
    \/ CommitEnqueue(r)
    \/ CommitTrigger(r)
    \/ CommitRetry(r)
    \/ RejectInsert(r)
    \/ FailRequest(r)
    \/ MarkCancel(r)
    \/ CommitCancel(r)
    \/ CancelSnapshot(r)

BeginRequest(r) ==
    \/ BeginEnqueue(r)
    \/ BeginTrigger(r)
    \/ BeginRetry(r)
    \/ BeginCancel(r)

\* the steps of a pipeline that meets no fault
PipelineStep(w) ==
    \/ w \in BackgroundJob /\ StartBackgroundJob(w)
    \/ ReadSchedule(w)
    \/ CommitSchedule(w)
    \/ LoadJobs(w)
    \/ \E k \in JobKey : StartJob(w, k)
    \/ \E outcome \in Outcome : FinishJob(w, outcome)
    \/ FinishExecution(w)
    \/ \E bad \in SUBSET JobKey : PostProcess(w, bad)
    \/ RefreshAudit(w)
    \/ Finalize(w)
    \/ TakeSnapshot(w)
    \/ CloseBackgroundJob(w)

PipelineFault(w) ==
    \/ FailScheduling(w)
    \/ RejectByPolicy(w)
    \/ \E k \in JobKey : SkipJob(w, k)
    \/ FailPostProcessing(w)
    \/ EscapeJob(w)
    \/ EscapeConfiguration(w)
    \/ LoseTask(w)

Next ==
    \/ \E r \in Slots : BeginRequest(r) \/ FinishRequest(r)
    \/ \E d \in DevCalls : StartDevPipeline(d)
    \/ \E w \in Worker : PipelineStep(w) \/ PipelineFault(w)
    \/ Crash

Spec == Init /\ [][Next]_vars

\* The event loop runs every task that is ready, and every provider call ends
\* (each client is built with a timeout).  Nothing makes a user call the API.
Fairness ==
    /\ \A r \in Slots : WF_vars(FinishRequest(r))
    /\ \A w \in Worker : WF_vars(PipelineStep(w) \/ PipelineFault(w))

FairSpec == Spec /\ Fairness

-----------------------------------------------------------------------------
(* Properties.                                                             *)

\* The jobs, runs and raw_responses tables agree whatever overwrites what: a
\* pending job has no run, a job closed by its pipeline has the run that closed
\* it, and every run has a raw response (execute_job commits the three rows at
\* once; cancel overwrites job statuses it read earlier).
RowsAgree ==
    \A k \in JobKey :
        /\ jobs[k] \in {"absent", "pending"} => runs[k] = "absent"
        /\ jobs[k] = "completed" => runs[k] = "success"
        /\ jobs[k] = "failed" => runs[k] = "failure"
        /\ runs[k] = "absent" <=> raw[k] = 0

\* A pipeline at work is never missed by the guards of enqueue and retry: its
\* background job counts as active until the pipeline itself closes it, even
\* where a cancel request and the start of the job overwrite each other.
LivePipelineIsActive ==
    \A b \in BackgroundJob : Alive(b) => b \in ActiveJobs

\* a cancel request that waits for the row of a background job or of a job
RequestWaits(r) ==
    \/ req[r].op = "cancel" /\ req[r].target \cap LockedBackgroundJobs # {}
    \/ req[r].op = "cancel_marked" /\ req[r].keys \cap LockedKeys({}) # {}

\* a pipeline that waits for the row of its background job or of its next job
PipelineWaits(w) ==
    \/ pc[w] \in {"queued", "close"} /\ w \in LockedBackgroundJobs
    \/ pc[w] = "execute" /\ \E k \in LockedKeys({w}) : IsNextJob(w, k)

\* However many pipelines and cancel requests meet at the same rows, they never all
\* wait for each other: execute_job holds one row at a time and takes no other
\* before its commit, so of those at work one always goes on.
SomeoneCanGoOn ==
    (\E r \in Slots : req[r].op # "idle") \/ (\E w \in Worker : Alive(w))
      => \/ \E r \in Slots : req[r].op # "idle" /\ ~ RequestWaits(r)
         \/ \E w \in Worker : Alive(w) /\ ~ PipelineWaits(w)

\* Two pipelines never work on the audit at the same time.
OnePipeline ==
    \A v, w \in Worker : Alive(v) /\ Alive(w) => v = w

\* At most one background job of the audit is active.
OneActiveBackgroundJob ==
    \A b, c \in ActiveJobs : b = c

\* The rows asked for and answered, as the reader of the results sees them.
Ledger == INSTANCE AnswerLedger WITH
    Key <- JobKey,
    asked <- {k \in JobKey : jobs[k] # "absent"},
    answers <- runs

\* The execution of an audit implements AnswerLedger: jobs and runs only ever
\* appear, and a job that has its answer is not answered again.
LedgerSpec == Ledger!Spec

\* What a provider answered is never answered again: once a run is recorded, its
\* status and its raw response stay, through retries, cancellation and crashes.
AnswersAreFinal ==
    [][\A k \in JobKey :
         runs[k] # "absent" => runs'[k] = runs[k] /\ raw'[k] = raw[k]]_vars

\* Parsed results and scores describe the raw response that is stored now.
DerivedDataIsCurrent ==
    \A k \in JobKey : parsed[k] > 0 => parsed[k] = raw[k]

\* A snapshot never claims more completed runs than the audit has.
SnapshotNeverOverstates ==
    \A s \in snapshots : s.completed_runs <= Cardinality(SuccessKeys)

\* An audit left COMPLETED has a successful run for every unit of its matrix.
CompletedMeansAnswered ==
    audit = "completed" /\ ~ (\E w \in Worker : Alive(w))
      => \A u \in Unit : \E k \in SuccessKeys : UnitOf(k) = u

\* FAILED is never the verdict on an audit with a scored answer.
FailedMeansNothingUsable ==
    audit = "failed" => \A k \in SuccessKeys : parsed[k] = 0

\* An audit left PARTIAL has at least one usable result.
PartialMeansUsable ==
    audit = "partial" /\ ~ (\E w \in Worker : Alive(w))
      => \E k \in SuccessKeys : parsed[k] > 0

\* A retry asks again only for units that have no successful run.
RetryAsksOnlyForMissing ==
    \A r \in Slots :
        req[r].op = "retry" =>
            \A k \in req[r].keys : ~ \E s \in SuccessKeys : UnitOf(s) = UnitOf(k)

\* Only a retry takes a cancelled audit out of CANCELLED.
CancelledIsTerminal ==
    [][audit = "cancelled" /\ audit' # "cancelled"
         => \E r \in Slots : CommitRetry(r)]_vars

\* An audit is RUNNING only while one of its background jobs is active: when the
\* last job is closed, whatever closed it, the audit has a status to show.
RunningHasActiveJob == audit = "running" => ActiveJobs # {}

\* Every audit that runs stops running.
AuditStopsRunning == audit = "running" ~> audit # "running"

\* Every active background job reaches a terminal status.
BackgroundJobsEnd ==
    \A b \in BackgroundJob : b \in ActiveJobs ~> b \notin ActiveJobs

\* CANCEL_REQUESTED is left again.
CancelRequestIsTransient ==
    \A b \in BackgroundJob : bg[b] = "cancel_requested" ~> bg[b] # "cancel_requested"

\* An audit comes to rest: it shows a final status, and no background job stays
\* active, which would refuse every later run and retry.
AuditSettles == AuditStopsRunning /\ BackgroundJobsEnd

\* Pipelines that meet at the same job rows never wait for each other for ever,
\* because execute_job commits before the next row is touched; and between them they
\* leave no scheduled job behind.
PipelinesDrain ==
    /\ \A w \in Worker : Alive(w) ~> ~ Alive(w)
    /\ \A k \in JobKey : jobs[k] = "pending" ~> jobs[k] # "pending"
=============================================================================
