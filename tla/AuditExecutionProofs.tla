------------------------ MODULE AuditExecutionProofs ------------------------
(***************************************************************************)
(* Theorems about AuditExecution, for every value of its constants.        *)
(*                                                                         *)
(* The first three hold in every environment.  The others are about a      *)
(* serialized one: requests for the audit arrive one at a time and nobody  *)
(* runs pipelines inline.  The code has no lock that enforces this, and    *)
(* the run DoubleRun shows what happens without it.      *)
(***************************************************************************)
EXTENDS AuditExecution, FiniteSetTheorems, TLAPS

-----------------------------------------------------------------------------
(* The matrix of work is finite, so the counts of the model are numbers.   *)

LEMMA JobKeyFinite == IsFiniteSet(JobKey)
<1>1. IsFiniteSet(1..NumQueries) /\ IsFiniteSet(1..NumTargets) /\ IsFiniteSet(1..MaxRunNumber)
  BY FS_Interval, DomainAssumption DEF DomainAssumption
<1>2. EffectiveQueries \subseteq 1..NumQueries
  BY DEF EffectiveQueries
<1>3. IsFiniteSet(EffectiveQueries)
  BY <1>1, <1>2, FS_Subset
<1>4. IsFiniteSet(Unit)
  BY <1>1, <1>3, FS_Product DEF Unit
<1> QED
  BY <1>1, <1>4, FS_Product DEF JobKey

LEMMA CountsAreNumbers ==
  ASSUME NEW S \in SUBSET JobKey
  PROVE  Cardinality(S) \in Nat
BY JobKeyFinite, FS_Subset, FS_CardinalityType

LEMMA FinalStatusType ==
  ASSUME NEW counts
  PROVE  DeriveFinalAuditStatus(counts) \in AuditStatus
BY DEF DeriveFinalAuditStatus, AuditStatus

LEMMA PostProcessingStatusType ==
  ASSUME NEW counts, NEW current \in AuditStatus
  PROVE  DerivePostProcessingStatus(counts, current) \in AuditStatus
BY DEF DerivePostProcessingStatus, AuditStatus

-----------------------------------------------------------------------------
(* Type correctness.                                                       *)

LEMMA TypeInit == Init => TypeOK
BY SMT DEF Init, TypeOK, AuditStatus, JobStatus, RunStatus, BackgroundJobStatus, Stage,
       Request, Idle, Snapshot

LEMMA SnapshotsAfterCallType ==
  ASSUME TypeOK
  PROVE  SnapshotsAfterCall \in SUBSET Snapshot
<1>1. Cardinality(SuccessKeys) \in Nat
  BY CountsAreNumbers DEF SuccessKeys
<1> QED
  BY <1>1 DEF TypeOK, SnapshotsAfterCall, SnapshotDue, Snapshot

LEMMA JobsWithType ==
  ASSUME TypeOK, NEW keys
  PROVE  JobsWith(keys) \in [JobKey -> JobStatus]
BY DEF TypeOK, JobsWith, JobStatus

LEMMA TypeStep == TypeOK /\ [Next]_vars => TypeOK'
<1> SUFFICES ASSUME TypeOK, [Next]_vars
             PROVE  TypeOK'
  OBVIOUS
<1> USE DEF TypeOK, dbVars, workerVars
<1>s. /\ {"created", "running", "completed", "partial", "failed", "cancelled"} = AuditStatus
      /\ {"absent", "queued", "running", "completed", "failed", "cancel_requested",
          "cancelled"} = BackgroundJobStatus
  BY DEF AuditStatus, BackgroundJobStatus
<1>1. ASSUME NEW r \in Slots, BeginEnqueue(r)
      PROVE  TypeOK'
  BY <1>1, <1>s DEF BeginEnqueue, Request, Idle
<1>2. ASSUME NEW r \in Slots, CommitEnqueue(r)
      PROVE  TypeOK'
  BY <1>2, <1>s DEF CommitEnqueue, EnqueueBackgroundJob, Request, Idle, Stage, Worker
<1>3. ASSUME NEW r \in Slots, BeginTrigger(r)
      PROVE  TypeOK'
  BY <1>3, <1>s DEF BeginTrigger, Request, Idle, MissingKeys, ScheduledKeys
<1>4. ASSUME NEW r \in Slots, CommitTrigger(r)
      PROVE  TypeOK'
  BY <1>4, <1>s, JobsWithType DEF CommitTrigger, Request, Idle
<1>5. ASSUME NEW r \in Slots, BeginRetry(r)
      PROVE  TypeOK'
  BY <1>5, <1>s DEF BeginRetry, Request, Idle, RetryKeys
<1>6. ASSUME NEW r \in Slots, CommitRetry(r)
      PROVE  TypeOK'
  BY <1>6, <1>s, JobsWithType
     DEF CommitRetry, EnqueueBackgroundJob, FlushStatus, Request, Idle, Stage, Worker
<1>7. ASSUME NEW r \in Slots, RejectInsert(r)
      PROVE  TypeOK'
  BY <1>7, <1>s DEF RejectInsert, Request, Idle
<1>f. ASSUME NEW r \in Slots, FailRequest(r)
      PROVE  TypeOK'
  BY <1>f, <1>s DEF FailRequest, Request, Idle
<1>8. ASSUME NEW r \in Slots, BeginCancel(r)
      PROVE  TypeOK'
  BY <1>8 DEF BeginCancel, Request, LatestActiveJob, ActiveJobs
<1>m. ASSUME NEW r \in Slots, MarkCancel(r)
      PROVE  TypeOK'
  BY <1>m DEF MarkCancel, Request, PendingKeys
<1>9. ASSUME NEW r \in Slots, CommitCancel(r)
      PROVE  TypeOK'
  BY <1>9, <1>s DEF CommitCancel, FlushStatus, WithCancelRequest, JobStatus, Request, Idle
<1>10. ASSUME NEW r \in Slots, CancelSnapshot(r)
      PROVE  TypeOK'
  BY <1>10, <1>s, SnapshotsAfterCallType DEF CancelSnapshot, Request, Idle
<1>11. ASSUME NEW b \in BackgroundJob, StartBackgroundJob(b)
      PROVE  TypeOK'
  BY <1>11, <1>s DEF StartBackgroundJob, Advance, Stage
<1>12. ASSUME NEW d \in DevCalls, StartDevPipeline(d)
      PROVE  TypeOK'
  BY <1>12 DEF StartDevPipeline, Advance, Stage
<1>13. ASSUME NEW w \in Worker, ReadSchedule(w)
      PROVE  TypeOK'
  BY <1>13 DEF ReadSchedule, Advance, Stage, MissingKeys, ScheduledKeys
<1>14. ASSUME NEW w \in Worker, CommitSchedule(w)
      PROVE  TypeOK'
  BY <1>14, <1>s, JobsWithType DEF CommitSchedule, Advance, Stage, FlushStatus
<1>15. ASSUME NEW w \in Worker, FailScheduling(w)
      PROVE  TypeOK'
  BY <1>15, <1>s DEF FailScheduling, Advance, Stage, Report, Trouble
<1>16. ASSUME NEW w \in Worker, LoadJobs(w)
      PROVE  TypeOK'
  BY <1>16 DEF LoadJobs, Advance, Stage, PendingKeys
<1>17. ASSUME NEW w \in Worker, RejectByPolicy(w)
      PROVE  TypeOK'
  BY <1>17, <1>s DEF RejectByPolicy, Advance, Stage, FlushStatus, Report, Trouble
<1>18. ASSUME NEW w \in Worker, NEW k \in JobKey, SkipJob(w, k)
      PROVE  TypeOK'
  BY <1>18 DEF SkipJob, Advance, Stage, Report, Trouble
<1>19. ASSUME NEW w \in Worker, NEW k \in JobKey, StartJob(w, k)
      PROVE  TypeOK'
  BY <1>19 DEF StartJob, Advance, Stage
<1>20. ASSUME NEW w \in Worker, NEW outcome \in Outcome, FinishJob(w, outcome)
      PROVE  TypeOK'
  <2>1. runs' \in [JobKey -> RunStatus] /\ jobs' \in [JobKey -> JobStatus]
    BY <1>20 DEF FinishJob, ClosedJobStatus, Outcome, RunStatus, JobStatus
  <2>2. raw' \in [JobKey -> Nat]
    BY <1>20 DEF FinishJob
  <2> QED
    BY <1>20, <2>1, <2>2 DEF FinishJob, Advance, Stage
<1>21. ASSUME NEW w \in Worker, FinishExecution(w)
      PROVE  TypeOK'
  BY <1>21 DEF FinishExecution, Advance, Stage, Report, Trouble
<1>22. ASSUME NEW w \in Worker, NEW bad \in SUBSET JobKey, PostProcess(w, bad)
      PROVE  TypeOK'
  <2> DEFINE counts == StatusCounts(
               {k \in SuccessKeys : parsed[k] > 0} \cup (UnprocessedKeys \ bad),
               Cardinality(FailedKeys), 0, Cardinality(bad))
             status == DerivePostProcessingStatus(counts, seen[w])
  <2>1. status \in AuditStatus
    BY PostProcessingStatusType
  <2>2. audit' = FlushStatus(seen[w], status, audit) /\ seen' = [seen EXCEPT ![w] = status]
    BY <1>22 DEF PostProcess
  <2>3. audit' \in AuditStatus /\ seen' \in [Worker -> AuditStatus]
    BY <2>1, <2>2 DEF FlushStatus
  <2>4. parsed' \in [JobKey -> Nat]
    BY <1>22 DEF PostProcess
  <2> QED
    BY <1>22, <2>3, <2>4 DEF PostProcess, Advance, Stage, Report, Trouble
<1>23. ASSUME NEW w \in Worker, FailPostProcessing(w)
      PROVE  TypeOK'
  BY <1>23, <1>s DEF FailPostProcessing, Advance, Stage, Report, Trouble
<1>24. ASSUME NEW w \in Worker, RefreshAudit(w)
      PROVE  TypeOK'
  BY <1>24 DEF RefreshAudit, Advance, Stage
<1>25. ASSUME NEW w \in Worker, Finalize(w)
      PROVE  TypeOK'
  <2>1. FinalStatus(w) \in AuditStatus
    BY FinalStatusType DEF FinalStatus
  <2> QED
    BY <1>25, <2>1 DEF Finalize, Advance, Stage, FlushStatus
<1>26. ASSUME NEW w \in Worker, TakeSnapshot(w)
      PROVE  TypeOK'
  BY <1>26, SnapshotsAfterCallType DEF TakeSnapshot, Advance, Stage
<1>27. ASSUME NEW w \in Worker, CloseBackgroundJob(w)
      PROVE  TypeOK'
  BY <1>27, <1>s DEF CloseBackgroundJob, ClosedBackgroundJobStatus, Forget, Stage
<1>28. ASSUME NEW w \in Worker, EscapeJob(w) \/ EscapeConfiguration(w)
      PROVE  TypeOK'
  BY <1>28 DEF EscapeJob, EscapeConfiguration, Escape, Advance, Stage, Report, Trouble
<1>l. ASSUME NEW w \in Worker, LoseTask(w)
      PROVE  TypeOK'
  BY <1>l, <1>s DEF LoseTask, Forget, Stage
<1>29. CASE Crash
  BY <1>29, <1>s DEF Crash, Forget, Stage, Request, Idle
<1>30. CASE UNCHANGED vars
  BY <1>30 DEF vars
<1> QED
  BY <1>1, <1>2, <1>3, <1>4, <1>5, <1>6, <1>7, <1>8, <1>9, <1>10, <1>11, <1>12, <1>13,
     <1>14, <1>15, <1>16, <1>17, <1>18, <1>19, <1>20, <1>21, <1>22, <1>23, <1>24, <1>25,
     <1>26, <1>27, <1>28, <1>29, <1>30, <1>f, <1>l, <1>m
  DEF Next, BeginRequest, FinishRequest, PipelineStep, PipelineFault

\* Every state of every instance of the model has the type its declarations give:
\* no handler and no stage writes a status its column does not have.
THEOREM TypeCorrect == Spec => []TypeOK
<1>1. Init => TypeOK
  BY TypeInit
<1>2. TypeOK /\ [Next]_vars => TypeOK'
  BY TypeStep
<1> QED
  BY <1>1, <1>2, PTL DEF Spec

-----------------------------------------------------------------------------
(* Jobs, runs and raw responses.  RowsAgree is inductive: the handlers      *)
(* insert only rows that are not there, and execute_job commits the three   *)
(* rows together.                                                           *)

\* the actions that write the three tables
LEMMA RowsFrame ==
  ASSUME [Next]_vars
  PROVE  \/ UNCHANGED <<jobs, runs, raw>>
         \/ \E r \in Slots : CommitTrigger(r) \/ CommitRetry(r) \/ CommitCancel(r)
         \/ \E w \in Worker : CommitSchedule(w)
         \/ \E w \in Worker, outcome \in Outcome : FinishJob(w, outcome)
<1> USE DEF dbVars, workerVars
<1>1. ASSUME NEW r \in Slots, BeginRequest(r)
      PROVE  UNCHANGED <<jobs, runs, raw>>
  BY <1>1 DEF BeginRequest, BeginEnqueue, BeginTrigger, BeginRetry, BeginCancel
<1>2. ASSUME NEW r \in Slots, \/ CommitEnqueue(r) \/ RejectInsert(r) \/ FailRequest(r)
                              \/ MarkCancel(r) \/ CancelSnapshot(r)
      PROVE  UNCHANGED <<jobs, runs, raw>>
  BY <1>2 DEF CommitEnqueue, RejectInsert, FailRequest, MarkCancel, CancelSnapshot
<1>3. ASSUME NEW w, \/ StartBackgroundJob(w) \/ StartDevPipeline(w) \/ ReadSchedule(w)
                    \/ LoadJobs(w) \/ \E k \in JobKey : StartJob(w, k)
      PROVE  UNCHANGED <<jobs, runs, raw>>
  BY <1>3 DEF StartBackgroundJob, StartDevPipeline, ReadSchedule, LoadJobs, StartJob
<1>4. ASSUME NEW w, \/ FinishExecution(w) \/ \E bad \in SUBSET JobKey : PostProcess(w, bad)
                    \/ RefreshAudit(w) \/ Finalize(w) \/ TakeSnapshot(w)
                    \/ CloseBackgroundJob(w)
      PROVE  UNCHANGED <<jobs, runs, raw>>
  BY <1>4 DEF FinishExecution, PostProcess, RefreshAudit, Finalize, TakeSnapshot,
              CloseBackgroundJob
<1>5. ASSUME NEW w, PipelineFault(w)
      PROVE  UNCHANGED <<jobs, runs, raw>>
  BY <1>5 DEF PipelineFault, FailScheduling, RejectByPolicy, SkipJob, FailPostProcessing,
              EscapeJob, EscapeConfiguration, Escape, LoseTask
<1>6. ASSUME Crash \/ UNCHANGED vars
      PROVE  UNCHANGED <<jobs, runs, raw>>
  BY <1>6 DEF Crash, vars
<1> QED
  BY <1>1, <1>2, <1>3, <1>4, <1>5, <1>6 DEF Next, FinishRequest, PipelineStep

\* inserting pending jobs under keys that have none
LEMMA InsertKeepsRowsAgree ==
  ASSUME TypeOK, RowsAgree, NEW keys, ~ Conflicts(keys),
         jobs' = JobsWith(keys), UNCHANGED <<runs, raw>>
  PROVE  RowsAgree'
BY DEF TypeOK, RowsAgree, Conflicts, JobsWith

LEMMA RowsAgreeStep == TypeOK /\ RowsAgree /\ [Next]_vars => RowsAgree'
<1> SUFFICES ASSUME TypeOK, RowsAgree, [Next]_vars
             PROVE  RowsAgree'
  OBVIOUS
<1>1. CASE UNCHANGED <<jobs, runs, raw>>
  BY <1>1 DEF RowsAgree
<1>2. ASSUME NEW r \in Slots, CommitTrigger(r) \/ CommitRetry(r)
      PROVE  RowsAgree'
  BY <1>2, InsertKeepsRowsAgree DEF CommitTrigger, CommitRetry
<1>3. ASSUME NEW w \in Worker, CommitSchedule(w)
      PROVE  RowsAgree'
  BY <1>3, InsertKeepsRowsAgree DEF CommitSchedule
<1>4. ASSUME NEW r \in Slots, CommitCancel(r)
      PROVE  RowsAgree'
  BY <1>4 DEF CommitCancel, RowsAgree
<1>5. ASSUME NEW w \in Worker, NEW outcome \in Outcome, FinishJob(w, outcome)
      PROVE  RowsAgree'
  BY <1>5 DEF FinishJob, ClosedJobStatus, Outcome, RowsAgree, TypeOK
<1> QED
  BY <1>1, <1>2, <1>3, <1>4, <1>5, RowsFrame

\* Whatever requests, pipelines, faults and crashes do to each other, a job, its
\* run and its raw response never contradict each other.
THEOREM RowsAlwaysAgree == Spec => []RowsAgree
<1>1. Init => RowsAgree
  BY DEF Init, RowsAgree
<1>2. TypeOK /\ RowsAgree /\ [Next]_vars => RowsAgree'
  BY RowsAgreeStep
<1> QED
  BY <1>1, <1>2, TypeCorrect, PTL DEF Spec

-----------------------------------------------------------------------------
(* Pipelines and their background jobs.                                    *)

\* the actions that start or end a pipeline or write background_jobs
LEMMA PipelineFrame ==
  ASSUME TypeOK, [Next]_vars
  PROVE  \/ bg' = bg /\ \A w \in Worker : Alive(w)' => Alive(w)
         \/ \E r \in Slots : CommitEnqueue(r) \/ CommitRetry(r) \/ CommitCancel(r)
         \/ \E b \in BackgroundJob : StartBackgroundJob(b)
         \/ \E d \in DevCalls : StartDevPipeline(d)
         \/ \E w \in Worker : CloseBackgroundJob(w)
<1> USE DEF dbVars, workerVars, TypeOK
<1> DEFINE Calm == bg' = bg /\ \A w \in Worker : Alive(w)' => Alive(w)
<1>1. ASSUME NEW r \in Slots, BeginRequest(r)
      PROVE  Calm
  BY <1>1 DEF BeginRequest, BeginEnqueue, BeginTrigger, BeginRetry, BeginCancel, Alive
<1>2. ASSUME NEW r \in Slots, \/ CommitTrigger(r) \/ RejectInsert(r) \/ FailRequest(r)
                              \/ MarkCancel(r) \/ CancelSnapshot(r)
      PROVE  Calm
  BY <1>2 DEF CommitTrigger, RejectInsert, FailRequest, MarkCancel, CancelSnapshot, Alive
<1>3. ASSUME NEW v \in Worker, NEW from, NEW to, Advance(v, from, to),
             from \notin {"idle", "done"}, bg' = bg
      PROVE  Calm
  BY <1>3 DEF Advance, Alive
<1>4. ASSUME NEW w \in Worker, \/ ReadSchedule(w) \/ CommitSchedule(w) \/ LoadJobs(w)
                               \/ \E k \in JobKey : StartJob(w, k)
                               \/ \E outcome \in Outcome : FinishJob(w, outcome)
      PROVE  Calm
  BY <1>3, <1>4 DEF ReadSchedule, CommitSchedule, LoadJobs, StartJob, FinishJob
<1>5. ASSUME NEW w \in Worker, \/ FinishExecution(w)
                               \/ \E bad \in SUBSET JobKey : PostProcess(w, bad)
                               \/ RefreshAudit(w) \/ Finalize(w) \/ TakeSnapshot(w)
      PROVE  Calm
  BY <1>3, <1>5 DEF FinishExecution, PostProcess, RefreshAudit, Finalize, TakeSnapshot
<1>l. ASSUME NEW w \in Worker, LoseTask(w)
      PROVE  Calm
  BY <1>l DEF LoseTask, Forget, Alive
<1>6. ASSUME NEW w \in Worker, PipelineFault(w)
      PROVE  Calm
  BY <1>3, <1>6, <1>l DEF PipelineFault, FailScheduling, RejectByPolicy, SkipJob,
                          FailPostProcessing, EscapeJob, EscapeConfiguration, Escape
<1>7. CASE Crash
  BY <1>7 DEF Crash, Forget, Alive
<1>8. CASE UNCHANGED vars
  BY <1>8 DEF vars, Alive
<1> QED
  BY <1>1, <1>2, <1>4, <1>5, <1>6, <1>7, <1>8 DEF Next, FinishRequest, PipelineStep

LEMMA LiveStep == TypeOK /\ LivePipelineIsActive /\ [Next]_vars => LivePipelineIsActive'
<1> SUFFICES ASSUME TypeOK, LivePipelineIsActive, [Next]_vars,
                    NEW b \in BackgroundJob, Alive(b)'
             PROVE  b \in ActiveJobs'
  BY DEF LivePipelineIsActive
<1> USE DEF ActiveJobs, ActiveBackgroundJobStatuses
<1>1. CASE bg' = bg /\ \A w \in Worker : Alive(w)' => Alive(w)
  BY <1>1 DEF LivePipelineIsActive, Worker
<1>2. ASSUME NEW r \in Slots, CommitEnqueue(r) \/ CommitRetry(r)
      PROVE  b \in ActiveJobs'
  BY <1>2 DEF CommitEnqueue, CommitRetry, EnqueueBackgroundJob, LivePipelineIsActive, Alive,
              TypeOK, Worker
<1>3. ASSUME NEW r \in Slots, CommitCancel(r)
      PROVE  b \in ActiveJobs'
  BY <1>3 DEF CommitCancel, WithCancelRequest, workerVars, LivePipelineIsActive, Alive, TypeOK
<1>4. ASSUME NEW c \in BackgroundJob, StartBackgroundJob(c)
      PROVE  b \in ActiveJobs'
  BY <1>4 DEF StartBackgroundJob, Advance, LivePipelineIsActive, Alive, TypeOK, Worker
<1>5. ASSUME NEW d \in DevCalls, StartDevPipeline(d)
      PROVE  b \in ActiveJobs'
  BY <1>5, ExecutionAssumption
     DEF ExecutionAssumption, StartDevPipeline, Advance, dbVars, LivePipelineIsActive, Alive,
         TypeOK, Worker
<1>6. ASSUME NEW w \in Worker, CloseBackgroundJob(w)
      PROVE  b \in ActiveJobs'
  BY <1>6 DEF CloseBackgroundJob, Forget, LivePipelineIsActive, Alive, TypeOK, Worker
<1> QED
  BY <1>1, <1>2, <1>3, <1>4, <1>5, <1>6, PipelineFrame

\* enqueue and retry look for active background jobs before they start a pipeline:
\* as long as a pipeline is at work they find its job, whatever a cancel request
\* and the start of the job do to each other.
THEOREM LivePipelinesAreActive == Spec => []LivePipelineIsActive
<1>1. Init => LivePipelineIsActive
  BY DEF Init, LivePipelineIsActive, Alive, Worker
<1>2. TypeOK /\ LivePipelineIsActive /\ [Next]_vars => LivePipelineIsActive'
  BY LiveStep
<1> QED
  BY <1>1, <1>2, TypeCorrect, PTL DEF Spec

-----------------------------------------------------------------------------
(* One pipeline at a time, in the serialized environment.                   *)

Serialized == (\A r, s \in Slots : r = s) /\ "dev" \notin Operations

\* enqueue and retry are past their check of the active jobs
StartersMeetNone ==
    \A r \in Slots : req[r].op \in {"enqueue", "retry"} => ActiveJobs = {}

\* The job a cancel request names may be over when the request commits, and is
\* then set to CANCEL_REQUESTED again; no other job becomes active before that.
CancelNamesTheActive ==
    \A r \in Slots : req[r].op \in {"cancel", "cancel_marked"} =>
        \A b \in req[r].target, c \in req[r].target \cup ActiveJobs : c = b

NoDevPipeline == \A d \in DevCalls : ~ Alive(d)

SerialInv ==
    /\ OneActiveBackgroundJob
    /\ StartersMeetNone
    /\ CancelNamesTheActive
    /\ LivePipelineIsActive
    /\ NoDevPipeline

\* the pipelines touch no request
LEMMA RequestFrame ==
  ASSUME [Next]_vars
  PROVE  \/ UNCHANGED req
         \/ \E r \in Slots : BeginRequest(r) \/ FinishRequest(r)
         \/ Crash
<1> USE DEF dbVars, workerVars
<1>1. ASSUME NEW w, StartDevPipeline(w) \/ PipelineFault(w)
      PROVE  UNCHANGED req
  BY <1>1 DEF StartDevPipeline, PipelineFault, FailScheduling, RejectByPolicy, SkipJob,
              FailPostProcessing, EscapeJob, EscapeConfiguration, Escape, LoseTask
<1>2. ASSUME NEW w, PipelineStep(w)
      PROVE  UNCHANGED req
  BY <1>2 DEF PipelineStep, StartBackgroundJob, ReadSchedule, CommitSchedule, LoadJobs,
              StartJob, FinishJob, FinishExecution, PostProcess, RefreshAudit, Finalize,
              TakeSnapshot, CloseBackgroundJob
<1>3. CASE UNCHANGED vars
  BY <1>3 DEF vars
<1> QED
  BY <1>1, <1>2, <1>3 DEF Next

\* ActiveJobs and requests under a handler
LEMMA SerialRequestStep ==
  ASSUME Serialized, TypeOK, SerialInv, NEW r \in Slots, BeginRequest(r) \/ FinishRequest(r)
  PROVE  OneActiveBackgroundJob' /\ StartersMeetNone' /\ CancelNamesTheActive'
<1> USE DEF SerialInv, dbVars, workerVars
<1>0. \A s \in Slots : s = r
  BY DEF Serialized
<1>a. Idle.op = "idle" /\ [Idle EXCEPT !.op = "enqueue"].op = "enqueue"
      /\ [Idle EXCEPT !.op = "cancel_snapshot"].op = "cancel_snapshot"
  BY DEF Idle
<1>1. CASE BeginEnqueue(r)
  <2>1. bg' = bg /\ ActiveJobs = {} /\ req'[r].op = "enqueue"
    BY <1>1, <1>a DEF BeginEnqueue, TypeOK
  <2> QED
    BY <2>1, <1>0 DEF ActiveJobs, OneActiveBackgroundJob, StartersMeetNone,
                      CancelNamesTheActive
<1>2. CASE BeginRetry(r)
  <2>1. bg' = bg /\ ActiveJobs = {} /\ req'[r].op = "retry"
    BY <1>2 DEF BeginRetry, MayRetry, TypeOK, Idle
  <2> QED
    BY <2>1, <1>0 DEF ActiveJobs, OneActiveBackgroundJob, StartersMeetNone,
                      CancelNamesTheActive
<1>3. CASE BeginTrigger(r)
  <2>1. bg' = bg /\ req'[r].op = "trigger"
    BY <1>3 DEF BeginTrigger, TypeOK, Idle
  <2> QED
    BY <2>1, <1>0 DEF ActiveJobs, OneActiveBackgroundJob, StartersMeetNone,
                      CancelNamesTheActive
<1>4. CASE BeginCancel(r)
  <2>1. bg' = bg /\ req'[r].op = "cancel" /\ req'[r].target \subseteq ActiveJobs
    BY <1>4 DEF BeginCancel, TypeOK, LatestActiveJob
  <2> QED
    BY <2>1, <1>0 DEF ActiveJobs, OneActiveBackgroundJob, StartersMeetNone,
                      CancelNamesTheActive
<1>5. CASE CommitEnqueue(r) \/ CommitRetry(r)
  <2>1. ActiveJobs = {}
    BY <1>5 DEF CommitEnqueue, CommitRetry, StartersMeetNone
  <2>2. PICK b \in BackgroundJob : bg' = [bg EXCEPT ![b] = "queued"]
    BY <1>5 DEF CommitEnqueue, CommitRetry, EnqueueBackgroundJob
  <2>3. ActiveJobs' \subseteq {b}
    BY <2>1, <2>2 DEF ActiveJobs, TypeOK
  <2>4. req'[r].op = "idle"
    BY <1>5, <1>a DEF CommitEnqueue, CommitRetry, TypeOK
  <2> QED
    BY <2>3, <2>4, <1>0 DEF OneActiveBackgroundJob, StartersMeetNone, CancelNamesTheActive
<1>6. CASE CommitTrigger(r) \/ RejectInsert(r) \/ FailRequest(r) \/ CancelSnapshot(r)
  <2>1. bg' = bg /\ req'[r].op = "idle"
    BY <1>6, <1>a DEF CommitTrigger, RejectInsert, FailRequest, CancelSnapshot, TypeOK
  <2> QED
    BY <2>1, <1>0 DEF ActiveJobs, OneActiveBackgroundJob, StartersMeetNone,
                      CancelNamesTheActive
<1>m. CASE MarkCancel(r)
  <2>1. /\ bg' = bg /\ req[r].op = "cancel" /\ req'[r].op = "cancel_marked"
        /\ req'[r].target = req[r].target
    BY <1>m DEF MarkCancel, TypeOK, Request
  <2> QED
    BY <2>1, <1>0 DEF ActiveJobs, OneActiveBackgroundJob, StartersMeetNone,
                      CancelNamesTheActive
<1>7. CASE CommitCancel(r)
  <2>1. bg' = WithCancelRequest(req[r].target) /\ req'[r].op = "cancel_snapshot"
    BY <1>7, <1>a DEF CommitCancel, TypeOK
  <2>2. \A b \in req[r].target, c \in req[r].target \cup ActiveJobs : c = b
    BY <1>7 DEF CommitCancel, CancelNamesTheActive
  <2>3. ActiveJobs' \subseteq ActiveJobs \cup req[r].target
    BY <2>1 DEF ActiveJobs, WithCancelRequest
  <2> QED
    BY <2>1, <2>2, <2>3, <1>0
    DEF OneActiveBackgroundJob, StartersMeetNone, CancelNamesTheActive
<1> QED
  BY <1>1, <1>2, <1>3, <1>4, <1>5, <1>6, <1>7, <1>m DEF BeginRequest, FinishRequest

LEMMA SerialStep ==
  ASSUME Serialized
  PROVE  TypeOK /\ SerialInv /\ [Next]_vars => SerialInv'
<1> SUFFICES ASSUME TypeOK, SerialInv, [Next]_vars
             PROVE  SerialInv'
  OBVIOUS
<1>1. LivePipelineIsActive'
  BY LiveStep DEF SerialInv
<1>2. NoDevPipeline'
  <2> SUFFICES ASSUME NEW d \in DevCalls, Alive(d)'
               PROVE  FALSE
    BY DEF NoDevPipeline
  <2> ~ Alive(d) /\ d \notin BackgroundJob /\ d \in Worker
    BY ExecutionAssumption DEF ExecutionAssumption, SerialInv, NoDevPipeline, Worker
  <2>1. ASSUME NEW r \in Slots, CommitEnqueue(r) \/ CommitRetry(r) \/ CommitCancel(r)
        PROVE  FALSE
    BY <2>1 DEF CommitEnqueue, CommitRetry, CommitCancel, EnqueueBackgroundJob, workerVars,
                Alive, TypeOK
  <2>2. ASSUME NEW b \in BackgroundJob, StartBackgroundJob(b)
        PROVE  FALSE
    BY <2>2 DEF StartBackgroundJob, Advance, Alive, TypeOK
  <2>3. ASSUME NEW e \in DevCalls, StartDevPipeline(e)
        PROVE  FALSE
    BY <2>3 DEF StartDevPipeline, Serialized
  <2>4. ASSUME NEW w \in Worker, CloseBackgroundJob(w)
        PROVE  FALSE
    BY <2>4 DEF CloseBackgroundJob, Forget, Alive, TypeOK
  <2> QED
    BY <2>1, <2>2, <2>3, <2>4, PipelineFrame
<1>3. OneActiveBackgroundJob' /\ StartersMeetNone' /\ CancelNamesTheActive'
  <2>1. ASSUME NEW r \in Slots, BeginRequest(r) \/ FinishRequest(r)
        PROVE  OneActiveBackgroundJob' /\ StartersMeetNone' /\ CancelNamesTheActive'
    BY <2>1, SerialRequestStep
  <2>2. CASE Crash
    BY <2>2 DEF Crash, dbVars, Idle, SerialInv, ActiveJobs, OneActiveBackgroundJob,
                StartersMeetNone, CancelNamesTheActive
  <2>3. ASSUME UNCHANGED req, ActiveJobs' \subseteq ActiveJobs
        PROVE  OneActiveBackgroundJob' /\ StartersMeetNone' /\ CancelNamesTheActive'
    BY <2>3 DEF SerialInv, OneActiveBackgroundJob, StartersMeetNone, CancelNamesTheActive
  <2>4. CASE bg' = bg
    BY <2>1, <2>2, <2>3, <2>4, RequestFrame DEF ActiveJobs
  <2>5. ASSUME NEW b \in BackgroundJob, StartBackgroundJob(b)
        PROVE  UNCHANGED req /\ ActiveJobs' \subseteq ActiveJobs
    <3>1. b \in ActiveJobs
      BY <2>5 DEF StartBackgroundJob, Advance, Alive, SerialInv, LivePipelineIsActive
    <3> QED
      BY <2>5, <3>1 DEF StartBackgroundJob, ActiveJobs, TypeOK
  <2>6. ASSUME NEW w \in Worker, CloseBackgroundJob(w)
        PROVE  UNCHANGED req /\ ActiveJobs' \subseteq ActiveJobs
    BY <2>6 DEF CloseBackgroundJob, ClosedBackgroundJobStatus, ActiveJobs,
                ActiveBackgroundJobStatuses
  <2>7. ASSUME NEW d \in DevCalls, StartDevPipeline(d)
        PROVE  bg' = bg
    BY <2>7 DEF StartDevPipeline, dbVars
  <2> QED
    BY <2>1, <2>3, <2>4, <2>5, <2>6, <2>7, PipelineFrame DEF FinishRequest
<1> QED
  BY <1>1, <1>2, <1>3 DEF SerialInv

LEMMA SerialInvariant ==
  ASSUME Serialized
  PROVE  Spec => []SerialInv
<1>1. Init => SerialInv
  BY DEF Init, SerialInv, OneActiveBackgroundJob, StartersMeetNone, CancelNamesTheActive,
         LivePipelineIsActive, NoDevPipeline, ActiveJobs, ActiveBackgroundJobStatuses, Idle,
         Alive, Worker
<1>2. TypeOK /\ SerialInv /\ [Next]_vars => SerialInv'
  BY SerialStep
<1> QED
  BY <1>1, <1>2, TypeCorrect, PTL DEF Spec

LEMMA SerialMeansOnePipeline == SerialInv => OnePipeline
BY DEF SerialInv, OnePipeline, OneActiveBackgroundJob, LivePipelineIsActive, NoDevPipeline,
       Worker

\* When requests come one at a time, the status checks of enqueue and retry are
\* enough to keep two pipelines from working on an audit together, also while a
\* cancel request and a finished job overwrite each other's status.
THEOREM NeverTwoPipelines ==
  ASSUME Serialized
  PROVE  Spec => []OnePipeline
BY SerialInvariant, SerialMeansOnePipeline, PTL

-----------------------------------------------------------------------------
(* Answers, in the serialized environment.                                  *)

\* What a pipeline still means to execute has not been executed, and only a
\* pipeline in a provider call keeps a row locked.
WorkOf(w) ==
    /\ ~ Alive(w) => todo[w] = {}
    /\ pc[w] # "provider_call" => held[w] = {}
    /\ pc[w] = "provider_call" => \E k \in JobKey : held[w] = {k} /\ k \notin todo[w]
    /\ \A k \in todo[w] \cup held[w] : runs[k] = "absent"
    /\ pc[w] \in {"execute", "provider_call"} =>
          \A k \in todo[w] \cup held[w] : jobs[k] # "absent"

WorkIsOpen == \A w \in Worker : WorkOf(w)

\* the rows of jobs are never deleted
LEMMA JobsStay ==
  ASSUME TypeOK, [Next]_vars, NEW k \in JobKey, jobs[k] # "absent"
  PROVE  jobs'[k] # "absent"
<1>1. ASSUME NEW r \in Slots, CommitTrigger(r) \/ CommitRetry(r) \/ CommitCancel(r)
      PROVE  jobs'[k] # "absent"
  BY <1>1 DEF CommitTrigger, CommitRetry, CommitCancel, JobsWith
<1>2. ASSUME NEW w \in Worker, CommitSchedule(w)
      PROVE  jobs'[k] # "absent"
  BY <1>2 DEF CommitSchedule, JobsWith
<1>3. ASSUME NEW w \in Worker, NEW outcome \in Outcome, FinishJob(w, outcome)
      PROVE  jobs'[k] # "absent"
  BY <1>3 DEF FinishJob, ClosedJobStatus
<1> QED
  BY <1>1, <1>2, <1>3, RowsFrame

\* the actions that write the work of a pipeline
LEMMA WorkFrame ==
  ASSUME TypeOK, [Next]_vars
  PROVE  \/ UNCHANGED <<pc, todo, held>>
         \/ \E r \in Slots : CommitEnqueue(r) \/ CommitRetry(r)
         \/ \E w \in Worker : PipelineStep(w) \/ PipelineFault(w) \/ StartDevPipeline(w)
         \/ Crash
<1> USE DEF workerVars, dbVars
<1>1. ASSUME NEW r \in Slots, BeginRequest(r)
      PROVE  UNCHANGED <<pc, todo, held>>
  BY <1>1 DEF BeginRequest, BeginEnqueue, BeginTrigger, BeginRetry, BeginCancel
<1>2. ASSUME NEW r \in Slots, \/ CommitTrigger(r) \/ RejectInsert(r) \/ FailRequest(r)
                              \/ MarkCancel(r) \/ CommitCancel(r) \/ CancelSnapshot(r)
      PROVE  UNCHANGED <<pc, todo, held>>
  BY <1>2 DEF CommitTrigger, RejectInsert, FailRequest, MarkCancel, CommitCancel, CancelSnapshot
<1> QED
  BY <1>1, <1>2 DEF Next, FinishRequest, vars, Worker

\* runs are written by FinishJob only
LEMMA RunsFrame ==
  ASSUME [Next]_vars
  PROVE  \/ UNCHANGED <<runs, raw>>
         \/ \E w \in Worker, outcome \in Outcome : FinishJob(w, outcome)
<1>1. ASSUME NEW r \in Slots, CommitTrigger(r) \/ CommitRetry(r) \/ CommitCancel(r)
      PROVE  UNCHANGED <<runs, raw>>
  BY <1>1 DEF CommitTrigger, CommitRetry, CommitCancel
<1>2. ASSUME NEW w \in Worker, CommitSchedule(w)
      PROVE  UNCHANGED <<runs, raw>>
  BY <1>2 DEF CommitSchedule
<1> QED
  BY <1>1, <1>2, RowsFrame

\* a pipeline whose work does not change, while no run is written
LEMMA WorkStays ==
  ASSUME TypeOK, WorkIsOpen, [Next]_vars, UNCHANGED runs,
         NEW w \in Worker, UNCHANGED <<pc[w], todo[w], held[w]>>
  PROVE  WorkOf(w)'
<1>1. todo[w] \subseteq JobKey /\ held[w] \subseteq JobKey
  BY DEF TypeOK
<1>2. \A k \in JobKey : jobs[k] # "absent" => jobs'[k] # "absent"
  BY JobsStay
<1> QED
  BY <1>1, <1>2 DEF WorkIsOpen, WorkOf, Alive

LEMMA WorkStep ==
  /\ TypeOK /\ RowsAgree /\ LivePipelineIsActive /\ OnePipeline /\ WorkIsOpen
  /\ [Next]_vars
  => WorkIsOpen'
<1> SUFFICES ASSUME TypeOK, RowsAgree, LivePipelineIsActive, OnePipeline, WorkIsOpen,
                    [Next]_vars, NEW v \in Worker
             PROVE  WorkOf(v)'
  BY DEF WorkIsOpen
<1>t. /\ \A w \in Worker : todo[w] \subseteq JobKey /\ held[w] \subseteq JobKey
      /\ WorkOf(v)
  BY DEF TypeOK, WorkIsOpen
<1>j. \A k \in JobKey : jobs[k] # "absent" => jobs'[k] # "absent"
  BY JobsStay
<1>1. ASSUME NEW w \in Worker, NEW outcome \in Outcome, FinishJob(w, outcome)
      PROVE  WorkOf(v)'
  <2>1. CASE v = w
    <3>1. PICK k \in JobKey : held[v] = {k} /\ k \notin todo[v]
      BY <1>1, <1>t, <2>1 DEF FinishJob, Advance, WorkOf
    <3>2. pc'[v] = "execute" /\ held'[v] = {} /\ todo'[v] = todo[v]
      BY <1>1, <2>1 DEF FinishJob, Advance, TypeOK
    <3>3. \A j \in todo[v] : runs'[j] = "absent"
      BY <1>1, <1>t, <2>1, <3>1 DEF FinishJob, WorkOf
    <3>4. \A j \in todo[v] : jobs'[j] # "absent"
      BY <1>1, <1>t, <1>j, <2>1 DEF FinishJob, Advance, WorkOf
    <3> QED
      BY <3>2, <3>3, <3>4 DEF WorkOf, Alive
  <2>2. CASE v # w
    <3>1. ~ Alive(v)
      BY <1>1, <2>2 DEF FinishJob, Advance, OnePipeline, Alive
    <3>2. todo[v] = {} /\ held[v] = {}
      BY <1>t, <3>1 DEF WorkOf, Alive
    <3> QED
      BY <1>1, <2>2, <3>1, <3>2 DEF FinishJob, Advance, WorkOf, Alive, TypeOK
  <2> QED
    BY <2>1, <2>2
<1> SUFFICES ASSUME UNCHANGED runs
             PROVE  WorkOf(v)'
  BY <1>1, RunsFrame
<1>2. ASSUME UNCHANGED <<pc[v], todo[v], held[v]>>
      PROVE  WorkOf(v)'
  BY <1>2, WorkStays
<1>3. ASSUME NEW r \in Slots, CommitEnqueue(r) \/ CommitRetry(r)
      PROVE  WorkOf(v)'
  <2>1. PICK b \in BackgroundJob : NextBackgroundJob(b) /\ pc' = [pc EXCEPT ![b] = "queued"]
    BY <1>3 DEF CommitEnqueue, CommitRetry, EnqueueBackgroundJob
  <2>2. UNCHANGED <<todo, held>>
    BY <1>3 DEF CommitEnqueue, CommitRetry
  <2>3. CASE v # b
    BY <1>2, <2>1, <2>2, <2>3 DEF TypeOK
  <2>4. CASE v = b
    <3>1. ~ Alive(v)
      BY <2>1, <2>4 DEF NextBackgroundJob, LivePipelineIsActive, ActiveJobs,
                        ActiveBackgroundJobStatuses
    <3>2. todo[v] = {} /\ held[v] = {} /\ pc'[v] = "queued"
      BY <1>t, <2>1, <2>4, <3>1 DEF WorkOf, Alive, TypeOK
    <3> QED
      BY <2>2, <3>2 DEF WorkOf
  <2> QED
    BY <2>3, <2>4
<1>4. ASSUME NEW w \in Worker, v # w, PipelineStep(w) \/ PipelineFault(w) \/ StartDevPipeline(w)
      PROVE  WorkOf(v)'
  <2> USE DEF Advance, TypeOK
  <2>1. UNCHANGED <<pc[v], todo[v], held[v]>>
    <3>1. CASE CloseBackgroundJob(w) \/ LoseTask(w)
      BY <1>4, <3>1 DEF CloseBackgroundJob, LoseTask, Forget
    <3>2. CASE PipelineFault(w) \/ StartDevPipeline(w)
      BY <1>4, <3>1, <3>2 DEF PipelineFault, FailScheduling, RejectByPolicy, SkipJob,
              FailPostProcessing, EscapeJob, EscapeConfiguration, Escape, StartDevPipeline
    <3>3. CASE \/ StartBackgroundJob(w) \/ ReadSchedule(w) \/ CommitSchedule(w)
               \/ LoadJobs(w) \/ \E k \in JobKey : StartJob(w, k)
               \/ \E outcome \in Outcome : FinishJob(w, outcome)
      BY <1>4, <3>3 DEF StartBackgroundJob, ReadSchedule, CommitSchedule, LoadJobs,
                        StartJob, FinishJob
    <3>4. CASE \/ FinishExecution(w) \/ \E bad \in SUBSET JobKey : PostProcess(w, bad)
               \/ RefreshAudit(w) \/ Finalize(w) \/ TakeSnapshot(w)
      BY <1>4, <3>4 DEF FinishExecution, PostProcess, RefreshAudit, Finalize, TakeSnapshot
    <3> QED
      BY <1>4, <3>1, <3>2, <3>3, <3>4 DEF PipelineStep
  <2> QED
    BY <1>2, <2>1
<1>5. CASE StartBackgroundJob(v) \/ StartDevPipeline(v)
  BY <1>5, <1>t DEF StartBackgroundJob, StartDevPipeline, Advance, WorkOf, Alive, TypeOK
<1>6. CASE ReadSchedule(v)
  <2>1. \A k \in MissingKeys : runs[k] = "absent"
    BY DEF MissingKeys, ScheduledKeys, RowsAgree
  <2> QED
    BY <1>6, <1>t, <2>1 DEF ReadSchedule, Advance, WorkOf, Alive, TypeOK
<1>7. CASE LoadJobs(v)
  <2>1. \A k \in PendingKeys : runs[k] = "absent" /\ jobs[k] # "absent"
    BY DEF PendingKeys, RowsAgree
  <2> QED
    BY <1>7, <1>t, <2>1 DEF LoadJobs, Advance, WorkOf, Alive, TypeOK, dbVars
<1>8. ASSUME NEW k \in JobKey, StartJob(v, k)
      PROVE  WorkOf(v)'
  <2>1. /\ pc'[v] = "provider_call" /\ held'[v] = {k} /\ todo'[v] = todo[v] \ {k}
        /\ k \in todo[v] /\ pc[v] = "execute" /\ UNCHANGED jobs
    BY <1>8 DEF StartJob, IsNextJob, Advance, TypeOK, dbVars
  <2> QED
    BY <1>t, <2>1 DEF WorkOf, Alive
<1>9. ASSUME NEW k \in JobKey, SkipJob(v, k)
      PROVE  WorkOf(v)'
  <2>1. /\ pc[v] = "execute" /\ pc'[v] = "execute" /\ held'[v] = held[v]
        /\ todo'[v] = todo[v] \ {k} /\ UNCHANGED jobs
    BY <1>9 DEF SkipJob, Advance, TypeOK, dbVars
  <2> QED
    BY <1>t, <2>1 DEF WorkOf, Alive
<1>10. CASE CommitSchedule(v) \/ FailScheduling(v) \/ EscapeJob(v) \/ EscapeConfiguration(v)
  <2>1. /\ pc'[v] \in {"load", "close"} /\ todo'[v] = {} /\ held'[v] = {}
    BY <1>10, <1>t DEF CommitSchedule, FailScheduling, EscapeJob, EscapeConfiguration,
                       Escape, Advance, TypeOK, WorkOf
  <2> QED
    BY <2>1 DEF WorkOf
<1>11. CASE \/ RejectByPolicy(v) \/ FinishExecution(v)
            \/ \E bad \in SUBSET JobKey : PostProcess(v, bad)
            \/ FailPostProcessing(v) \/ RefreshAudit(v) \/ Finalize(v) \/ TakeSnapshot(v)
  <2>1. /\ pc'[v] \in {"snapshot", "post_process", "refresh", "finalize", "close"}
        /\ todo'[v] = todo[v] /\ held'[v] = held[v]
        /\ pc[v] # "provider_call"
    BY <1>11 DEF RejectByPolicy, FinishExecution, PostProcess, FailPostProcessing,
                 RefreshAudit, Finalize, TakeSnapshot, Advance, TypeOK
  <2> QED
    BY <1>t, <2>1 DEF WorkOf, Alive
<1>12. CASE CloseBackgroundJob(v) \/ LoseTask(v)
  BY <1>12 DEF CloseBackgroundJob, LoseTask, Forget, WorkOf
<1>13. CASE Crash
  <2>1. CASE Alive(v)
    BY <1>13, <2>1 DEF Crash, Forget, WorkOf
  <2>2. CASE ~ Alive(v)
    BY <1>13, <1>2, <2>2 DEF Crash, Forget, TypeOK
  <2> QED
    BY <2>1, <2>2
<1>14. CASE PipelineStep(v) \/ PipelineFault(v) \/ StartDevPipeline(v)
  BY <1>1, <1>5, <1>6, <1>7, <1>8, <1>9, <1>10, <1>11, <1>12, <1>14
  DEF PipelineStep, PipelineFault
<1> QED
  BY <1>2, <1>3, <1>4, <1>13, <1>14, WorkFrame

LEMMA WorkInvariant ==
  ASSUME Serialized
  PROVE  Spec => []WorkIsOpen
<1>1. Init => WorkIsOpen
  BY DEF Init, WorkIsOpen, WorkOf, Alive
<1>2. /\ TypeOK /\ RowsAgree /\ LivePipelineIsActive /\ OnePipeline /\ WorkIsOpen
      /\ [Next]_vars
      => WorkIsOpen'
  BY WorkStep
<1> QED
  BY <1>1, <1>2, TypeCorrect, RowsAlwaysAgree, LivePipelinesAreActive, NeverTwoPipelines, PTL
  DEF Spec

\* FinishJob executes a job that was never executed.
LEMMA FinishJobAnswersOnce ==
  ASSUME TypeOK, WorkIsOpen, NEW w \in Worker, NEW outcome \in Outcome, FinishJob(w, outcome)
  PROVE  \E k \in JobKey :
           /\ held[w] = {k} /\ runs[k] = "absent" /\ jobs[k] # "absent"
           /\ runs' = [runs EXCEPT ![k] = outcome]
           /\ raw' = [raw EXCEPT ![k] = raw[k] + 1]
           /\ jobs' = [jobs EXCEPT ![k] = ClosedJobStatus(outcome)]
<1>1. pc[w] = "provider_call" /\ WorkOf(w)
  BY DEF FinishJob, Advance, WorkIsOpen
<1>2. PICK k \in JobKey : held[w] = {k}
  BY <1>1 DEF WorkOf
<1>3. runs[k] = "absent" /\ jobs[k] # "absent"
  BY <1>1, <1>2 DEF WorkOf
<1> QED
  BY <1>2, <1>3 DEF FinishJob, TypeOK

\* A run and its raw response are written once: no retry, no cancellation and no
\* restart makes a pipeline answer again what was answered.
THEOREM AnswersStayFinal ==
  ASSUME Serialized
  PROVE  Spec => AnswersAreFinal
<1>1. ASSUME TypeOK, WorkIsOpen, [Next]_vars
      PROVE  \A k \in JobKey :
                runs[k] # "absent" => runs'[k] = runs[k] /\ raw'[k] = raw[k]
  <2>1. ASSUME NEW w \in Worker, NEW outcome \in Outcome, FinishJob(w, outcome)
        PROVE  \A k \in JobKey :
                  runs[k] # "absent" => runs'[k] = runs[k] /\ raw'[k] = raw[k]
    BY <1>1, <2>1, FinishJobAnswersOnce DEF TypeOK
  <2> QED
    BY <1>1, <2>1, RunsFrame
<1> QED
  BY <1>1, TypeCorrect, WorkInvariant, PTL DEF Spec, AnswersAreFinal

-----------------------------------------------------------------------------
(* The refinement of AnswerLedger.                                         *)

LEMMA LedgerStep ==
  ASSUME TypeOK, WorkIsOpen, [Next]_vars
  PROVE  [Ledger!Next]_(Ledger!vars)
<1> DEFINE asked == {k \in JobKey : jobs[k] # "absent"}
<1>1. ASSUME NEW keys \in SUBSET JobKey, asked' = asked \cup keys, UNCHANGED runs
      PROVE  Ledger!Next
  BY <1>1 DEF Ledger!Next, Ledger!Ask
<1>2. CASE UNCHANGED <<jobs, runs, raw>>
  BY <1>2 DEF Ledger!vars
<1>3. ASSUME NEW r \in Slots, CommitTrigger(r) \/ CommitRetry(r) \/ CommitCancel(r)
      PROVE  Ledger!Next
  <2>1. req[r].keys \in SUBSET JobKey
    BY DEF TypeOK, Request
  <2>2. asked' = asked \cup req[r].keys
    BY <1>3, <2>1 DEF CommitTrigger, CommitRetry, CommitCancel, JobsWith
  <2> QED
    BY <1>1, <1>3, <2>1, <2>2 DEF CommitTrigger, CommitRetry, CommitCancel
<1>4. ASSUME NEW w \in Worker, CommitSchedule(w)
      PROVE  Ledger!Next
  <2>1. todo[w] \in SUBSET JobKey
    BY DEF TypeOK
  <2>2. asked' = asked \cup todo[w]
    BY <1>4, <2>1 DEF CommitSchedule, JobsWith
  <2> QED
    BY <1>1, <1>4, <2>1, <2>2 DEF CommitSchedule
<1>5. ASSUME NEW w \in Worker, NEW outcome \in Outcome, FinishJob(w, outcome)
      PROVE  Ledger!Next
  <2>1. PICK k \in JobKey :
           /\ runs[k] = "absent" /\ jobs[k] # "absent"
           /\ runs' = [runs EXCEPT ![k] = outcome]
           /\ jobs' = [jobs EXCEPT ![k] = ClosedJobStatus(outcome)]
    BY <1>5, FinishJobAnswersOnce
  <2>2. asked' = asked
    BY <2>1 DEF ClosedJobStatus, TypeOK
  <2>3. Ledger!Answer(k, outcome)
    BY <2>1, <2>2 DEF Ledger!Answer
  <2> QED
    BY <2>3 DEF Ledger!Next
<1> QED
  BY <1>2, <1>3, <1>4, <1>5, RowsFrame

\* The jobs, pipelines, retries and cancellations of an audit implement the ledger
\* of questions and answers.
THEOREM ImplementsLedger ==
  ASSUME Serialized
  PROVE  Spec => LedgerSpec
<1>1. Init => Ledger!Init
  BY DEF Init, Ledger!Init
<1>2. TypeOK /\ WorkIsOpen /\ [Next]_vars => [Ledger!Next]_(Ledger!vars)
  BY LedgerStep
<1> QED
  BY <1>1, <1>2, TypeCorrect, WorkInvariant, PTL DEF Spec, LedgerSpec, Ledger!Spec

-----------------------------------------------------------------------------
(* What is derived from the answers.                                       *)

\* the actions that write parsed results and snapshots
LEMMA DerivedFrame ==
  ASSUME [Next]_vars
  PROVE  \/ UNCHANGED <<parsed, snapshots>>
         \/ \E w \in Worker, bad \in SUBSET JobKey :
              PostProcess(w, bad) /\ UNCHANGED <<runs, raw, snapshots>>
         \/ SnapshotsAfterCall = snapshots' /\ UNCHANGED <<runs, raw, parsed>>
<1> USE DEF dbVars, workerVars
<1>1. ASSUME NEW r \in Slots, BeginRequest(r) \/ FinishRequest(r), ~ CancelSnapshot(r)
      PROVE  UNCHANGED <<parsed, snapshots>>
  BY <1>1 DEF BeginRequest, BeginEnqueue, BeginTrigger, BeginRetry, BeginCancel,
              FinishRequest, CommitEnqueue, CommitTrigger, CommitRetry, RejectInsert,
              FailRequest, MarkCancel, CommitCancel
<1>2. ASSUME NEW r \in Slots, CancelSnapshot(r)
      PROVE  \/ UNCHANGED <<parsed, snapshots>>
             \/ SnapshotsAfterCall = snapshots' /\ UNCHANGED <<runs, raw, parsed>>
  BY <1>2 DEF CancelSnapshot
<1>3. ASSUME NEW w, \/ StartBackgroundJob(w) \/ StartDevPipeline(w) \/ ReadSchedule(w)
                    \/ CommitSchedule(w) \/ LoadJobs(w) \/ \E k \in JobKey : StartJob(w, k)
                    \/ \E outcome \in Outcome : FinishJob(w, outcome)
      PROVE  UNCHANGED <<parsed, snapshots>>
  BY <1>3 DEF StartBackgroundJob, StartDevPipeline, ReadSchedule, CommitSchedule, LoadJobs,
              StartJob, FinishJob
<1>4. ASSUME NEW w, \/ FinishExecution(w) \/ RefreshAudit(w) \/ Finalize(w)
                    \/ CloseBackgroundJob(w) \/ PipelineFault(w)
      PROVE  UNCHANGED <<parsed, snapshots>>
  BY <1>4 DEF FinishExecution, RefreshAudit, Finalize, CloseBackgroundJob, PipelineFault,
              FailScheduling, RejectByPolicy, SkipJob, FailPostProcessing, EscapeJob,
              EscapeConfiguration, Escape, LoseTask
<1>5. ASSUME NEW w, NEW bad, PostProcess(w, bad)
      PROVE  UNCHANGED <<runs, raw, snapshots>>
  BY <1>5 DEF PostProcess
<1>6. ASSUME NEW w, TakeSnapshot(w)
      PROVE  \/ UNCHANGED <<parsed, snapshots>>
             \/ SnapshotsAfterCall = snapshots' /\ UNCHANGED <<runs, raw, parsed>>
  BY <1>6 DEF TakeSnapshot
<1>7. CASE Crash \/ UNCHANGED vars
  BY <1>7 DEF Crash, vars
<1> QED
  BY <1>1, <1>2, <1>3, <1>4, <1>5, <1>6, <1>7 DEF Next, PipelineStep

LEMMA DerivedStep ==
  /\ TypeOK /\ RowsAgree /\ WorkIsOpen /\ DerivedDataIsCurrent /\ [Next]_vars
  => DerivedDataIsCurrent'
<1> SUFFICES ASSUME TypeOK, RowsAgree, WorkIsOpen, DerivedDataIsCurrent, [Next]_vars,
                    NEW k \in JobKey, parsed'[k] > 0
             PROVE  parsed'[k] = raw'[k]
  BY DEF DerivedDataIsCurrent
<1>1. parsed[k] > 0 => raw'[k] = raw[k]
  <2>1. ASSUME NEW w \in Worker, NEW outcome \in Outcome, FinishJob(w, outcome),
               parsed[k] > 0
        PROVE  raw'[k] = raw[k]
    <3>1. PICK j \in JobKey : runs[j] = "absent" /\ raw' = [raw EXCEPT ![j] = raw[j] + 1]
      BY <2>1, FinishJobAnswersOnce
    <3>2. runs[k] # "absent"
      BY <2>1 DEF DerivedDataIsCurrent, RowsAgree, TypeOK
    <3> QED
      BY <3>1, <3>2 DEF TypeOK
  <2> QED
    BY <2>1, RunsFrame
<1>2. CASE UNCHANGED parsed
  BY <1>1, <1>2 DEF DerivedDataIsCurrent
<1>3. ASSUME NEW w \in Worker, NEW bad \in SUBSET JobKey,
             PostProcess(w, bad), UNCHANGED raw
      PROVE  parsed'[k] = raw'[k]
  BY <1>3 DEF PostProcess, DerivedDataIsCurrent
<1> QED
  BY <1>2, <1>3, DerivedFrame

\* Parsed results and scores are made once and never of an answer that was replaced
\* afterwards.
THEOREM DerivedDataStaysCurrent ==
  ASSUME Serialized
  PROVE  Spec => []DerivedDataIsCurrent
<1>1. Init => DerivedDataIsCurrent
  BY DEF Init, DerivedDataIsCurrent
<1>2. /\ TypeOK /\ RowsAgree /\ WorkIsOpen /\ DerivedDataIsCurrent /\ [Next]_vars
      => DerivedDataIsCurrent'
  BY DerivedStep
<1> QED
  BY <1>1, <1>2, TypeCorrect, RowsAlwaysAgree, WorkInvariant, PTL DEF Spec

LEMMA SuccessStays ==
  ASSUME TypeOK, WorkIsOpen, [Next]_vars
  PROVE  Cardinality(SuccessKeys) \in Nat /\ Cardinality(SuccessKeys') \in Nat
         /\ Cardinality(SuccessKeys) <= Cardinality(SuccessKeys')
<1>1. ASSUME NEW w \in Worker, NEW outcome \in Outcome, FinishJob(w, outcome)
      PROVE  SuccessKeys \subseteq SuccessKeys'
  BY <1>1, FinishJobAnswersOnce DEF SuccessKeys, TypeOK
<1>2. SuccessKeys \subseteq SuccessKeys'
  BY <1>1, RunsFrame DEF SuccessKeys
<1>3. SuccessKeys' \in SUBSET JobKey
  BY DEF SuccessKeys
<1> QED
  BY <1>2, <1>3, JobKeyFinite, FS_Subset, FS_CardinalityType

LEMMA SnapshotStep ==
  /\ TypeOK /\ WorkIsOpen /\ SnapshotNeverOverstates /\ [Next]_vars
  => SnapshotNeverOverstates'
<1> SUFFICES ASSUME TypeOK, WorkIsOpen, SnapshotNeverOverstates, [Next]_vars,
                    NEW s \in snapshots'
             PROVE  s.completed_runs <= Cardinality(SuccessKeys')
  BY DEF SnapshotNeverOverstates
<1>1. CASE s \in snapshots
  <2>1. s.completed_runs \in Nat /\ s.completed_runs <= Cardinality(SuccessKeys)
    BY <1>1 DEF SnapshotNeverOverstates, TypeOK, Snapshot
  <2> QED
    BY <2>1, SuccessStays
<1>2. CASE s \notin snapshots
  <2>1. s.completed_runs = Cardinality(SuccessKeys)
    BY <1>2, DerivedFrame DEF SnapshotsAfterCall
  <2> QED
    BY <2>1, SuccessStays
<1> QED
  BY <1>1, <1>2

\* Successful runs stay, so what a metrics snapshot counted remains true of the audit
\* when it is retried afterwards; only what the retry adds is missing from it.
THEOREM SnapshotsNeverOverstate ==
  ASSUME Serialized
  PROVE  Spec => []SnapshotNeverOverstates
<1>1. Init => SnapshotNeverOverstates
  BY DEF Init, SnapshotNeverOverstates
<1>2. /\ TypeOK /\ WorkIsOpen /\ SnapshotNeverOverstates /\ [Next]_vars
      => SnapshotNeverOverstates'
  BY SnapshotStep
<1> QED
  BY <1>1, <1>2, TypeCorrect, WorkInvariant, PTL DEF Spec

-----------------------------------------------------------------------------
(* Row locks.                                                              *)

\* A job row is locked only during the provider call.
LockedOnlyInCall == \A w \in Worker : pc[w] # "provider_call" => held[w] = {}

LEMMA LockedStep ==
  TypeOK /\ LivePipelineIsActive /\ LockedOnlyInCall /\ [Next]_vars => LockedOnlyInCall'
<1> SUFFICES ASSUME TypeOK, LivePipelineIsActive, LockedOnlyInCall, [Next]_vars
             PROVE  LockedOnlyInCall'
  OBVIOUS
<1> USE DEF TypeOK, workerVars
<1>1. CASE UNCHANGED <<pc, held>>
  BY <1>1 DEF LockedOnlyInCall
<1>2. ASSUME NEW w \in Worker, NEW from, NEW to, Advance(w, from, to),
             from # "provider_call", held' = held
      PROVE  LockedOnlyInCall'
  BY <1>2 DEF Advance, LockedOnlyInCall
<1>3. ASSUME NEW r \in Slots, CommitEnqueue(r) \/ CommitRetry(r)
      PROVE  LockedOnlyInCall'
  <2>1. PICK b \in BackgroundJob : NextBackgroundJob(b) /\ pc' = [pc EXCEPT ![b] = "queued"]
    BY <1>3 DEF CommitEnqueue, CommitRetry, EnqueueBackgroundJob
  <2>2. held' = held
    BY <1>3 DEF CommitEnqueue, CommitRetry
  <2>3. pc[b] # "provider_call"
    BY <2>1
       DEF NextBackgroundJob, LivePipelineIsActive, Alive, ActiveJobs, ActiveBackgroundJobStatuses
  <2> QED
    BY <2>1, <2>2, <2>3 DEF LockedOnlyInCall
<1>4. ASSUME NEW w \in Worker, StartDevPipeline(w)
      PROVE  LockedOnlyInCall'
  BY <1>2, <1>4 DEF StartDevPipeline
<1>5. ASSUME NEW w \in Worker, PipelineStep(w)
      PROVE  LockedOnlyInCall'
  <2>1. ASSUME NEW k \in JobKey, StartJob(w, k) PROVE LockedOnlyInCall'
    BY <2>1 DEF StartJob, Advance, LockedOnlyInCall
  <2>2. ASSUME NEW outcome \in Outcome, FinishJob(w, outcome) PROVE LockedOnlyInCall'
    BY <2>2 DEF FinishJob, Advance, LockedOnlyInCall
  <2>3. CASE CloseBackgroundJob(w)
    BY <2>3 DEF CloseBackgroundJob, Forget, LockedOnlyInCall
  <2>4. CASE w \in BackgroundJob /\ StartBackgroundJob(w)
    BY <1>2, <2>4 DEF StartBackgroundJob
  <2>5. CASE ReadSchedule(w) \/ CommitSchedule(w) \/ LoadJobs(w) \/ FinishExecution(w)
    BY <1>2, <2>5 DEF ReadSchedule, CommitSchedule, LoadJobs, FinishExecution
  <2>6. CASE (\E bad \in SUBSET JobKey : PostProcess(w, bad)) \/ RefreshAudit(w) \/ Finalize(w)
             \/ TakeSnapshot(w)
    BY <1>2, <2>6 DEF PostProcess, RefreshAudit, Finalize, TakeSnapshot
  <2> QED
    BY <1>5, <2>1, <2>2, <2>3, <2>4, <2>5, <2>6 DEF PipelineStep
<1>6. ASSUME NEW w \in Worker, PipelineFault(w)
      PROVE  LockedOnlyInCall'
  <2>1. ASSUME NEW stage, Escape(w, stage) PROVE LockedOnlyInCall'
    BY <2>1 DEF Escape, Advance, LockedOnlyInCall
  <2>2. CASE EscapeJob(w) \/ EscapeConfiguration(w)
    BY <2>1, <2>2 DEF EscapeJob, EscapeConfiguration
  <2>3. CASE LoseTask(w)
    BY <2>3 DEF LoseTask, Forget, LockedOnlyInCall
  <2>4. CASE \/ FailScheduling(w) \/ RejectByPolicy(w) \/ FailPostProcessing(w)
             \/ \E k \in JobKey : SkipJob(w, k)
    BY <1>2, <2>4 DEF FailScheduling, RejectByPolicy, SkipJob, FailPostProcessing
  <2> QED
    BY <1>6, <2>2, <2>3, <2>4 DEF PipelineFault
<1>7. CASE Crash
  BY <1>7 DEF Crash, Forget, LockedOnlyInCall, Alive
<1> QED
  BY <1>1, <1>3, <1>4, <1>5, <1>6, <1>7, WorkFrame

\* A pipeline that holds a job row waits for its provider only; where none does, a
\* cancel request that has marked a background job can commit; where none has,
\* nothing is locked.
LEMMA HoldersGoOn == TypeOK /\ LockedOnlyInCall => SomeoneCanGoOn
<1> SUFFICES ASSUME TypeOK, LockedOnlyInCall PROVE SomeoneCanGoOn
  OBVIOUS
<1>1. ASSUME NEW w \in Worker, held[w] # {} PROVE SomeoneCanGoOn
  BY <1>1 DEF LockedOnlyInCall, SomeoneCanGoOn, Alive, PipelineWaits
<1>2. ASSUME \A w \in Worker : held[w] = {} PROVE SomeoneCanGoOn
  <2>1. \A waiting : LockedKeys(waiting) = {}
    BY <1>2 DEF LockedKeys
  <2>2. ASSUME NEW r \in Slots, req[r].op = "cancel_marked" PROVE SomeoneCanGoOn
    <3>1. ~ RequestWaits(r)
      BY <2>1, <2>2 DEF RequestWaits
    <3> QED
      BY <2>2, <3>1 DEF SomeoneCanGoOn
  <2>3. ASSUME \A r \in Slots : req[r].op # "cancel_marked" PROVE SomeoneCanGoOn
    <3>1. LockedBackgroundJobs = {}
      BY <2>3 DEF LockedBackgroundJobs
    <3>2. \A r \in Slots : ~ RequestWaits(r)
      BY <2>3, <3>1 DEF RequestWaits
    <3>3. \A w \in Worker : ~ PipelineWaits(w)
      BY <2>1, <3>1 DEF PipelineWaits
    <3> QED
      BY <3>2, <3>3 DEF SomeoneCanGoOn
  <2> QED
    BY <2>2, <2>3
<1> QED
  BY <1>1, <1>2

\* Any number of pipelines and cancel requests, on the same rows, with restarts and
\* errors: of those at work one always goes on (execute_job commits before the next
\* job is touched; a cancel request locks the background job before the jobs).
THEOREM PipelinesNeverDeadlock == Spec => []SomeoneCanGoOn
<1>1. Init => LockedOnlyInCall
  BY DEF Init, LockedOnlyInCall
<1>2. TypeOK /\ LivePipelineIsActive /\ LockedOnlyInCall /\ [Next]_vars => LockedOnlyInCall'
  BY LockedStep
<1> QED
  BY <1>1, <1>2, HoldersGoOn, TypeCorrect, LivePipelinesAreActive, PTL DEF Spec
=============================================================================
