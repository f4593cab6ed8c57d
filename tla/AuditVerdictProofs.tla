------------------------- MODULE AuditVerdictProofs -------------------------
(***************************************************************************)
(* Theorems about the verdict on an audit: what FAILED and PARTIAL say of  *)
(* its answers, in the serialized environment of AuditExecutionProofs and  *)
(* without the faults whose handlers write a verdict of their own.         *)
(***************************************************************************)
EXTENDS AuditExecutionProofs

-----------------------------------------------------------------------------
(* What may happen around a pipeline that is at work.                      *)

\* pipelines come to life by enqueue and retry
LEMMA AliveFrame ==
  ASSUME Serialized, TypeOK, [Next]_vars
  PROVE  \/ \A w \in Worker : Alive(w)' => Alive(w)
         \/ \E r \in Slots : CommitEnqueue(r) \/ CommitRetry(r)
<1>1. ASSUME NEW r \in Slots, CommitCancel(r)
      PROVE  \A w \in Worker : Alive(w)' => Alive(w)
  BY <1>1 DEF CommitCancel, workerVars, Alive
<1>2. ASSUME NEW b \in BackgroundJob, StartBackgroundJob(b)
      PROVE  \A w \in Worker : Alive(w)' => Alive(w)
  BY <1>2 DEF StartBackgroundJob, Advance, Alive, TypeOK
<1>3. ASSUME NEW d \in DevCalls, StartDevPipeline(d)
      PROVE  FALSE
  BY <1>3 DEF StartDevPipeline, Serialized
<1>4. ASSUME NEW w \in Worker, CloseBackgroundJob(w)
      PROVE  \A v \in Worker : Alive(v)' => Alive(v)
  BY <1>4 DEF CloseBackgroundJob, Forget, Alive, TypeOK
<1> QED
  BY <1>1, <1>2, <1>3, <1>4, PipelineFrame

LEMMA StartersStartAlone ==
  ASSUME SerialInv, NEW r \in Slots, req[r].op \in {"enqueue", "retry"}, NEW w \in Worker
  PROVE  ~ Alive(w)
BY DEF SerialInv, StartersMeetNone, LivePipelineIsActive, NoDevPipeline, Worker

\* a pipeline at work meets its own steps, a cancel or trigger request, or the end
\* of the process
LEMMA AtWork ==
  ASSUME Serialized, TypeOK, SerialInv, [Next]_vars, NEW w \in Worker, Alive(w)
  PROVE  \/ /\ UNCHANGED <<pc[w], seen[w], todo[w], held[w], trouble[w], parsed, runs>>
            /\ \/ UNCHANGED <<audit, jobs>>
               \/ \E r \in Slots : CommitTrigger(r) \/ CommitCancel(r)
         \/ PipelineStep(w)
         \/ PipelineFault(w)
         \/ Crash
<1> USE DEF dbVars, workerVars
<1>1. ASSUME NEW r \in Slots, BeginRequest(r)
      PROVE  UNCHANGED <<dbVars, workerVars>>
  BY <1>1 DEF BeginRequest, BeginEnqueue, BeginTrigger, BeginRetry, BeginCancel
<1>2. ASSUME NEW r \in Slots, \/ CommitTrigger(r) \/ RejectInsert(r) \/ FailRequest(r)
                              \/ MarkCancel(r) \/ CommitCancel(r) \/ CancelSnapshot(r)
      PROVE  /\ UNCHANGED <<workerVars, parsed, runs>>
             /\ UNCHANGED <<audit, jobs>> \/ CommitTrigger(r) \/ CommitCancel(r)
  BY <1>2 DEF CommitTrigger, RejectInsert, FailRequest, MarkCancel, CommitCancel,
              CancelSnapshot
<1>3. ASSUME NEW r \in Slots, CommitEnqueue(r) \/ CommitRetry(r)
      PROVE  FALSE
  BY <1>3, StartersStartAlone DEF CommitEnqueue, CommitRetry
<1>4. ASSUME NEW d \in DevCalls, StartDevPipeline(d)
      PROVE  FALSE
  BY <1>4 DEF StartDevPipeline, Serialized
<1>5. ASSUME NEW v \in Worker, PipelineStep(v) \/ PipelineFault(v)
      PROVE  v = w
  <2>1. Alive(v)
    <3>1. CASE PipelineFault(v)
      BY <3>1 DEF PipelineFault, FailScheduling, RejectByPolicy, SkipJob,
              FailPostProcessing, EscapeJob, EscapeConfiguration, Escape, LoseTask, Advance,
              Alive
    <3>2. CASE \/ StartBackgroundJob(v) \/ ReadSchedule(v) \/ CommitSchedule(v)
               \/ LoadJobs(v) \/ \E k \in JobKey : StartJob(v, k)
               \/ \E outcome \in Outcome : FinishJob(v, outcome)
      BY <3>2 DEF StartBackgroundJob, ReadSchedule, CommitSchedule, LoadJobs, StartJob,
              FinishJob, Advance, Alive
    <3>3. CASE \/ FinishExecution(v) \/ \E bad \in SUBSET JobKey : PostProcess(v, bad)
               \/ RefreshAudit(v) \/ Finalize(v) \/ TakeSnapshot(v) \/ CloseBackgroundJob(v)
      BY <3>3 DEF FinishExecution, PostProcess, RefreshAudit, Finalize, TakeSnapshot,
              CloseBackgroundJob, Advance, Alive
    <3> QED
      BY <1>5, <3>1, <3>2, <3>3 DEF PipelineStep
  <2> QED
    BY <2>1, SerialMeansOnePipeline DEF OnePipeline
<1>6. CASE UNCHANGED vars
  BY <1>6 DEF vars
<1> QED
  BY <1>1, <1>2, <1>3, <1>4, <1>5, <1>6 DEF Next, FinishRequest

\* the actions that write audits.status
LEMMA AuditFrame ==
  ASSUME [Next]_vars
  PROVE  \/ UNCHANGED audit
         \/ \E r \in Slots : \/ CommitEnqueue(r) \/ CommitTrigger(r)
                             \/ CommitRetry(r) \/ CommitCancel(r)
         \/ \E w \in Worker : \/ CommitSchedule(w) \/ FailScheduling(w) \/ RejectByPolicy(w)
                              \/ FailPostProcessing(w) \/ Finalize(w)
         \/ \E w \in Worker, bad \in SUBSET JobKey : PostProcess(w, bad)
<1> USE DEF dbVars, workerVars
<1>1. ASSUME NEW r \in Slots, BeginRequest(r)
      PROVE  UNCHANGED audit
  BY <1>1 DEF BeginRequest, BeginEnqueue, BeginTrigger, BeginRetry, BeginCancel
<1>2. ASSUME NEW r \in Slots, \/ RejectInsert(r) \/ FailRequest(r) \/ MarkCancel(r)
                              \/ CancelSnapshot(r)
      PROVE  UNCHANGED audit
  BY <1>2 DEF RejectInsert, FailRequest, MarkCancel, CancelSnapshot
<1>3. ASSUME NEW w, \/ StartBackgroundJob(w) \/ StartDevPipeline(w) \/ ReadSchedule(w)
                    \/ LoadJobs(w) \/ \E k \in JobKey : StartJob(w, k)
                    \/ \E outcome \in Outcome : FinishJob(w, outcome)
      PROVE  UNCHANGED audit
  BY <1>3 DEF StartBackgroundJob, StartDevPipeline, ReadSchedule, LoadJobs, StartJob, FinishJob
<1>4. ASSUME NEW w, \/ FinishExecution(w) \/ RefreshAudit(w) \/ TakeSnapshot(w)
                    \/ CloseBackgroundJob(w) \/ LoseTask(w)
                    \/ \E k \in JobKey : SkipJob(w, k)
                    \/ EscapeJob(w) \/ EscapeConfiguration(w)
      PROVE  UNCHANGED audit
  BY <1>4 DEF FinishExecution, RefreshAudit, TakeSnapshot, CloseBackgroundJob, LoseTask,
              SkipJob, EscapeJob, EscapeConfiguration, Escape
<1>5. CASE Crash \/ UNCHANGED vars
  BY <1>5 DEF Crash, vars
<1> QED
  BY <1>1, <1>2, <1>3, <1>4, <1>5 DEF Next, FinishRequest, PipelineStep, PipelineFault

-----------------------------------------------------------------------------
(* FAILED.  It is written by the pipeline that finds nothing usable, or by *)
(* one that cannot schedule its jobs; the second never happens here, since *)
(* nobody inserts a job between its read and its commit.                   *)

RetryLeavesRunning == \A r \in Slots : req[r].op = "retry" => req[r].audit # "running"

TriggersMeetNone == \A r \in Slots : req[r].op = "trigger" => \A w \in Worker : ~ Alive(w)

CancelNamesRows ==
    \A r \in Slots : req[r].op = "cancel_marked" => \A k \in req[r].keys : jobs[k] # "absent"

CreatedIsIdle == audit = "created" => \A w \in Worker : ~ Alive(w)

\* no job appears between the read and the commit of the scheduler
FreshSchedule == \A w \in Worker : pc[w] = "schedule_commit" => ~ Conflicts(todo[w])

\* a pipeline before its post-processing commits
Working == {"queued", "schedule_read", "schedule_commit", "load", "execute",
            "provider_call", "post_process"}

WorkingIsNotFailed == \A w \in Worker : pc[w] \in Working => audit # "failed"

FailedInv ==
    /\ RetryLeavesRunning
    /\ TriggersMeetNone
    /\ CancelNamesRows
    /\ CreatedIsIdle
    /\ FreshSchedule
    /\ WorkingIsNotFailed
    /\ FailedMeansNothingUsable

LEMMA RetrySetsRunning ==
  ASSUME RetryLeavesRunning, NEW r \in Slots, CommitRetry(r)
  PROVE  audit' = "running"
BY DEF RetryLeavesRunning, CommitRetry, FlushStatus

LEMMA RequestsStep ==
  ASSUME Serialized, TypeOK, SerialInv, FailedInv, [Next]_vars
  PROVE  RetryLeavesRunning' /\ TriggersMeetNone' /\ CancelNamesRows'
<1> DEFINE Goal(s) ==
      /\ req'[s].op = "retry" => req'[s].audit # "running"
      /\ req'[s].op = "trigger" => \A w \in Worker : ~ Alive(w)'
      /\ req'[s].op = "cancel_marked" => \A k \in req'[s].keys : jobs'[k] # "absent"
<1> SUFFICES ASSUME NEW s \in Slots
             PROVE  Goal(s)
  BY DEF RetryLeavesRunning, TriggersMeetNone, CancelNamesRows
<1> USE DEF dbVars, workerVars
<1>1. CASE UNCHANGED req
  <2>1. req[s].op = "trigger" => \A w \in Worker : ~ Alive(w)'
    <3>1. ASSUME NEW r \in Slots, CommitEnqueue(r) \/ CommitRetry(r)
          PROVE  req[s].op # "trigger"
      BY <3>1 DEF CommitEnqueue, CommitRetry, Serialized
    <3> QED
      BY <3>1, AliveFrame DEF FailedInv, TriggersMeetNone
  <2>2. \A k \in JobKey : jobs[k] # "absent" => jobs'[k] # "absent"
    BY JobsStay
  <2>3. req[s].keys \subseteq JobKey
    BY DEF TypeOK, Request
  <2> QED
    BY <1>1, <2>1, <2>2, <2>3 DEF FailedInv, RetryLeavesRunning, CancelNamesRows
<1>2. CASE BeginRetry(s)
  BY <1>2 DEF BeginRetry, MayRetry, TypeOK, Idle
<1>3. CASE BeginTrigger(s)
  BY <1>3 DEF BeginTrigger, MayStart, TypeOK, Idle, FailedInv, CreatedIsIdle, Alive
<1>4. CASE MarkCancel(s)
  <2>1. req'[s].op = "cancel_marked" /\ req'[s].keys = PendingKeys /\ jobs' = jobs
    BY <1>4 DEF MarkCancel, TypeOK, Request
  <2> QED
    BY <2>1 DEF PendingKeys
<1>5. CASE Crash
  BY <1>5 DEF Crash, Idle
<1>6. CASE BeginEnqueue(s) \/ BeginCancel(s)
  <2>1. req'[s].op \in {"enqueue", "cancel"}
    BY <1>6 DEF BeginEnqueue, BeginCancel, TypeOK, Idle
  <2> QED
    BY <2>1
<1>7. CASE \/ CommitEnqueue(s) \/ CommitTrigger(s) \/ CommitRetry(s) \/ RejectInsert(s)
           \/ FailRequest(s) \/ CommitCancel(s) \/ CancelSnapshot(s)
  <2>1. req'[s].op \in {"idle", "cancel_snapshot"}
    BY <1>7 DEF CommitEnqueue, CommitTrigger, CommitRetry, RejectInsert, FailRequest,
                CommitCancel, CancelSnapshot, TypeOK, Idle
  <2> QED
    BY <2>1
<1>8. ASSUME NEW r \in Slots, BeginRequest(r) \/ FinishRequest(r)
      PROVE  Goal(s)
  <2>1. r = s
    BY DEF Serialized
  <2> QED
    BY <1>2, <1>3, <1>4, <1>6, <1>7, <1>8, <2>1 DEF BeginRequest, FinishRequest
<1> QED
  BY <1>1, <1>5, <1>8, RequestFrame

\* the status that post-processing writes is not FAILED, and never CREATED
LEMMA PostProcessNotFailed ==
  ASSUME NEW w \in Worker, NEW bad, PostProcess(w, bad)
  PROVE  audit' = audit \/ audit' \in {"completed", "partial", "running"}
<1> DEFINE counts == StatusCounts(
             {k \in SuccessKeys : parsed[k] > 0} \cup (UnprocessedKeys \ bad),
             Cardinality(FailedKeys), 0, Cardinality(bad))
           status == DerivePostProcessingStatus(counts, seen[w])
<1>1. status \in {"completed", "partial", "running", seen[w]}
  BY DEF DerivePostProcessingStatus
<1>2. audit' = FlushStatus(seen[w], status, audit)
  BY DEF PostProcess
<1> QED
  BY <1>1, <1>2 DEF FlushStatus

LEMMA CreatedStays ==
  ASSUME [Next]_vars, audit' = "created"
  PROVE  audit = "created"
<1>1. ASSUME NEW w \in Worker, Finalize(w), audit' # audit
      PROVE  audit' # "created"
  <2>1. FinalStatus(w) # "created"
    BY DEF FinalStatus, DeriveFinalAuditStatus
  <2> QED
    BY <1>1, <2>1 DEF Finalize, FlushStatus
<1>2. ASSUME NEW r \in Slots, \/ CommitEnqueue(r) \/ CommitTrigger(r)
                              \/ CommitRetry(r) \/ CommitCancel(r)
      PROVE  audit = "created"
  BY <1>2 DEF CommitEnqueue, CommitTrigger, CommitRetry, CommitCancel, FlushStatus
<1>3. ASSUME NEW w \in Worker, \/ CommitSchedule(w) \/ FailScheduling(w)
                               \/ RejectByPolicy(w) \/ FailPostProcessing(w)
      PROVE  audit = "created"
  BY <1>3 DEF CommitSchedule, FailScheduling, RejectByPolicy, FailPostProcessing, FlushStatus
<1> QED
  BY <1>1, <1>2, <1>3, AuditFrame, PostProcessNotFailed

LEMMA CreatedIsIdleStep ==
  ASSUME Serialized, TypeOK, SerialInv, FailedInv, [Next]_vars
  PROVE  CreatedIsIdle'
<1> SUFFICES ASSUME audit' = "created", NEW w \in Worker
             PROVE  ~ Alive(w)'
  BY DEF CreatedIsIdle
<1>1. ~ Alive(w)
  BY CreatedStays DEF FailedInv, CreatedIsIdle
<1>2. ASSUME NEW r \in Slots, CommitEnqueue(r) \/ CommitRetry(r)
      PROVE  FALSE
  BY <1>2, RetrySetsRunning DEF CommitEnqueue, FailedInv
<1> QED
  BY <1>1, <1>2, AliveFrame

LEMMA FreshScheduleStep ==
  ASSUME Serialized, TypeOK, SerialInv, FailedInv, [Next]_vars
  PROVE  FreshSchedule'
<1> SUFFICES ASSUME NEW w \in Worker, pc'[w] = "schedule_commit",
                    NEW k \in todo'[w], jobs'[k] # "absent"
             PROVE  FALSE
  BY DEF FreshSchedule, Conflicts
<1> USE DEF dbVars, workerVars, TypeOK
<1>1. CASE ~ Alive(w)
  <2>1. PICK r \in Slots : CommitEnqueue(r) \/ CommitRetry(r)
    BY <1>1, AliveFrame DEF Alive
  <2> QED
    BY <1>1, <2>1 DEF CommitEnqueue, CommitRetry, EnqueueBackgroundJob, Alive
<1>2. CASE Alive(w) /\ pc[w] = "schedule_commit" /\ UNCHANGED todo[w]
  <2>1. k \in JobKey /\ jobs[k] = "absent"
    BY <1>2 DEF FailedInv, FreshSchedule, Conflicts
  <2>2. ASSUME NEW r \in Slots, CommitTrigger(r)
        PROVE  FALSE
    BY <1>2, <2>2 DEF CommitTrigger, FailedInv, TriggersMeetNone
  <2>3. ASSUME NEW r \in Slots, CommitCancel(r)
        PROVE  FALSE
    BY <2>1, <2>3 DEF CommitCancel, FailedInv, CancelNamesRows
  <2>4. CASE UNCHANGED jobs
    BY <2>1, <2>4
  <2>5. CASE PipelineFault(w)
    BY <2>4, <2>5, RowsFrame DEF PipelineFault, FailScheduling, RejectByPolicy, SkipJob,
            FailPostProcessing, EscapeJob, EscapeConfiguration, Escape, LoseTask
  <2>6. CASE PipelineStep(w)
    BY <1>2, <2>6 DEF PipelineStep, StartBackgroundJob, ReadSchedule, CommitSchedule,
            LoadJobs, StartJob, FinishJob, FinishExecution, PostProcess, RefreshAudit,
            Finalize, TakeSnapshot, CloseBackgroundJob, Advance
  <2>7. CASE Crash
    BY <2>4, <2>7 DEF Crash
  <2> QED
    BY <1>2, <2>2, <2>3, <2>4, <2>5, <2>6, <2>7, AtWork
<1>3. CASE ReadSchedule(w)
  BY <1>3 DEF ReadSchedule, MissingKeys
<1>4. CASE Alive(w) /\ PipelineStep(w) /\ ~ ReadSchedule(w)
  BY <1>4 DEF PipelineStep, StartBackgroundJob, CommitSchedule, LoadJobs, StartJob,
          FinishJob, FinishExecution, PostProcess, RefreshAudit, Finalize, TakeSnapshot,
          CloseBackgroundJob, Forget, Advance
<1>5. CASE PipelineFault(w)
  BY <1>5 DEF PipelineFault, FailScheduling, RejectByPolicy, SkipJob, FailPostProcessing,
          EscapeJob, EscapeConfiguration, Escape, LoseTask, Forget, Advance
<1>6. CASE Crash
  BY <1>6 DEF Crash, Forget, Alive
<1>7. CASE Alive(w) /\ UNCHANGED <<pc[w], todo[w]>>
  BY <1>2, <1>7
<1> HIDE DEF TypeOK, dbVars, workerVars
<1> QED
  BY <1>1, <1>3, <1>4, <1>5, <1>6, <1>7, AtWork

\* the internal failures that end in a verdict: SQLAlchemyError and the pilot policy
NoFailingHandler == "database" \notin Faults /\ "policy" \notin Faults

LEMMA WorkingStep ==
  ASSUME Serialized, NoFailingHandler, TypeOK, SerialInv, FailedInv, [Next]_vars
  PROVE  WorkingIsNotFailed'
<1> SUFFICES ASSUME NEW w \in Worker, pc'[w] \in Working, audit' = "failed"
             PROVE  FALSE
  BY DEF WorkingIsNotFailed
<1> USE DEF dbVars, workerVars, TypeOK, Working
<1>1. CASE ~ Alive(w)
  <2>1. PICK r \in Slots : CommitEnqueue(r) \/ CommitRetry(r)
    BY <1>1, AliveFrame DEF Alive
  <2> QED
    BY <2>1, RetrySetsRunning DEF CommitEnqueue, FailedInv
<1>2. CASE Alive(w) /\ UNCHANGED pc[w]
           /\ (UNCHANGED audit \/ \E r \in Slots : CommitTrigger(r) \/ CommitCancel(r))
  <2>1. audit # "failed"
    BY <1>2 DEF FailedInv, WorkingIsNotFailed
  <2>2. ASSUME NEW r \in Slots, CommitTrigger(r) \/ CommitCancel(r)
        PROVE  FALSE
    BY <2>1, <2>2 DEF CommitTrigger, CommitCancel, FlushStatus
  <2> QED
    BY <1>2, <2>1, <2>2
<1>3. CASE \/ StartBackgroundJob(w) \/ ReadSchedule(w) \/ CommitSchedule(w) \/ LoadJobs(w)
           \/ \E k \in JobKey : StartJob(w, k)
           \/ \E outcome \in Outcome : FinishJob(w, outcome)
           \/ FinishExecution(w)
  <2>1. pc[w] \in Working
    BY <1>3 DEF StartBackgroundJob, ReadSchedule, CommitSchedule, LoadJobs, StartJob,
                FinishJob, FinishExecution, Advance
  <2>2. audit # "failed"
    BY <2>1 DEF FailedInv, WorkingIsNotFailed
  <2> QED
    BY <1>3, <2>2 DEF StartBackgroundJob, ReadSchedule, CommitSchedule, LoadJobs, StartJob,
                FinishJob, FinishExecution, FlushStatus
<1>4. CASE \/ \E bad \in SUBSET JobKey : PostProcess(w, bad)
           \/ RefreshAudit(w) \/ Finalize(w) \/ TakeSnapshot(w) \/ CloseBackgroundJob(w)
  BY <1>4 DEF PostProcess, RefreshAudit, Finalize, TakeSnapshot, CloseBackgroundJob, Forget,
              Advance
<1>5. ASSUME NEW k \in JobKey, SkipJob(w, k)
      PROVE  FALSE
  BY <1>5 DEF SkipJob, Advance, FailedInv, WorkingIsNotFailed
<1>6. CASE PipelineFault(w)
  BY <1>5, <1>6 DEF PipelineFault, FailScheduling, RejectByPolicy, FailPostProcessing,
          EscapeJob, EscapeConfiguration, Escape, LoseTask, Forget, Advance
<1>7. CASE Alive(w) /\ Crash
  BY <1>7 DEF Crash, Forget
<1> QED
  BY <1>1, <1>2, <1>3, <1>4, <1>6, <1>7, AtWork DEF PipelineStep

\* FAILED is derived when no successful run has a parsed result
LEMMA FinalFailedMeansNothingUsable ==
  ASSUME NEW w \in Worker, FinalStatus(w) = "failed"
  PROVE  {k \in SuccessKeys : parsed[k] > 0} = {}
<1> DEFINE usable == {k \in SuccessKeys : parsed[k] > 0}
<1>1. Cardinality(usable) = 0
  BY DEF FinalStatus, DeriveFinalAuditStatus, HasRecoverableErrors, StatusCounts
<1>2. IsFiniteSet(usable)
  <2>1. usable \subseteq JobKey
    BY DEF SuccessKeys
  <2> QED
    BY <2>1, JobKeyFinite, FS_Subset
<1> QED
  BY <1>1, <1>2, FS_EmptySet

LEMMA FailedStep ==
  ASSUME Serialized, NoFailingHandler, TypeOK, SerialInv, FailedInv, [Next]_vars
  PROVE  FailedMeansNothingUsable'
<1> SUFFICES ASSUME audit' = "failed", NEW k \in JobKey, runs'[k] = "success", parsed'[k] # 0
             PROVE  FALSE
  BY DEF FailedMeansNothingUsable, SuccessKeys
<1>1. ASSUME NEW w \in Worker, pc[w] \in Working, UNCHANGED audit
      PROVE  FALSE
  BY <1>1 DEF FailedInv, WorkingIsNotFailed
<1>2. ASSUME NEW w \in Worker, NEW bad \in SUBSET JobKey, PostProcess(w, bad)
      PROVE  FALSE
  BY <1>1, <1>2, PostProcessNotFailed DEF PostProcess, Advance, Working
<1>3. ASSUME NEW w \in Worker, NEW outcome \in Outcome, FinishJob(w, outcome)
      PROVE  FALSE
  BY <1>1, <1>3 DEF FinishJob, Advance, Working
<1>4. UNCHANGED <<runs, parsed>>
  BY <1>2, <1>3, RunsFrame, DerivedFrame
<1>5. audit # "failed"
  BY <1>4 DEF FailedInv, FailedMeansNothingUsable, SuccessKeys
<1>6. ASSUME NEW r \in Slots, \/ CommitEnqueue(r) \/ CommitTrigger(r)
                              \/ CommitRetry(r) \/ CommitCancel(r)
      PROVE  FALSE
  BY <1>5, <1>6 DEF CommitEnqueue, CommitTrigger, CommitRetry, CommitCancel, FlushStatus
<1>7. ASSUME NEW w \in Worker, \/ CommitSchedule(w) \/ FailScheduling(w)
                               \/ RejectByPolicy(w) \/ FailPostProcessing(w)
      PROVE  FALSE
  BY <1>5, <1>7 DEF CommitSchedule, FailScheduling, RejectByPolicy, FailPostProcessing,
          FlushStatus, NoFailingHandler, Advance, FailedInv, FreshSchedule
<1>8. ASSUME NEW w \in Worker, Finalize(w)
      PROVE  FALSE
  <2>1. FinalStatus(w) = "failed"
    BY <1>5, <1>8 DEF Finalize, FlushStatus
  <2>2. k \in SuccessKeys /\ parsed[k] \in Nat /\ parsed[k] # 0
    BY <1>4 DEF SuccessKeys, TypeOK
  <2> QED
    BY <2>1, <2>2, FinalFailedMeansNothingUsable
<1> QED
  BY <1>2, <1>5, <1>6, <1>7, <1>8, AuditFrame

\* FAILED is never the verdict on an audit with a scored answer, as long as neither
\* a database error nor the pilot policy fails it: a conflict of the scheduler, the
\* third reason to write FAILED outright, cannot happen when requests come one at a
\* time, whatever else fails, is cancelled, retried or restarted.
THEOREM FailedStaysTruthful ==
  ASSUME Serialized, NoFailingHandler
  PROVE  Spec => []FailedMeansNothingUsable
<1>1. Init => FailedInv
  BY DEF Init, FailedInv, RetryLeavesRunning, TriggersMeetNone, CancelNamesRows,
         CreatedIsIdle, FreshSchedule, WorkingIsNotFailed, FailedMeansNothingUsable, Idle,
         Alive, Working
<1>2. TypeOK /\ SerialInv /\ FailedInv /\ [Next]_vars => FailedInv'
  BY RequestsStep, CreatedIsIdleStep, FreshScheduleStep, WorkingStep, FailedStep
  DEF FailedInv
<1>3. FailedInv => FailedMeansNothingUsable
  BY DEF FailedInv
<1> QED
  BY <1>1, <1>2, <1>3, TypeCorrect, SerialInvariant, PTL DEF Spec

-----------------------------------------------------------------------------
(* PARTIAL.  Post-processing writes it for a failed run whether or not     *)
(* anything is usable; the final status of the same pipeline, derived two  *)
(* stages later from the same rows, replaces it if nothing is.             *)

Usable == \E k \in SuccessKeys : parsed[k] > 0

\* between the commit of post-processing and the final status
Deriving == {"refresh", "finalize"}

PartialIsUsableOrInterim == audit = "partial" => Usable \/ \E w \in Worker : pc[w] \in Deriving

\* the refreshed audit: a cancel request may replace PARTIAL, nobody else writes it
FinalizeSeesPartial ==
    \A w \in Worker : pc[w] = "finalize" /\ audit = "partial" => seen[w] = "partial"

NoProcessingErrors == \A w \in Worker : "processing_errors" \notin trouble[w]

PartialInv == PartialIsUsableOrInterim /\ FinalizeSeesPartial /\ NoProcessingErrors

\* the failures that would leave the interim status behind, or make one run of
\* several unusable, do not happen
Undisturbed == "database" \notin Faults /\ "processing" \notin Faults /\ MaxCrashes = 0

\* a usable result stays usable
LEMMA UsableStays ==
  ASSUME TypeOK, WorkIsOpen, [Next]_vars, Usable
  PROVE  Usable'
<1>1. PICK k \in JobKey : runs[k] = "success" /\ parsed[k] > 0
  BY DEF Usable, SuccessKeys
<1>2. runs'[k] = "success"
  <2>1. ASSUME NEW w \in Worker, NEW outcome \in Outcome, FinishJob(w, outcome)
        PROVE  runs'[k] = "success"
    BY <1>1, <2>1, FinishJobAnswersOnce DEF TypeOK
  <2> QED
    BY <1>1, <2>1, RunsFrame
<1>3. parsed'[k] > 0
  <2>1. ASSUME NEW w \in Worker, NEW bad \in SUBSET JobKey, PostProcess(w, bad)
        PROVE  parsed'[k] > 0
    <3>1. k \notin UnprocessedKeys \ bad
      BY <1>1 DEF UnprocessedKeys
    <3> QED
      BY <1>1, <2>1, <3>1 DEF PostProcess
  <2> QED
    BY <1>1, <2>1, DerivedFrame
<1> QED
  BY <1>2, <1>3 DEF Usable, SuccessKeys

LEMMA NoProcessingErrorsStep ==
  ASSUME Undisturbed, TypeOK, PartialInv, [Next]_vars
  PROVE  NoProcessingErrors'
<1> SUFFICES ASSUME NEW v \in Worker, "processing_errors" \in trouble'[v]
             PROVE  FALSE
  BY DEF NoProcessingErrors
<1> USE DEF dbVars, workerVars, TypeOK
<1>0. "processing_errors" \notin trouble[v]
  BY DEF PartialInv, NoProcessingErrors
<1>1. ASSUME NEW w \in Worker, NEW what, "processing_errors" \notin what, Report(w, what)
      PROVE  FALSE
  BY <1>0, <1>1 DEF Report
<1>2. ASSUME NEW w \in Worker, NEW bad \in SUBSET JobKey, PostProcess(w, bad)
      PROVE  FALSE
  <2>1. bad = {} /\ Report(w, {})
    BY <1>2 DEF PostProcess, Undisturbed
  <2> QED
    BY <1>1, <2>1
<1>3. ASSUME NEW w \in Worker, PipelineFault(w)
      PROVE  FALSE
  <2>1. CASE Report(w, {"fatal"}) \/ Report(w, {"execution_errors"})
    BY <1>1, <2>1
  <2>2. CASE LoseTask(w)
    BY <1>0, <2>2 DEF LoseTask, Forget
  <2> QED
    BY <1>3, <2>1, <2>2 DEF PipelineFault, FailScheduling, RejectByPolicy, SkipJob,
       FailPostProcessing, EscapeJob, EscapeConfiguration, Escape
<1>4. ASSUME NEW w \in Worker, FinishExecution(w)
      PROVE  FALSE
  BY <1>1, <1>4 DEF FinishExecution
<1>5. ASSUME NEW w \in Worker, CloseBackgroundJob(w)
      PROVE  FALSE
  BY <1>0, <1>5 DEF CloseBackgroundJob, Forget
<1>6. ASSUME NEW w \in Worker,
             \/ StartBackgroundJob(w) \/ StartDevPipeline(w) \/ ReadSchedule(w)
             \/ CommitSchedule(w) \/ LoadJobs(w)
             \/ \E k \in JobKey : StartJob(w, k)
             \/ \E outcome \in Outcome : FinishJob(w, outcome)
             \/ RefreshAudit(w) \/ Finalize(w) \/ TakeSnapshot(w)
      PROVE  FALSE
  BY <1>0, <1>6 DEF StartBackgroundJob, StartDevPipeline, ReadSchedule, CommitSchedule,
     LoadJobs, StartJob, FinishJob, RefreshAudit, Finalize, TakeSnapshot
<1>7. ASSUME NEW r \in Slots, BeginRequest(r) \/ FinishRequest(r)
      PROVE  FALSE
  BY <1>0, <1>7 DEF BeginRequest, BeginEnqueue, BeginTrigger, BeginRetry, BeginCancel,
     FinishRequest, CommitEnqueue, CommitTrigger, CommitRetry, RejectInsert, FailRequest,
     MarkCancel, CommitCancel, CancelSnapshot
<1>8. CASE Crash \/ UNCHANGED vars
  BY <1>0, <1>8 DEF Crash, Forget, vars
<1> HIDE DEF TypeOK, dbVars, workerVars
<1>9. ASSUME NEW w \in Worker, PipelineStep(w)
      PROVE  FALSE
  BY <1>2, <1>4, <1>5, <1>6, <1>9 DEF PipelineStep
<1>10. ASSUME NEW d \in DevCalls, StartDevPipeline(d)
       PROVE  FALSE
  <2>1. d \in Worker
    BY DEF Worker
  <2> QED
    BY <1>6, <1>10, <2>1
<1> QED
  BY <1>3, <1>7, <1>8, <1>9, <1>10 DEF Next

LEMMA FinalizeSeesPartialStep ==
  ASSUME Serialized, Undisturbed, TypeOK, SerialInv, PartialInv, [Next]_vars
  PROVE  FinalizeSeesPartial'
<1> SUFFICES ASSUME NEW w \in Worker, pc'[w] = "finalize", audit' = "partial"
             PROVE  seen'[w] = "partial"
  BY DEF FinalizeSeesPartial
<1> USE DEF dbVars, workerVars, TypeOK
<1>1. CASE ~ Alive(w)
  <2>1. PICK r \in Slots : CommitEnqueue(r) \/ CommitRetry(r)
    BY <1>1, AliveFrame DEF Alive
  <2> QED
    BY <1>1, <2>1 DEF CommitEnqueue, CommitRetry, EnqueueBackgroundJob, Alive
<1>2. CASE UNCHANGED <<pc[w], seen[w]>>
           /\ (UNCHANGED audit \/ \E r \in Slots : CommitTrigger(r) \/ CommitCancel(r))
  <2>1. audit = "partial"
    BY <1>2 DEF CommitTrigger, CommitCancel, FlushStatus
  <2> QED
    BY <1>2, <2>1 DEF PartialInv, FinalizeSeesPartial
<1>3. CASE RefreshAudit(w)
  BY <1>3 DEF RefreshAudit
<1>4. CASE PipelineStep(w) /\ ~ RefreshAudit(w)
  BY <1>4 DEF PipelineStep, StartBackgroundJob, ReadSchedule, CommitSchedule, LoadJobs,
          StartJob, FinishJob, FinishExecution, PostProcess, Finalize, TakeSnapshot,
          CloseBackgroundJob, Forget, Advance
<1>5. CASE PipelineFault(w)
  BY <1>5 DEF PipelineFault, FailScheduling, RejectByPolicy, SkipJob, FailPostProcessing,
          EscapeJob, EscapeConfiguration, Escape, LoseTask, Forget, Advance
<1>6. CASE Crash
  BY <1>6 DEF Crash, Undisturbed
<1> HIDE DEF TypeOK, dbVars, workerVars
<1> QED
  BY <1>1, <1>2, <1>3, <1>4, <1>5, <1>6, AtWork

\* PARTIAL is derived when a successful run has a parsed result
LEMMA FinalPartialMeansUsable ==
  ASSUME NoProcessingErrors, NEW w \in Worker, FinalStatus(w) = "partial"
  PROVE  Usable
<1> DEFINE usable == {k \in SuccessKeys : parsed[k] > 0}
<1>1. Cardinality(usable) # 0
  BY DEF FinalStatus, DeriveFinalAuditStatus, HasRecoverableErrors, StatusCounts,
         ReportedCount, NoProcessingErrors
<1>2. IsFiniteSet({}) /\ Cardinality({}) = 0
  BY FS_EmptySet
<1>3. usable # {}
  BY <1>1, <1>2
<1> QED
  BY <1>3 DEF Usable

LEMMA PartialStep ==
  ASSUME Serialized, Undisturbed, TypeOK, WorkIsOpen, SerialInv, PartialInv, [Next]_vars
  PROVE  PartialIsUsableOrInterim'
<1> SUFFICES ASSUME audit' = "partial", ~ Usable', \A w \in Worker : pc'[w] \notin Deriving
             PROVE  FALSE
  BY DEF PartialIsUsableOrInterim
<1> USE DEF TypeOK
<1>0. ~ Usable
  BY UsableStays
<1>1. ASSUME NEW w \in Worker, NEW bad \in SUBSET JobKey, PostProcess(w, bad)
      PROVE  FALSE
  BY <1>1 DEF PostProcess, Advance, Deriving
<1>2. ASSUME NEW w \in Worker, Finalize(w)
      PROVE  FALSE
  <2>1. FinalStatus(w) # "partial"
    BY <1>0, FinalPartialMeansUsable DEF PartialInv
  <2>2. seen[w] = FinalStatus(w) /\ audit = "partial" /\ pc[w] = "finalize"
    BY <1>2, <2>1 DEF Finalize, FlushStatus, Advance
  <2> QED
    BY <2>1, <2>2 DEF PartialInv, FinalizeSeesPartial
<1>3. audit = "partial"
  <2>1. ASSUME NEW r \in Slots, \/ CommitEnqueue(r) \/ CommitTrigger(r)
                                \/ CommitRetry(r) \/ CommitCancel(r)
        PROVE  audit = "partial"
    BY <2>1 DEF CommitEnqueue, CommitTrigger, CommitRetry, CommitCancel, FlushStatus
  <2>2. ASSUME NEW w \in Worker, \/ CommitSchedule(w) \/ FailScheduling(w)
                                 \/ RejectByPolicy(w) \/ FailPostProcessing(w)
        PROVE  audit = "partial"
    BY <2>2 DEF CommitSchedule, FailScheduling, RejectByPolicy, FailPostProcessing,
                FlushStatus
  <2> QED
    BY <1>1, <1>2, <2>1, <2>2, AuditFrame
<1>4. PICK w \in Worker : pc[w] \in Deriving
  BY <1>0, <1>3 DEF PartialInv, PartialIsUsableOrInterim
<1>5. ~ UNCHANGED pc[w] /\ Alive(w)
  BY <1>4 DEF Deriving, Alive
<1>6. CASE PipelineStep(w)
  BY <1>1, <1>2, <1>4, <1>6 DEF PipelineStep, StartBackgroundJob, ReadSchedule,
     CommitSchedule, LoadJobs, StartJob, FinishJob, FinishExecution, RefreshAudit,
     TakeSnapshot, CloseBackgroundJob, Advance, Deriving
<1>7. CASE PipelineFault(w)
  BY <1>4, <1>7 DEF PipelineFault, FailScheduling, RejectByPolicy, SkipJob,
     FailPostProcessing, EscapeJob, EscapeConfiguration, Escape, LoseTask, Advance,
     Undisturbed, Deriving
<1>8. CASE Crash
  BY <1>8 DEF Crash, Undisturbed
<1> HIDE DEF TypeOK
<1> QED
  BY <1>5, <1>6, <1>7, <1>8, AtWork

\* An audit that is left PARTIAL has a result to show: the interim PARTIAL that
\* post-processing commits for any failed run is replaced before the pipeline ends.
THEOREM PartialStaysTruthful ==
  ASSUME Serialized, Undisturbed
  PROVE  Spec => []PartialMeansUsable
<1>1. Init => PartialInv
  BY DEF Init, PartialInv, PartialIsUsableOrInterim, FinalizeSeesPartial, NoProcessingErrors
<1>2. TypeOK /\ WorkIsOpen /\ SerialInv /\ PartialInv /\ [Next]_vars => PartialInv'
  BY NoProcessingErrorsStep, FinalizeSeesPartialStep, PartialStep DEF PartialInv
<1>3. PartialInv => PartialMeansUsable
  BY DEF PartialInv, PartialIsUsableOrInterim, PartialMeansUsable, Usable, Deriving, Alive
<1> QED
  BY <1>1, <1>2, <1>3, TypeCorrect, SerialInvariant, WorkInvariant, PTL DEF Spec
=============================================================================
