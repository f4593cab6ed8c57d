------------------------ MODULE AuditSettlingProofs ------------------------
(***************************************************************************)
(* Theorems about how an audit settles.  When nobody cancels it, RUNNING   *)
(* is shown only while a background job is active, and COMPLETED only when *)
(* every scheduled run was answered; the last part lets users cancel it,   *)
(* and the process die, and asks again when it may be COMPLETED.           *)
(***************************************************************************)
EXTENDS AuditVerdictProofs, FiniteSums

-----------------------------------------------------------------------------
(* The pipeline waits for at most as many runs as the scheduler inserts    *)
(* jobs: it counts the distinct providers of the targets (ExpectedRunCount) *)
(* where the scheduler counts targets.                                     *)

LEMMA ProductBound ==
  ASSUME NEW a \in Nat \ {0}, NEW b \in Nat \ {0}, NEW c \in Nat, b <= c, NEW d \in Nat \ {0}
  PROVE  /\ a * b * d \in Nat \ {0}
         /\ a * b * d <= a * c * d
<1>1. PICK e \in Nat : c = b + e
  <2>1. c - b \in Nat /\ c = b + (c - b)
    OBVIOUS
  <2> QED
    BY <2>1
<1>2. a * c = a * b + a * e /\ a * b \in Nat \ {0} /\ a * e \in Nat
  BY <1>1
<1>3. ASSUME NEW x \in Nat \ {0}, NEW y \in Nat
      PROVE  x * d \in Nat \ {0} /\ y * d \in Nat /\ (x + y) * d = x * d + y * d
  OBVIOUS
<1> DEFINE x == a * b
           y == a * e
<1>4. x * d \in Nat \ {0} /\ y * d \in Nat /\ (x + y) * d = x * d + y * d
  BY <1>2, <1>3
<1> HIDE DEF x, y
<1>5. x * d <= (x + y) * d
  BY <1>4
<1> QED
  BY <1>2, <1>4, <1>5 DEF x, y

LEMMA QueriesAreCounted ==
  IsFiniteSet(EffectiveQueries) /\ Cardinality(EffectiveQueries) \in Nat \ {0}
<1>1. IsFiniteSet(1..NumQueries) /\ EffectiveQueries \subseteq 1..NumQueries
  BY FS_Interval, DomainAssumption DEF DomainAssumption, EffectiveQueries
<1>2. 1 \in EffectiveQueries
  BY DomainAssumption DEF DomainAssumption, EffectiveQueries
<1> QED
  BY <1>1, <1>2, FS_Subset, FS_CardinalityType, FS_EmptySet

LEMMA ProvidersAreCounted ==
  /\ Cardinality(LegacyProviders) \in Nat \ {0}
  /\ Cardinality(LegacyProviders) <= NumTargets
<1>0. NumTargets \in Nat \ {0}
  BY DomainAssumption DEF DomainAssumption
<1>1. IsFiniteSet(1..NumTargets) /\ Cardinality(1..NumTargets) = NumTargets
  BY <1>0, FS_Interval
<1> DEFINE f == [t \in 1..NumTargets |-> ProviderOf[t]]
<1>2. f \in Surjection(1..NumTargets, LegacyProviders)
  BY DEF Surjection, LegacyProviders
<1>3. /\ IsFiniteSet(LegacyProviders)
      /\ Cardinality(LegacyProviders) <= Cardinality(1..NumTargets)
  BY <1>1, <1>2, FS_Surjection
<1>4. ProviderOf[1] \in LegacyProviders
  BY <1>0 DEF LegacyProviders
<1> QED
  BY <1>1, <1>3, <1>4, FS_CardinalityType, FS_EmptySet

LEMMA ScheduledKeysAreCounted ==
  Cardinality(ScheduledKeys) = Cardinality(EffectiveQueries) * NumTargets * RunsPerQuery
<1>0. NumTargets \in Nat \ {0} /\ RunsPerQuery \in Nat \ {0}
      /\ MaxRunNumber \in Nat /\ RunsPerQuery <= MaxRunNumber
  BY DomainAssumption DEF DomainAssumption
<1>1. /\ IsFiniteSet(1..NumTargets) /\ Cardinality(1..NumTargets) = NumTargets
      /\ IsFiniteSet(1..RunsPerQuery) /\ Cardinality(1..RunsPerQuery) = RunsPerQuery
  BY <1>0, FS_Interval
<1>2. IsFiniteSet(Unit) /\ Cardinality(Unit) = Cardinality(EffectiveQueries) * NumTargets
  BY <1>1, QueriesAreCounted, FS_Product DEF Unit
<1>3. ScheduledKeys = Unit \X (1..RunsPerQuery)
  BY <1>0 DEF ScheduledKeys, JobKey, RunNumber
<1> QED
  BY <1>1, <1>2, <1>3, FS_Product

LEMMA ScheduleIsEnough ==
  ASSUME NEW S \in SUBSET JobKey, ScheduledKeys \subseteq S
  PROVE  ExpectedRunCount > 0 /\ Cardinality(S) >= ExpectedRunCount
<1>1. IsFiniteSet(S) /\ Cardinality(S) \in Nat
  BY JobKeyFinite, FS_Subset, FS_CardinalityType
<1>2. Cardinality(ScheduledKeys) \in Nat /\ Cardinality(ScheduledKeys) <= Cardinality(S)
  BY <1>1, FS_Subset, FS_CardinalityType
<1>3. RunsPerQuery \in Nat \ {0} /\ NumTargets \in Nat
  BY DomainAssumption DEF DomainAssumption
<1>4. /\ ExpectedRunCount \in Nat \ {0}
      /\ ExpectedRunCount <= Cardinality(ScheduledKeys)
  BY <1>3, ProductBound, QueriesAreCounted, ProvidersAreCounted, ScheduledKeysAreCounted
  DEF ExpectedRunCount
<1> QED
  BY <1>1, <1>2, <1>4

-----------------------------------------------------------------------------
(* The environment: requests come one at a time, nobody cancels, /run is   *)
(* not used, and the database, the configuration and the process are fine. *)

Settled ==
    /\ Serialized
    /\ Operations \subseteq {"enqueue", "retry"}
    /\ Faults \subseteq {"policy", "adapter", "processing"}
    /\ MaxCrashes = 0

OnlyStarters == \A r \in Slots : req[r].op \in {"idle", "enqueue", "retry"}

NothingCancelled == \A k \in JobKey : jobs[k] # "cancelled"

\* nobody else writes audits.status while a pipeline is at work
SeenIsCurrent ==
    \A w \in Worker :
        /\ pc[w] \in {"load", "execute", "provider_call", "post_process"} =>
              seen[w] = "running"
        /\ pc[w] = "finalize" => seen[w] = audit

\* no scheduled job gets lost between the scheduler and the final status, unless
\* the summary of the execution reports an error
CoverOf(w) ==
    /\ pc[w] = "schedule_commit" =>
          \A k \in ScheduledKeys : jobs[k] # "absent" \/ k \in todo[w]
    /\ pc[w] = "load" => \A k \in ScheduledKeys : jobs[k] # "absent"
    /\ pc[w] \in {"execute", "provider_call", "post_process"} \cup Deriving =>
          \/ "execution_errors" \in trouble[w]
          \/ \A k \in ScheduledKeys : runs[k] # "absent" \/ k \in todo[w] \cup held[w]
    /\ pc[w] \in {"post_process"} \cup Deriving =>
          /\ todo[w] = {}
          /\ FailedKeys # {} => "failed_runs" \in trouble[w]

ScheduleIsCovered == \A w \in Worker : CoverOf(w)

RunningIsUndecided ==
    audit = "running" => \E w \in Worker : pc[w] \in Working \cup Deriving

ScheduledAnswered == \A k \in ScheduledKeys : runs[k] = "success"

CompletedIsAnsweredOrInterim ==
    audit = "completed" => ScheduledAnswered \/ \E w \in Worker : pc[w] \in Deriving

SettledInv ==
    /\ OnlyStarters
    /\ NothingCancelled
    /\ RetryLeavesRunning
    /\ SeenIsCurrent
    /\ ScheduleIsCovered
    /\ RunningIsUndecided
    /\ CompletedIsAnsweredOrInterim

LEMMA SettledRequestsStep ==
  ASSUME Settled, TypeOK, SettledInv, [Next]_vars
  PROVE  OnlyStarters' /\ RetryLeavesRunning'
<1> SUFFICES ASSUME NEW s \in Slots
             PROVE  /\ req'[s].op \in {"idle", "enqueue", "retry"}
                    /\ req'[s].op = "retry" => req'[s].audit # "running"
  BY DEF OnlyStarters, RetryLeavesRunning
<1>1. CASE UNCHANGED req
  BY <1>1 DEF SettledInv, OnlyStarters, RetryLeavesRunning
<1>2. CASE BeginRetry(s)
  BY <1>2 DEF BeginRetry, MayRetry, TypeOK, Idle
<1>3. CASE BeginEnqueue(s) \/ BeginTrigger(s) \/ BeginCancel(s)
  BY <1>3 DEF BeginEnqueue, BeginTrigger, BeginCancel, Settled, TypeOK, Idle
<1>4. CASE CommitEnqueue(s) \/ CommitTrigger(s) \/ CommitRetry(s) \/ RejectInsert(s)
           \/ FailRequest(s) \/ CancelSnapshot(s)
  BY <1>4 DEF CommitEnqueue, CommitTrigger, CommitRetry, RejectInsert, FailRequest,
              CancelSnapshot, TypeOK, Idle
<1>5. CASE MarkCancel(s) \/ CommitCancel(s)
  BY <1>5 DEF MarkCancel, CommitCancel, SettledInv, OnlyStarters
<1>6. ASSUME NEW r \in Slots, BeginRequest(r) \/ FinishRequest(r)
      PROVE  r = s
  BY DEF Settled, Serialized
<1>7. CASE Crash
  BY <1>7 DEF Crash, Idle
<1> QED
  BY <1>1, <1>2, <1>3, <1>4, <1>5, <1>6, <1>7, RequestFrame DEF BeginRequest, FinishRequest

LEMMA NothingCancelledStep ==
  ASSUME TypeOK, SettledInv, [Next]_vars
  PROVE  NothingCancelled'
<1> USE DEF SettledInv, NothingCancelled
<1>1. ASSUME NEW r \in Slots, CommitTrigger(r) \/ CommitRetry(r) \/ CommitCancel(r)
      PROVE  NothingCancelled'
  BY <1>1 DEF CommitTrigger, CommitRetry, CommitCancel, JobsWith, OnlyStarters
<1>2. ASSUME NEW w \in Worker, CommitSchedule(w)
      PROVE  NothingCancelled'
  BY <1>2 DEF CommitSchedule, JobsWith
<1>3. ASSUME NEW w \in Worker, NEW outcome \in Outcome, FinishJob(w, outcome)
      PROVE  NothingCancelled'
  BY <1>3 DEF FinishJob, ClosedJobStatus
<1> QED
  BY <1>1, <1>2, <1>3, RowsFrame

\* a pipeline at work meets its own steps only
LEMMA AtWorkAlone ==
  ASSUME Settled, TypeOK, SerialInv, SettledInv, [Next]_vars, NEW w \in Worker, Alive(w)
  PROVE  \/ UNCHANGED <<pc[w], seen[w], todo[w], held[w], trouble[w], runs, audit, jobs>>
         \/ PipelineStep(w)
         \/ PipelineFault(w)
<1>1. ASSUME NEW r \in Slots, CommitTrigger(r) \/ CommitCancel(r)
      PROVE  FALSE
  BY <1>1 DEF CommitTrigger, CommitCancel, SettledInv, OnlyStarters
<1>2. ~ Crash
  BY DEF Crash, Settled, TypeOK
<1>3. Serialized
  BY DEF Settled
<1> QED
  BY <1>1, <1>2, <1>3, AtWork

\* a pipeline that starts, and the status of the audit it is started for
LEMMA Starting ==
  ASSUME Settled, TypeOK, SettledInv, [Next]_vars, NEW w \in Worker, ~ Alive(w), Alive(w)'
  PROVE  pc'[w] = "queued" /\ audit' = "running"
<1>1. PICK r \in Slots : CommitEnqueue(r) \/ CommitRetry(r)
  BY AliveFrame DEF Settled
<1>2. audit' = "running"
  BY <1>1, RetrySetsRunning DEF CommitEnqueue, SettledInv
<1> QED
  BY <1>1, <1>2 DEF CommitEnqueue, CommitRetry, EnqueueBackgroundJob, TypeOK, Alive

LEMMA SeenIsCurrentStep ==
  ASSUME Settled, TypeOK, SerialInv, SettledInv, [Next]_vars
  PROVE  SeenIsCurrent'
<1> DEFINE Open == {"load", "execute", "provider_call", "post_process"}
<1> SUFFICES ASSUME NEW w \in Worker
             PROVE  /\ pc'[w] \in Open => seen'[w] = "running"
                    /\ pc'[w] = "finalize" => seen'[w] = audit'
  BY DEF SeenIsCurrent
<1> USE DEF dbVars, workerVars
<1>0. /\ pc[w] \in Open => seen[w] = "running"
      /\ pc[w] = "finalize" => seen[w] = audit
  BY DEF SettledInv, SeenIsCurrent
<1>1. CASE ~ Alive(w)
  <2>1. CASE Alive(w)'
    BY <1>1, <2>1, Starting
  <2>2. CASE ~ Alive(w)'
    BY <2>2 DEF Alive
  <2> QED
    BY <2>1, <2>2
<1>2. CASE UNCHANGED <<pc[w], seen[w], audit>>
  BY <1>0, <1>2
<1>3. CASE CommitSchedule(w) \/ RefreshAudit(w)
  BY <1>3 DEF CommitSchedule, RefreshAudit, Advance, TypeOK
<1>4. CASE \/ LoadJobs(w) \/ \E k \in JobKey : StartJob(w, k)
           \/ \E outcome \in Outcome : FinishJob(w, outcome)
           \/ FinishExecution(w) \/ \E k \in JobKey : SkipJob(w, k)
  BY <1>0, <1>4 DEF LoadJobs, StartJob, FinishJob, FinishExecution, SkipJob, Advance, TypeOK
<1>5. CASE \/ StartBackgroundJob(w) \/ ReadSchedule(w)
           \/ \E bad \in SUBSET JobKey : PostProcess(w, bad)
           \/ Finalize(w) \/ TakeSnapshot(w) \/ CloseBackgroundJob(w)
  BY <1>5 DEF StartBackgroundJob, ReadSchedule, PostProcess, Finalize, TakeSnapshot,
              CloseBackgroundJob, Forget, Advance, TypeOK
<1>6. CASE \/ FailScheduling(w) \/ RejectByPolicy(w) \/ FailPostProcessing(w)
           \/ EscapeJob(w) \/ EscapeConfiguration(w) \/ LoseTask(w)
  BY <1>6 DEF FailScheduling, RejectByPolicy, FailPostProcessing, EscapeJob,
              EscapeConfiguration, Escape, LoseTask, Forget, Advance, TypeOK
<1> HIDE DEF dbVars, workerVars
<1> QED
  BY <1>1, <1>2, <1>3, <1>4, <1>5, <1>6, AtWorkAlone DEF PipelineStep, PipelineFault

\* a recorded run stays, and so does the job that asked for it
LEMMA AnswersStay ==
  ASSUME TypeOK, WorkIsOpen, [Next]_vars
  PROVE  \A k \in JobKey : runs[k] # "absent" => runs'[k] = runs[k]
<1>1. ASSUME NEW w \in Worker, NEW outcome \in Outcome, FinishJob(w, outcome)
      PROVE  \A k \in JobKey : runs[k] # "absent" => runs'[k] = runs[k]
  BY <1>1, FinishJobAnswersOnce DEF TypeOK
<1> QED
  BY <1>1, RunsFrame

LEMMA CoverStep ==
  ASSUME Settled, TypeOK, RowsAgree, WorkIsOpen, SerialInv, SettledInv, [Next]_vars
  PROVE  ScheduleIsCovered'
<1> SUFFICES ASSUME NEW w \in Worker
             PROVE  CoverOf(w)'
  BY DEF ScheduleIsCovered
<1> USE DEF dbVars, workerVars, TypeOK, Deriving, FailedKeys
<1>0. CoverOf(w) /\ WorkOf(w) /\ ScheduledKeys \subseteq JobKey
  BY DEF SettledInv, ScheduleIsCovered, WorkIsOpen, ScheduledKeys
<1>1. CASE ~ Alive(w)
  <2>1. CASE Alive(w)'
    BY <1>1, <2>1, Starting DEF CoverOf
  <2>2. CASE ~ Alive(w)'
    BY <2>2 DEF Alive, CoverOf
  <2> QED
    BY <2>1, <2>2
<1>2. CASE UNCHANGED <<pc[w], todo[w], held[w], trouble[w], runs, jobs>>
  BY <1>0, <1>2 DEF CoverOf
<1>3. CASE ReadSchedule(w)
  BY <1>3 DEF ReadSchedule, Advance, MissingKeys, CoverOf
<1>4. CASE CommitSchedule(w)
  BY <1>0, <1>4 DEF CommitSchedule, Advance, JobsWith, CoverOf
<1>5. CASE LoadJobs(w)
  <2>1. \A k \in ScheduledKeys : runs[k] # "absent" \/ k \in PendingKeys
    BY <1>0, <1>5 DEF LoadJobs, Advance, CoverOf, PendingKeys, RowsAgree, SettledInv,
       NothingCancelled, JobStatus
  <2> QED
    BY <1>5, <2>1 DEF LoadJobs, Advance, CoverOf
<1>6. ASSUME NEW k \in JobKey, StartJob(w, k)
      PROVE  CoverOf(w)'
  <2>1. held[w] = {} /\ runs' = runs /\ trouble'[w] = trouble[w]
        /\ pc[w] = "execute" /\ pc'[w] = "provider_call"
        /\ todo'[w] \cup held'[w] = todo[w]
    BY <1>0, <1>6 DEF StartJob, Advance, IsNextJob, WorkOf
  <2> QED
    BY <1>0, <2>1 DEF CoverOf
<1>7. ASSUME NEW k \in JobKey, SkipJob(w, k)
      PROVE  CoverOf(w)'
  BY <1>7 DEF SkipJob, Advance, Report, CoverOf
<1>8. ASSUME NEW outcome \in Outcome, FinishJob(w, outcome)
      PROVE  CoverOf(w)'
  <2>1. \A k \in held[w] : runs'[k] # "absent"
    BY <1>8 DEF FinishJob, Outcome
  <2>2. \A k \in JobKey : runs[k] # "absent" => runs'[k] # "absent"
    BY AnswersStay
  <2>3. pc[w] = "provider_call" /\ pc'[w] = "execute"
        /\ todo'[w] = todo[w] /\ trouble'[w] = trouble[w]
    BY <1>8 DEF FinishJob, Advance
  <2> QED
    BY <1>0, <2>1, <2>2, <2>3 DEF CoverOf
<1>9. CASE FinishExecution(w)
  BY <1>0, <1>9 DEF FinishExecution, Advance, Report, CoverOf, WorkOf
<1>10. ASSUME NEW bad \in SUBSET JobKey, PostProcess(w, bad)
       PROVE  CoverOf(w)'
  BY <1>0, <1>10 DEF PostProcess, Advance, Report, CoverOf
<1>11. CASE RefreshAudit(w)
  BY <1>0, <1>11 DEF RefreshAudit, Advance, CoverOf
<1>12. CASE StartBackgroundJob(w) \/ Finalize(w) \/ TakeSnapshot(w) \/ CloseBackgroundJob(w)
  BY <1>12 DEF StartBackgroundJob, Finalize, TakeSnapshot, CloseBackgroundJob, Forget,
               Advance, CoverOf
<1>13. CASE \/ FailScheduling(w) \/ RejectByPolicy(w) \/ FailPostProcessing(w)
            \/ EscapeJob(w) \/ EscapeConfiguration(w) \/ LoseTask(w)
  BY <1>13 DEF FailScheduling, RejectByPolicy, FailPostProcessing, EscapeJob,
               EscapeConfiguration, Escape, LoseTask, Forget, Advance, CoverOf
<1> HIDE DEF dbVars, workerVars, TypeOK, Deriving, FailedKeys
<1> QED
  BY <1>1, <1>2, <1>3, <1>4, <1>5, <1>6, <1>7, <1>8, <1>9, <1>10, <1>11, <1>12, <1>13,
     AtWorkAlone
  DEF PipelineStep, PipelineFault

\* the final status of a pipeline that lost no job
LEMMA FinalStatusSettles ==
  ASSUME TypeOK, NEW w \in Worker, CoverOf(w), WorkOf(w), pc[w] = "finalize"
  PROVE  /\ FinalStatus(w) # "running"
         /\ FinalStatus(w) = "completed" => ScheduledAnswered
<1> DEFINE counts == StatusCounts({k \in SuccessKeys : parsed[k] > 0},
                                  ReportedCount(w, "failed_runs"),
                                  ReportedCount(w, "execution_errors"),
                                  ReportedCount(w, "processing_errors"))
<1>1. FinalStatus(w) = DeriveFinalAuditStatus(counts)
  BY DEF FinalStatus
<1>2. /\ counts.execution_errors = ReportedCount(w, "execution_errors")
      /\ counts.terminal_failure = ReportedCount(w, "failed_runs")
      /\ counts.terminal = Cardinality(SuccessKeys \cup FailedKeys)
      /\ counts.expected = ExpectedRunCount
  BY DEF StatusCounts
<1> HIDE DEF counts
<1>3. CASE "execution_errors" \in trouble[w]
  <2>1. HasRecoverableErrors(counts)
    BY <1>2, <1>3 DEF ReportedCount, HasRecoverableErrors
  <2> QED
    BY <1>1, <2>1 DEF DeriveFinalAuditStatus
<1>4. CASE "execution_errors" \notin trouble[w]
  <2>1. \A k \in ScheduledKeys : runs[k] # "absent"
    BY <1>4 DEF CoverOf, WorkOf, Deriving
  <2>2. ScheduledKeys \subseteq SuccessKeys \cup FailedKeys
    BY <2>1 DEF ScheduledKeys, SuccessKeys, FailedKeys, TypeOK, RunStatus
  <2>3. SuccessKeys \cup FailedKeys \in SUBSET JobKey
    BY DEF SuccessKeys, FailedKeys
  <2>4. AllExpectedTerminal(counts)
    BY <1>2, <2>2, <2>3, ScheduleIsEnough DEF AllExpectedTerminal
  <2>5. FinalStatus(w) # "running"
    BY <1>1, <2>4 DEF DeriveFinalAuditStatus
  <2>6. ASSUME FinalStatus(w) = "completed"
        PROVE  ScheduledAnswered
    <3>1. ~ HasRecoverableErrors(counts)
      BY <1>1, <2>6 DEF DeriveFinalAuditStatus
    <3>2. "failed_runs" \notin trouble[w]
      BY <1>2, <3>1 DEF HasRecoverableErrors, ReportedCount
    <3>3. FailedKeys = {}
      BY <3>2 DEF CoverOf, Deriving
    <3> QED
      BY <2>2, <3>3 DEF ScheduledAnswered, SuccessKeys
  <2> QED
    BY <2>5, <2>6
<1> QED
  BY <1>3, <1>4

LEMMA FinalizeSettles ==
  ASSUME TypeOK, WorkIsOpen, SettledInv, NEW w \in Worker, Finalize(w)
  PROVE  /\ audit' # "running"
         /\ audit' = "completed" => ScheduledAnswered
<1>1. pc[w] = "finalize" /\ audit' = FlushStatus(seen[w], FinalStatus(w), audit)
  BY DEF Finalize, Advance
<1>2. seen[w] = audit
  BY <1>1 DEF SettledInv, SeenIsCurrent
<1>3. audit' = FinalStatus(w)
  BY <1>1, <1>2 DEF FlushStatus
<1> QED
  BY <1>1, <1>3, FinalStatusSettles DEF SettledInv, ScheduleIsCovered, WorkIsOpen

\* a pipeline leaves the stages in which the verdict is open by writing one
LEMMA LeavingDecides ==
  ASSUME Settled, TypeOK, WorkIsOpen, SerialInv, SettledInv, [Next]_vars,
         NEW w \in Worker, pc[w] \in Working \cup Deriving, pc'[w] \notin Working \cup Deriving
  PROVE  Finalize(w) \/ audit' = "failed"
<1> USE DEF TypeOK, Working, Deriving
<1>1. Alive(w)
  BY DEF Alive
<1>2. CASE UNCHANGED pc[w]
  BY <1>2
<1>3. CASE \/ StartBackgroundJob(w) \/ ReadSchedule(w) \/ CommitSchedule(w) \/ LoadJobs(w)
           \/ \E k \in JobKey : StartJob(w, k)
           \/ \E outcome \in Outcome : FinishJob(w, outcome)
           \/ FinishExecution(w) \/ \E bad \in SUBSET JobKey : PostProcess(w, bad)
           \/ RefreshAudit(w) \/ \E k \in JobKey : SkipJob(w, k)
  BY <1>3 DEF StartBackgroundJob, ReadSchedule, CommitSchedule, LoadJobs, StartJob,
              FinishJob, FinishExecution, PostProcess, RefreshAudit, SkipJob, Advance
<1>4. CASE TakeSnapshot(w) \/ CloseBackgroundJob(w)
  BY <1>4 DEF TakeSnapshot, CloseBackgroundJob, Advance
<1>5. CASE FailScheduling(w) \/ FailPostProcessing(w)
  BY <1>5 DEF FailScheduling, FailPostProcessing
<1>6. CASE RejectByPolicy(w)
  <2>1. seen[w] = "running"
    BY <1>6 DEF RejectByPolicy, Advance, SettledInv, SeenIsCurrent
  <2> QED
    BY <1>6, <2>1 DEF RejectByPolicy, FlushStatus
<1>7. CASE EscapeJob(w) \/ EscapeConfiguration(w) \/ LoseTask(w)
  BY <1>7 DEF EscapeJob, EscapeConfiguration, LoseTask, Settled, BrokenConfiguration
<1> HIDE DEF TypeOK, Working, Deriving
<1> QED
  BY <1>1, <1>2, <1>3, <1>4, <1>5, <1>6, <1>7, AtWorkAlone DEF PipelineStep, PipelineFault

LEMMA RunningStep ==
  ASSUME Settled, TypeOK, WorkIsOpen, SerialInv, SettledInv, [Next]_vars
  PROVE  RunningIsUndecided'
<1> SUFFICES ASSUME audit' = "running", \A w \in Worker : pc'[w] \notin Working \cup Deriving
             PROVE  FALSE
  BY DEF RunningIsUndecided
<1>0. ASSUME NEW w \in Worker
      PROVE  pc[w] \notin Working \cup Deriving
  BY <1>0, LeavingDecides, FinalizeSettles
<1>1. audit # "running"
  BY <1>0 DEF SettledInv, RunningIsUndecided
<1>2. ASSUME NEW r \in Slots, CommitEnqueue(r) \/ CommitRetry(r)
      PROVE  FALSE
  <2>1. PICK b \in Worker : pc' = [pc EXCEPT ![b] = "queued"]
    BY <1>2 DEF CommitEnqueue, CommitRetry, EnqueueBackgroundJob, Worker
  <2> QED
    BY <2>1 DEF TypeOK, Working
<1>3. ASSUME NEW r \in Slots, CommitTrigger(r) \/ CommitCancel(r)
      PROVE  FALSE
  BY <1>3 DEF CommitTrigger, CommitCancel, SettledInv, OnlyStarters
<1>4. ASSUME NEW w \in Worker, \/ CommitSchedule(w) \/ FailScheduling(w)
             \/ RejectByPolicy(w) \/ FailPostProcessing(w) \/ Finalize(w)
             \/ \E bad \in SUBSET JobKey : PostProcess(w, bad)
      PROVE  FALSE
  BY <1>0, <1>4 DEF CommitSchedule, FailScheduling, RejectByPolicy, FailPostProcessing,
     Finalize, PostProcess, Advance, Working, Deriving
<1> QED
  BY <1>1, <1>2, <1>3, <1>4, AuditFrame

LEMMA CompletedStep ==
  ASSUME Settled, TypeOK, WorkIsOpen, SerialInv, SettledInv, [Next]_vars
  PROVE  CompletedIsAnsweredOrInterim'
<1> SUFFICES ASSUME audit' = "completed", \A w \in Worker : pc'[w] \notin Deriving,
                    ~ ScheduledAnswered'
             PROVE  FALSE
  BY DEF CompletedIsAnsweredOrInterim
<1>0. ~ ScheduledAnswered
  BY AnswersStay DEF ScheduledAnswered, ScheduledKeys
<1>1. ASSUME NEW w \in Worker, Finalize(w)
      PROVE  FALSE
  BY <1>0, <1>1, FinalizeSettles
<1>2. ASSUME NEW w \in Worker, NEW bad \in SUBSET JobKey, PostProcess(w, bad)
      PROVE  FALSE
  BY <1>2 DEF PostProcess, Advance, TypeOK, Deriving
<1>3. audit = "completed"
  <2>1. ASSUME NEW r \in Slots, \/ CommitEnqueue(r) \/ CommitTrigger(r)
                                \/ CommitRetry(r) \/ CommitCancel(r)
        PROVE  audit = "completed"
    BY <2>1 DEF CommitEnqueue, CommitTrigger, CommitRetry, CommitCancel, FlushStatus
  <2>2. ASSUME NEW w \in Worker, \/ CommitSchedule(w) \/ FailScheduling(w)
                                 \/ RejectByPolicy(w) \/ FailPostProcessing(w)
        PROVE  audit = "completed"
    BY <2>2 DEF CommitSchedule, FailScheduling, RejectByPolicy, FailPostProcessing,
                FlushStatus
  <2> QED
    BY <1>1, <1>2, <2>1, <2>2, AuditFrame
<1>4. PICK w \in Worker : pc[w] \in Deriving
  BY <1>0, <1>3 DEF SettledInv, CompletedIsAnsweredOrInterim
<1>5. Alive(w) /\ ~ UNCHANGED pc[w]
  BY <1>4 DEF Deriving, Alive
<1>6. CASE PipelineStep(w)
  BY <1>1, <1>2, <1>4, <1>6 DEF PipelineStep, StartBackgroundJob, ReadSchedule,
     CommitSchedule, LoadJobs, StartJob, FinishJob, FinishExecution, RefreshAudit,
     TakeSnapshot, CloseBackgroundJob, Advance, Deriving, TypeOK
<1>7. CASE PipelineFault(w)
  BY <1>4, <1>7 DEF PipelineFault, FailScheduling, RejectByPolicy, SkipJob,
     FailPostProcessing, EscapeJob, EscapeConfiguration, Escape, LoseTask, Advance,
     Settled, Deriving
<1> QED
  BY <1>5, <1>6, <1>7, AtWorkAlone

LEMMA SettledInvariant ==
  ASSUME Settled
  PROVE  Spec => []SettledInv
<1>0. Serialized
  BY DEF Settled
<1>1. Init => SettledInv
  BY DEF Init, SettledInv, OnlyStarters, NothingCancelled, RetryLeavesRunning,
         SeenIsCurrent, ScheduleIsCovered, CoverOf, RunningIsUndecided,
         CompletedIsAnsweredOrInterim, Idle, Deriving
<1>2. /\ TypeOK /\ RowsAgree /\ WorkIsOpen /\ SerialInv /\ SettledInv /\ [Next]_vars
      => SettledInv'
  BY SettledRequestsStep, NothingCancelledStep, SeenIsCurrentStep, CoverStep, RunningStep,
     CompletedStep
  DEF SettledInv
<1> QED
  BY <1>0, <1>1, <1>2, TypeCorrect, RowsAlwaysAgree, WorkInvariant, SerialInvariant, PTL
  DEF Spec

\* While an audit shows RUNNING a background job is active: no retry, no rejected
\* audit, no adapter that cannot be built and no answer that cannot be processed
\* leaves it RUNNING for good.  It is the scheduler's matrix, never smaller than the
\* count the verdict waits for, that makes the last pipeline decide.
THEOREM RunningIsAlwaysWatched ==
  ASSUME Settled
  PROVE  Spec => []RunningHasActiveJob
<1>0. Serialized
  BY DEF Settled
<1>1. SettledInv /\ SerialInv => RunningHasActiveJob
  BY DEF SettledInv, SerialInv, RunningIsUndecided, LivePipelineIsActive, NoDevPipeline,
         RunningHasActiveJob, Working, Deriving, Alive, Worker
<1> QED
  BY <1>0, <1>1, SettledInvariant, SerialInvariant, PTL

\* An audit left COMPLETED was answered in full, even where targets share a provider
\* and the verdict counts them once: as long as nobody cancels, every scheduled job
\* that is not executed is reported as an error, and that excludes COMPLETED.
THEOREM CompletedStaysTruthful ==
  ASSUME Settled
  PROVE  Spec => []CompletedMeansAnswered
<1>1. ASSUME SettledInv
      PROVE  CompletedMeansAnswered
  <2> SUFFICES ASSUME audit = "completed", ~ (\E w \in Worker : Alive(w)), NEW u \in Unit
               PROVE  \E k \in SuccessKeys : UnitOf(k) = u
    BY DEF CompletedMeansAnswered
  <2>1. ScheduledAnswered
    BY <1>1 DEF SettledInv, CompletedIsAnsweredOrInterim, Deriving, Alive
  <2>2. <<u, 1>> \in ScheduledKeys /\ <<u, 1>> \in JobKey
    BY DomainAssumption DEF DomainAssumption, ScheduledKeys, JobKey, RunNumber
  <2>3. <<u, 1>> \in SuccessKeys
    BY <2>1, <2>2 DEF ScheduledAnswered, SuccessKeys
  <2> QED
    BY <2>3 DEF UnitOf
<1> QED
  BY <1>1, SettledInvariant, PTL

-----------------------------------------------------------------------------
(* COMPLETED when audits are cancelled and retried.  Without errors inside *)
(* of a job (adapter, database) the work on an audit comes in whole        *)
(* batches: the scheduler inserts all of its jobs or none, a cancel        *)
(* request leaves all pending jobs or none, a retry asks for every unit    *)
(* that is not answered, and a pipeline executes all it has loaded.  So    *)
(* unless a run failed, no unit or every unit is answered after it.        *)

NoErrorInJobs == Serialized /\ Faults \subseteq {"policy", "config", "processing"}

\* every unit is answered, or is one of these keys
AllCovered(keys) == \A u \in Unit : \E k \in SuccessKeys \cup keys : UnitOf(k) = u

AllAnswered == AllCovered({})

ScheduleIsThere == \A k \in ScheduledKeys : jobs[k] # "absent"

ScheduleIsWhole == (\A k \in JobKey : jobs[k] = "absent") \/ ScheduleIsThere

\* the jobs a scheduler is about to insert
IsWhole(keys) == keys = ScheduledKeys \/ (keys = {} /\ ScheduleIsThere)

SchedulersAreWhole == \A w \in Worker : pc[w] = "schedule_commit" => IsWhole(todo[w])

RequestIsWhole(r) ==
    /\ req[r].op = "trigger" => IsWhole(req[r].keys)
    /\ req[r].op = "retry" =>
          ScheduleIsThere /\ (FailedKeys = {} => AllCovered(req[r].keys \cup PendingKeys))
    /\ req[r].op = "cancel_marked" =>
          /\ \A k \in req[r].keys : jobs[k] # "absent"
          /\ req[r].keys = {} \/ PendingKeys \subseteq req[r].keys

RequestsAreWhole == \A r \in Slots : RequestIsWhole(r)

PendingIsWhole == FailedKeys = {} => PendingKeys = {} \/ AllCovered(PendingKeys)

Executing == {"execute", "provider_call"}

ExecutionIsWhole(w) ==
    pc[w] \in Executing /\ FailedKeys = {} =>
        \/ SuccessKeys = {} /\ todo[w] \cup held[w] = {}
        \/ AllCovered(todo[w] \cup held[w])

ExecutionsAreWhole == \A w \in Worker : ExecutionIsWhole(w)

\* a restart has taken the task of an active background job; no pipeline comes after it
Lost == \E b \in ActiveJobs : ~ Alive(b)

AllOrNone ==
    (\A w \in Worker : pc[w] \notin Executing) /\ FailedKeys = {}
      => SuccessKeys = {} \/ AllAnswered \/ Lost

FailuresAreReported ==
    \A w \in Worker :
        pc[w] \in {"post_process"} \cup Deriving /\ FailedKeys # {} => "failed_runs" \in trouble[w]

CompletedIsAnswered == audit = "completed" => AllAnswered

BatchInv ==
    /\ ScheduleIsWhole
    /\ SchedulersAreWhole
    /\ RequestsAreWhole
    /\ PendingIsWhole
    /\ ExecutionsAreWhole
    /\ AllOrNone
    /\ FailuresAreReported
    /\ CompletedIsAnswered

LEMMA ScheduleHasAllUnits ==
  /\ ScheduledKeys \subseteq JobKey
  /\ \A u \in Unit : <<u, 1>> \in ScheduledKeys /\ UnitOf(<<u, 1>>) = u
  /\ \E k \in ScheduledKeys : TRUE
<1>1. \A u \in Unit : <<u, 1>> \in ScheduledKeys /\ UnitOf(<<u, 1>>) = u
  BY DomainAssumption DEF DomainAssumption, ScheduledKeys, JobKey, RunNumber, UnitOf
<1>2. \E u \in Unit : TRUE
  <2>1. <<1, 1>> \in Unit
    BY DomainAssumption DEF DomainAssumption, Unit, EffectiveQueries
  <2> QED
    BY <2>1
<1> QED
  BY <1>1, <1>2 DEF ScheduledKeys

\* what covers the matrix goes on covering it
LEMMA CoverStays ==
  ASSUME TypeOK, WorkIsOpen, [Next]_vars, NEW S, NEW T, S \subseteq T
  PROVE  /\ FailedKeys' = {} => FailedKeys = {}
         /\ SuccessKeys \subseteq SuccessKeys'
         /\ AllCovered(S) => AllCovered(T)'
<1>1. \A k \in JobKey : runs[k] # "absent" => runs'[k] = runs[k]
  BY AnswersStay
<1>2. FailedKeys \subseteq FailedKeys' /\ SuccessKeys \subseteq SuccessKeys'
  BY <1>1 DEF FailedKeys, SuccessKeys
<1>3. AllCovered(S) => AllCovered(T)'
  BY <1>2 DEF AllCovered
<1> QED
  BY <1>2, <1>3

\* keys of a scheduler that meet no row: the first jobs of the audit, or none
LEMMA WholeInsert ==
  ASSUME TypeOK, ScheduleIsWhole, NEW keys, IsWhole(keys), ~ Conflicts(keys), jobs' = JobsWith(keys)
  PROVE  \/ jobs' = jobs
         \/ /\ \A k \in JobKey : jobs[k] = "absent"
            /\ ScheduledKeys \subseteq PendingKeys'
<1>1. CASE keys = {}
  BY <1>1 DEF JobsWith, TypeOK
<1>2. CASE keys = ScheduledKeys
  <2>1. \A k \in ScheduledKeys : jobs[k] = "absent"
    BY <1>2 DEF Conflicts
  <2>2. \A k \in JobKey : jobs[k] = "absent"
    BY <2>1, ScheduleHasAllUnits DEF ScheduleIsWhole, ScheduleIsThere
  <2>3. ScheduledKeys \subseteq PendingKeys'
    BY <1>2, ScheduleHasAllUnits DEF JobsWith, PendingKeys
  <2> QED
    BY <2>2, <2>3
<1> QED
  BY <1>1, <1>2 DEF IsWhole

LEMMA ThereStays ==
  ASSUME TypeOK, [Next]_vars, ScheduleIsThere
  PROVE  ScheduleIsThere'
BY JobsStay, ScheduleHasAllUnits DEF ScheduleIsThere

LEMMA ScheduleWholeStep ==
  ASSUME TypeOK, WorkIsOpen, BatchInv, [Next]_vars
  PROVE  ScheduleIsWhole'
<1>1. CASE ScheduleIsThere
  BY <1>1, ThereStays DEF ScheduleIsWhole
<1>2. CASE ~ ScheduleIsThere /\ \A k \in JobKey : jobs[k] = "absent"
  <2>1. ASSUME NEW keys, IsWhole(keys), ~ Conflicts(keys), jobs' = JobsWith(keys)
        PROVE  ScheduleIsWhole'
    BY <1>2, <2>1, WholeInsert DEF BatchInv, ScheduleIsWhole, ScheduleIsThere, PendingKeys
  <2>2. ASSUME NEW r \in Slots, CommitTrigger(r) PROVE ScheduleIsWhole'
    BY <2>1, <2>2 DEF CommitTrigger, BatchInv, RequestsAreWhole, RequestIsWhole
  <2>3. ASSUME NEW r \in Slots, CommitRetry(r) PROVE FALSE
    BY <1>2, <2>3 DEF CommitRetry, BatchInv, RequestsAreWhole, RequestIsWhole
  <2>4. ASSUME NEW r \in Slots, CommitCancel(r) PROVE ScheduleIsWhole'
    <3>1. req[r].keys = {}
      BY <1>2, <2>4 DEF CommitCancel, BatchInv, RequestsAreWhole, RequestIsWhole, TypeOK, Request
    <3> QED
      BY <1>2, <2>4, <3>1 DEF CommitCancel, ScheduleIsWhole
  <2>5. ASSUME NEW w \in Worker, CommitSchedule(w) PROVE ScheduleIsWhole'
    BY <2>1, <2>5 DEF CommitSchedule, Advance, BatchInv, SchedulersAreWhole
  <2>6. ASSUME NEW w \in Worker, NEW outcome \in Outcome, FinishJob(w, outcome) PROVE FALSE
    BY <1>2, <2>6, FinishJobAnswersOnce
  <2>7. CASE UNCHANGED jobs
    BY <1>2, <2>7 DEF ScheduleIsWhole
  <2> QED
    BY <2>2, <2>3, <2>4, <2>5, <2>6, <2>7, RowsFrame
<1> QED
  BY <1>1, <1>2 DEF BatchInv, ScheduleIsWhole

LEMMA SchedulersStep ==
  ASSUME Serialized, TypeOK, SerialInv, BatchInv, [Next]_vars
  PROVE  SchedulersAreWhole'
<1> SUFFICES ASSUME NEW w \in Worker, pc'[w] = "schedule_commit"
             PROVE  IsWhole(todo[w])'
  BY DEF SchedulersAreWhole
<1> USE DEF workerVars, TypeOK
<1>1. CASE ~ Alive(w)
  <2>1. PICK r \in Slots : CommitEnqueue(r) \/ CommitRetry(r)
    BY <1>1, AliveFrame DEF Alive
  <2> QED
    BY <1>1, <2>1 DEF CommitEnqueue, CommitRetry, EnqueueBackgroundJob, Alive
<1>2. CASE pc[w] = "schedule_commit" /\ UNCHANGED todo[w]
  <2>1. IsWhole(todo[w])
    BY <1>2 DEF BatchInv, SchedulersAreWhole
  <2> QED
    BY <1>2, <2>1, ThereStays DEF IsWhole
<1>3. CASE ReadSchedule(w)
  <2>1. todo'[w] = MissingKeys /\ jobs' = jobs
    BY <1>3 DEF ReadSchedule, dbVars
  <2>2. IsWhole(MissingKeys)
    BY ScheduleHasAllUnits DEF BatchInv, ScheduleIsWhole, ScheduleIsThere, IsWhole, MissingKeys
  <2> QED
    BY <2>1, <2>2 DEF IsWhole, ScheduleIsThere
<1>4. CASE PipelineStep(w) /\ ~ ReadSchedule(w)
  BY <1>4 DEF PipelineStep, StartBackgroundJob, CommitSchedule, LoadJobs, StartJob,
          FinishJob, FinishExecution, PostProcess, RefreshAudit, Finalize, TakeSnapshot,
          CloseBackgroundJob, Forget, Advance
<1>5. CASE PipelineFault(w)
  BY <1>5 DEF PipelineFault, FailScheduling, RejectByPolicy, SkipJob, FailPostProcessing,
          EscapeJob, EscapeConfiguration, Escape, LoseTask, Forget, Advance
<1>6. CASE Crash
  BY <1>6 DEF Crash, Forget, Alive
<1>7. CASE UNCHANGED <<pc[w], todo[w]>>
  BY <1>2, <1>7
<1> HIDE DEF TypeOK, workerVars
<1> QED
  BY <1>1, <1>3, <1>4, <1>5, <1>6, <1>7, AtWork

\* a unit whose run numbers are not used up has a next one
LEMMA NextNumberExists ==
  ASSUME NEW u, 1 \in UsedRunNumbers(u), MaxRunNumber \notin UsedRunNumbers(u)
  PROVE  \E n \in 1..MaxRunNumber : IsNextRunNumber(u, n)
<1> DEFINE U == UsedRunNumbers(u)
           T == {n \in Nat : \A m \in U : m < n}
<1>1. MaxRunNumber \in Nat /\ U \subseteq 1..MaxRunNumber
  BY DomainAssumption DEF DomainAssumption, UsedRunNumbers
<1> HIDE DEF U
<1>2. MaxRunNumber \in T
  BY <1>1 DEF U
<1>3. PICK n \in T : \A m \in T : n <= m
  <2>1. T \subseteq Nat /\ T # {}
    BY <1>2
  <2> HIDE DEF T
  <2> QED
    BY <2>1, SmallestElement
<1>4. n \in Nat /\ 1 < n /\ n <= MaxRunNumber /\ n - 1 \in Nat /\ n - 1 \notin T
  BY <1>1, <1>2, <1>3 DEF U
<1>5. PICK m \in U : ~ (m < n - 1)
  BY <1>4
<1>6. m = n - 1
  BY <1>1, <1>3, <1>4, <1>5
<1>7. n \in 1..MaxRunNumber /\ n - 1 \in U /\ \A k \in U : k < n
  BY <1>1, <1>3, <1>4, <1>5, <1>6
<1> QED
  BY <1>7 DEF IsNextRunNumber, U

\* what a retry asks for when no run failed: it covers what is not answered
LEMMA RetryCoversUnits ==
  ASSUME TypeOK, RowsAgree, ScheduleIsThere, FailedKeys = {}, RoomForRetry
  PROVE  AllCovered(RetryKeys \cup PendingKeys)
<1> SUFFICES ASSUME NEW u \in Unit
             PROVE  \E k \in SuccessKeys \cup RetryKeys \cup PendingKeys : UnitOf(k) = u
  BY DEF AllCovered
<1>1. <<u, 1>> \in JobKey /\ <<u, 1>> \in ScheduledKeys /\ UnitOf(<<u, 1>>) = u
  BY ScheduleHasAllUnits
<1>2. \/ <<u, 1>> \in PendingKeys
      \/ <<u, 1>> \in SuccessKeys
      \/ jobs[<<u, 1>>] = "cancelled"
  BY <1>1 DEF ScheduleIsThere, RowsAgree, TypeOK, JobStatus, SuccessKeys, FailedKeys, PendingKeys
<1>3. CASE jobs[<<u, 1>>] = "cancelled"
  <2>1. u \in RetrySources
    BY <1>1, <1>3 DEF RetrySources
  <2>2. 1 \in UsedRunNumbers(u) /\ MaxRunNumber \notin UsedRunNumbers(u)
    BY <1>1, <1>3, <2>1, DomainAssumption DEF UsedRunNumbers, RoomForRetry, DomainAssumption
  <2>3. PICK n \in 1..MaxRunNumber : IsNextRunNumber(u, n)
    BY <2>2, NextNumberExists
  <2>4. <<u, n>> \in RetryKeys /\ UnitOf(<<u, n>>) = u
    BY <2>1, <2>3 DEF RetryKeys, JobKey, UnitOf, RunNumber
  <2> QED
    BY <2>4
<1> QED
  BY <1>1, <1>2, <1>3

\* the scheduler's jobs that are missing: all of them, or none
LEMMA MissingIsWhole ==
  ASSUME ScheduleIsWhole
  PROVE  IsWhole(MissingKeys)
BY ScheduleHasAllUnits DEF ScheduleIsWhole, ScheduleIsThere, IsWhole, MissingKeys

LEMMA RequestsWholeStep ==
  ASSUME Serialized, TypeOK, RowsAgree, WorkIsOpen, SerialInv, BatchInv, [Next]_vars
  PROVE  RequestsAreWhole'
<1> SUFFICES ASSUME NEW s \in Slots
             PROVE  RequestIsWhole(s)'
  BY DEF RequestsAreWhole
<1> USE DEF dbVars
<1>0. RequestIsWhole(s) /\ ScheduleIsWhole /\ req[s].keys \subseteq JobKey
  BY DEF BatchInv, RequestsAreWhole, TypeOK, Request
<1>1. CASE UNCHANGED req
  <2>0. ASSUME NEW r \in Slots, CommitTrigger(r) \/ CommitRetry(r) \/ CommitCancel(r)
        PROVE  req[s].op \notin {"retry", "cancel_marked"}
    <3>1. r = s /\ req'[r].op \in {"idle", "cancel_snapshot"}
      BY <2>0 DEF CommitTrigger, CommitRetry, CommitCancel, Idle, TypeOK, Serialized
    <3> QED
      BY <1>1, <3>1
  <2>1. ASSUME req[s].op = "retry"
        PROVE  RequestIsWhole(s)'
    <3>1. ASSUME NEW w \in Worker,
                 CommitSchedule(w) \/ \E outcome \in Outcome : FinishJob(w, outcome)
          PROVE  FALSE
      BY <2>1, <3>1, StartersStartAlone DEF CommitSchedule, FinishJob, Advance, Alive
    <3>2. UNCHANGED <<jobs, runs>>
      BY <2>0, <2>1, <3>1, RowsFrame
    <3> QED
      BY <1>0, <1>1, <2>1, <3>2 DEF RequestIsWhole, ScheduleIsThere, AllCovered, FailedKeys,
         SuccessKeys, PendingKeys
  <2>2. ASSUME req[s].op = "cancel_marked", req[s].keys # {}
        PROVE  PendingKeys' \subseteq PendingKeys
    <3>1. PICK k \in JobKey : jobs[k] # "absent"
      BY <1>0, <2>2 DEF RequestIsWhole
    <3>2. ASSUME NEW w \in Worker, CommitSchedule(w)
          PROVE  jobs' = jobs
      BY <1>0, <3>1, <3>2, WholeInsert
      DEF CommitSchedule, Advance, BatchInv, SchedulersAreWhole
    <3>3. ASSUME NEW w \in Worker, NEW outcome \in Outcome, FinishJob(w, outcome)
          PROVE  PendingKeys' \subseteq PendingKeys
      BY <3>3 DEF FinishJob, PendingKeys, ClosedJobStatus
    <3> QED
      BY <2>0, <2>2, <3>2, <3>3, RowsFrame DEF PendingKeys
  <2>3. \A k \in JobKey : jobs[k] # "absent" => jobs'[k] # "absent"
    BY JobsStay
  <2>4. ASSUME req[s].op = "cancel_marked"
        PROVE  RequestIsWhole(s)'
    <3>1. \A k \in req[s].keys : jobs'[k] # "absent"
      BY <1>0, <2>3, <2>4 DEF RequestIsWhole
    <3>2. req[s].keys = {} \/ PendingKeys' \subseteq req[s].keys
      BY <1>0, <2>2, <2>4 DEF RequestIsWhole
    <3> QED
      BY <1>1, <2>4, <3>1, <3>2 DEF RequestIsWhole
  <2>5. ASSUME req[s].op = "trigger"
        PROVE  RequestIsWhole(s)'
    BY <1>0, <1>1, <2>5, ThereStays DEF RequestIsWhole, IsWhole
  <2> QED
    BY <1>1, <2>1, <2>4, <2>5 DEF RequestIsWhole
<1>2. CASE BeginRetry(s)
  <2>1. /\ req'[s].op = "retry" /\ req'[s].keys = RetryKeys
        /\ UNCHANGED <<jobs, runs>>
        /\ RoomForRetry /\ RetrySources # {}
    BY <1>2 DEF BeginRetry, Idle, TypeOK
  <2>2. \E k \in JobKey : jobs[k] # "absent"
    BY <2>1 DEF RetrySources, FailedKeys, RowsAgree
  <2>3. ScheduleIsThere
    BY <1>0, <2>2 DEF ScheduleIsWhole
  <2>4. FailedKeys = {} => AllCovered(RetryKeys \cup PendingKeys)
    BY <2>1, <2>3, RetryCoversUnits
  <2> QED
    BY <2>1, <2>3, <2>4 DEF RequestIsWhole, ScheduleIsThere, AllCovered, FailedKeys,
       SuccessKeys, PendingKeys
<1>3. CASE BeginTrigger(s)
  <2>1. req'[s].op = "trigger" /\ req'[s].keys = MissingKeys /\ UNCHANGED jobs
    BY <1>3 DEF BeginTrigger, Idle, TypeOK
  <2> QED
    BY <1>0, <2>1, MissingIsWhole DEF RequestIsWhole, IsWhole, ScheduleIsThere
<1>4. CASE MarkCancel(s)
  <2>1. req'[s].op = "cancel_marked" /\ req'[s].keys = PendingKeys /\ UNCHANGED jobs
    BY <1>4 DEF MarkCancel, TypeOK, Request
  <2> QED
    BY <2>1 DEF RequestIsWhole, PendingKeys
<1>5. CASE BeginEnqueue(s) \/ BeginCancel(s)
  <2>1. req'[s].op \in {"enqueue", "cancel"}
    BY <1>5 DEF BeginEnqueue, BeginCancel, TypeOK, Idle
  <2> QED
    BY <2>1 DEF RequestIsWhole
<1>6. CASE \/ CommitEnqueue(s) \/ CommitTrigger(s) \/ CommitRetry(s) \/ RejectInsert(s)
           \/ FailRequest(s) \/ CommitCancel(s) \/ CancelSnapshot(s)
  <2>1. req'[s].op \in {"idle", "cancel_snapshot"}
    BY <1>6 DEF CommitEnqueue, CommitTrigger, CommitRetry, RejectInsert, FailRequest,
                CommitCancel, CancelSnapshot, TypeOK, Idle
  <2> QED
    BY <2>1 DEF RequestIsWhole
<1>7. CASE Crash
  BY <1>7 DEF Crash, Idle, RequestIsWhole
<1>8. ASSUME NEW r \in Slots, BeginRequest(r) \/ FinishRequest(r)
      PROVE  r = s
  BY DEF Serialized
<1> HIDE DEF dbVars
<1> QED
  BY <1>1, <1>2, <1>3, <1>4, <1>5, <1>6, <1>7, <1>8, RequestFrame
  DEF BeginRequest, FinishRequest

LEMMA PendingWholeStep ==
  ASSUME Serialized, TypeOK, RowsAgree, WorkIsOpen, SerialInv, BatchInv, [Next]_vars
  PROVE  PendingIsWhole'
<1> SUFFICES ASSUME FailedKeys' = {}
             PROVE  PendingKeys' = {} \/ AllCovered(PendingKeys)'
  BY DEF PendingIsWhole
<1>0. FailedKeys = {} /\ (PendingKeys = {} \/ AllCovered(PendingKeys))
  BY CoverStays DEF BatchInv, PendingIsWhole
<1>1. CASE UNCHANGED <<jobs, runs>>
  BY <1>0, <1>1 DEF PendingKeys, AllCovered, SuccessKeys
<1>2. ASSUME NEW keys, IsWhole(keys), ~ Conflicts(keys), jobs' = JobsWith(keys), UNCHANGED runs
      PROVE  PendingKeys' = {} \/ AllCovered(PendingKeys)'
  <2>1. CASE ScheduledKeys \subseteq PendingKeys'
    BY <2>1, ScheduleHasAllUnits DEF AllCovered
  <2> QED
    BY <1>1, <1>2, <2>1, WholeInsert DEF BatchInv
<1>3. ASSUME NEW r \in Slots, CommitTrigger(r)
      PROVE  PendingKeys' = {} \/ AllCovered(PendingKeys)'
  BY <1>2, <1>3 DEF CommitTrigger, BatchInv, RequestsAreWhole, RequestIsWhole
<1>4. ASSUME NEW w \in Worker, CommitSchedule(w)
      PROVE  PendingKeys' = {} \/ AllCovered(PendingKeys)'
  BY <1>2, <1>4 DEF CommitSchedule, Advance, BatchInv, SchedulersAreWhole
<1>5. ASSUME NEW r \in Slots, CommitRetry(r)
      PROVE  PendingKeys' = {} \/ AllCovered(PendingKeys)'
  <2>1. AllCovered(req[r].keys \cup PendingKeys)
    BY <1>0, <1>5 DEF CommitRetry, BatchInv, RequestsAreWhole, RequestIsWhole
  <2>2. req[r].keys \cup PendingKeys \subseteq PendingKeys' /\ UNCHANGED runs
    BY <1>5 DEF CommitRetry, JobsWith, PendingKeys, TypeOK, Request
  <2> QED
    BY <2>1, <2>2 DEF AllCovered, SuccessKeys
<1>6. ASSUME NEW r \in Slots, CommitCancel(r)
      PROVE  PendingKeys' = {} \/ AllCovered(PendingKeys)'
  <2>1. req[r].keys = {} \/ PendingKeys \subseteq req[r].keys
    BY <1>6 DEF CommitCancel, BatchInv, RequestsAreWhole, RequestIsWhole
  <2>2. PendingKeys' = PendingKeys \ req[r].keys /\ UNCHANGED runs
    BY <1>6 DEF CommitCancel, PendingKeys
  <2> QED
    BY <1>0, <2>1, <2>2 DEF AllCovered, SuccessKeys
<1>7. ASSUME NEW w \in Worker, NEW outcome \in Outcome, FinishJob(w, outcome)
      PROVE  PendingKeys' = {} \/ AllCovered(PendingKeys)'
  <2>1. PICK k \in JobKey :
            /\ runs' = [runs EXCEPT ![k] = outcome]
            /\ jobs' = [jobs EXCEPT ![k] = ClosedJobStatus(outcome)]
            /\ runs[k] = "absent"
    BY <1>7, FinishJobAnswersOnce
  <2>2. outcome = "success"
    BY <2>1 DEF FailedKeys, Outcome, TypeOK
  <2>3. PendingKeys' = PendingKeys \ {k} /\ SuccessKeys' = SuccessKeys \cup {k}
    BY <2>1, <2>2 DEF PendingKeys, SuccessKeys, ClosedJobStatus, TypeOK
  <2> QED
    BY <1>0, <2>3 DEF AllCovered
<1> QED
  BY <1>1, <1>3, <1>4, <1>5, <1>6, <1>7, RowsFrame

\* no other pipeline than w is at work, and w has its task
LEMMA WorkerIsAlone ==
  ASSUME SerialInv, NEW w \in Worker, Alive(w)
  PROVE  ~ Lost /\ \A v \in Worker : v # w => ~ Alive(v)
BY SerialMeansOnePipeline
DEF OnePipeline, SerialInv, OneActiveBackgroundJob, LivePipelineIsActive, NoDevPipeline,
    Lost, Worker, ActiveJobs

LEMMA LostStays ==
  ASSUME Serialized, TypeOK, SerialInv, [Next]_vars, Lost
  PROVE  Lost'
<1> USE DEF ActiveJobs, ActiveBackgroundJobStatuses, TypeOK
<1>1. PICK b \in ActiveJobs : ~ Alive(b)
  BY DEF Lost
<1>2. b \in BackgroundJob /\ b \in Worker
  BY DEF Worker
<1>3. CASE bg' = bg /\ \A w \in Worker : Alive(w)' => Alive(w)
  BY <1>1, <1>2, <1>3 DEF Lost
<1>4. ASSUME NEW r \in Slots, CommitEnqueue(r) \/ CommitRetry(r)
      PROVE  FALSE
  BY <1>1, <1>4 DEF CommitEnqueue, CommitRetry, SerialInv, StartersMeetNone
<1>5. ASSUME NEW r \in Slots, CommitCancel(r)
      PROVE  Lost'
  BY <1>1, <1>2, <1>5 DEF CommitCancel, WithCancelRequest, workerVars, Alive, Lost
<1>6. ASSUME NEW c \in BackgroundJob, StartBackgroundJob(c)
      PROVE  Lost'
  BY <1>1, <1>2, <1>6 DEF StartBackgroundJob, Advance, Alive, Lost
<1>7. ASSUME NEW d \in DevCalls, StartDevPipeline(d)
      PROVE  FALSE
  BY <1>7 DEF StartDevPipeline, Serialized
<1>8. ASSUME NEW w \in Worker, CloseBackgroundJob(w)
      PROVE  Lost'
  BY <1>1, <1>2, <1>8 DEF CloseBackgroundJob, Forget, Alive, Lost
<1> QED
  BY <1>3, <1>4, <1>5, <1>6, <1>7, <1>8, PipelineFrame

LEMMA ExecutionsStep ==
  ASSUME NoErrorInJobs, TypeOK, WorkIsOpen, SerialInv, BatchInv, [Next]_vars
  PROVE  ExecutionsAreWhole'
<1> SUFFICES ASSUME NEW w \in Worker, pc'[w] \in Executing, FailedKeys' = {}
             PROVE  \/ SuccessKeys' = {} /\ todo'[w] \cup held'[w] = {}
                    \/ AllCovered(todo[w] \cup held[w])'
  BY DEF ExecutionsAreWhole, ExecutionIsWhole
<1> USE DEF dbVars, workerVars, Executing, NoErrorInJobs, TypeOK
<1>0. FailedKeys = {} /\ ExecutionIsWhole(w) /\ WorkOf(w)
  BY CoverStays DEF BatchInv, ExecutionsAreWhole, WorkIsOpen
<1>1. CASE ~ Alive(w)
  <2>1. PICK r \in Slots : CommitEnqueue(r) \/ CommitRetry(r)
    BY <1>1, AliveFrame DEF Alive
  <2> QED
    BY <1>1, <2>1 DEF CommitEnqueue, CommitRetry, EnqueueBackgroundJob, Alive
<1>2. CASE UNCHANGED <<pc[w], todo[w], held[w], runs>>
  BY <1>0, <1>2 DEF ExecutionIsWhole, AllCovered, SuccessKeys
<1>3. CASE LoadJobs(w)
  <2>1. /\ todo'[w] = PendingKeys /\ held'[w] = {} /\ UNCHANGED runs
        /\ Alive(w) /\ pc[w] \notin Executing
    BY <1>0, <1>3 DEF LoadJobs, Advance, WorkOf, PendingKeys, Alive
  <2>2. \A v \in Worker : pc[v] \notin Executing
    BY <2>1, WorkerIsAlone DEF Alive
  <2>3. PendingKeys = {} => SuccessKeys = {} \/ AllAnswered
    BY <1>0, <2>1, <2>2, WorkerIsAlone DEF BatchInv, AllOrNone
  <2>4. \/ SuccessKeys = {} /\ PendingKeys = {}
        \/ AllCovered(PendingKeys)
    BY <1>0, <2>3 DEF BatchInv, PendingIsWhole, AllAnswered
  <2> QED
    BY <2>1, <2>4 DEF AllCovered, SuccessKeys
<1>4. ASSUME NEW k \in JobKey, StartJob(w, k)
      PROVE  /\ todo'[w] \cup held'[w] = todo[w] \cup held[w]
             /\ pc[w] \in Executing /\ UNCHANGED runs
  BY <1>0, <1>4 DEF StartJob, Advance, IsNextJob, WorkOf
<1>5. CASE \E k \in JobKey : StartJob(w, k)
  BY <1>0, <1>4, <1>5 DEF ExecutionIsWhole, AllCovered, SuccessKeys
<1>6. ASSUME NEW outcome \in Outcome, FinishJob(w, outcome)
      PROVE  AllCovered(todo[w] \cup held[w])'
  <2>1. PICK k \in JobKey : held[w] = {k} /\ runs' = [runs EXCEPT ![k] = outcome]
    BY <1>6, FinishJobAnswersOnce
  <2>2. outcome = "success"
    BY <2>1 DEF FailedKeys, Outcome
  <2>3. SuccessKeys' = SuccessKeys \cup {k} /\ todo'[w] = todo[w]
    BY <1>6, <2>1, <2>2 DEF SuccessKeys, FinishJob
  <2>4. AllCovered(todo[w] \cup {k})
    BY <1>0, <1>6, <2>1 DEF FinishJob, Advance, ExecutionIsWhole
  <2> QED
    BY <2>3, <2>4 DEF AllCovered
<1>7. CASE \/ StartBackgroundJob(w) \/ ReadSchedule(w) \/ CommitSchedule(w)
           \/ FinishExecution(w) \/ \E bad \in SUBSET JobKey : PostProcess(w, bad)
           \/ RefreshAudit(w) \/ Finalize(w) \/ TakeSnapshot(w) \/ CloseBackgroundJob(w)
  BY <1>7 DEF StartBackgroundJob, ReadSchedule, CommitSchedule, FinishExecution, PostProcess,
     RefreshAudit, Finalize, TakeSnapshot, CloseBackgroundJob, Forget, Advance
<1>8. CASE PipelineFault(w)
  BY <1>8 DEF PipelineFault, FailScheduling, RejectByPolicy, SkipJob, FailPostProcessing,
     EscapeJob, EscapeConfiguration, Escape, LoseTask, Advance
<1>9. CASE Alive(w) /\ Crash
  BY <1>9 DEF Crash, Forget
<1> HIDE DEF dbVars, workerVars, Executing, TypeOK
<1> QED
  BY <1>1, <1>2, <1>3, <1>5, <1>6, <1>7, <1>8, <1>9, AtWork DEF PipelineStep

\* the batch of a pipeline that has left the loop is answered, or its task is lost
LEMMA AllOrNoneStep ==
  ASSUME NoErrorInJobs, TypeOK, WorkIsOpen, SerialInv, BatchInv, [Next]_vars
  PROVE  AllOrNone'
<1> SUFFICES ASSUME \A w \in Worker : pc'[w] \notin Executing, FailedKeys' = {}
             PROVE  SuccessKeys' = {} \/ AllAnswered' \/ Lost'
  BY DEF AllOrNone
<1> USE DEF dbVars, workerVars, TypeOK
<1>0. FailedKeys = {} /\ Serialized /\ (AllAnswered => AllAnswered')
  BY CoverStays DEF AllAnswered, NoErrorInJobs
<1>1. UNCHANGED runs
  BY RunsFrame DEF FinishJob, Advance, Executing
<1>2. CASE \A w \in Worker : pc[w] \notin Executing
  BY <1>0, <1>1, <1>2, LostStays DEF BatchInv, AllOrNone, SuccessKeys
<1>3. ASSUME NEW w \in Worker, pc[w] \in Executing
      PROVE  SuccessKeys' = {} \/ AllAnswered' \/ Lost'
  <2>1. Alive(w) /\ ~ UNCHANGED pc[w] /\ ExecutionIsWhole(w) /\ WorkOf(w)
    BY <1>3 DEF Executing, Alive, BatchInv, ExecutionsAreWhole, WorkIsOpen
  <2>2. CASE FinishExecution(w)
    <3>1. todo[w] \cup held[w] = {}
      BY <2>1, <2>2 DEF FinishExecution, Advance, WorkOf
    <3> QED
      BY <1>0, <1>1, <1>3, <2>1, <3>1 DEF ExecutionIsWhole, AllAnswered, SuccessKeys
  <2>3. CASE Crash
    <3>1. w \in BackgroundJob /\ w \in ActiveJobs
      BY <2>1 DEF SerialInv, LivePipelineIsActive, NoDevPipeline, Worker
    <3>2. ~ Alive(w)' /\ ActiveJobs' = ActiveJobs
      BY <2>1, <2>3 DEF Crash, Forget, Alive, ActiveJobs
    <3> QED
      BY <3>1, <3>2 DEF Lost
  <2>4. CASE PipelineStep(w) /\ ~ FinishExecution(w)
    BY <1>3, <2>4 DEF PipelineStep, StartBackgroundJob, ReadSchedule, CommitSchedule,
       LoadJobs, StartJob, FinishJob, PostProcess, RefreshAudit, Finalize, TakeSnapshot,
       CloseBackgroundJob, Advance, Executing
  <2>5. CASE PipelineFault(w)
    BY <1>3, <2>5 DEF PipelineFault, FailScheduling, RejectByPolicy, SkipJob,
       FailPostProcessing, EscapeJob, EscapeConfiguration, Escape, LoseTask, Advance,
       Executing, NoErrorInJobs
  <2> QED
    BY <1>0, <2>1, <2>2, <2>3, <2>4, <2>5, AtWork
<1> QED
  BY <1>2, <1>3

LEMMA FailuresStep ==
  ASSUME NoErrorInJobs, TypeOK, SerialInv, BatchInv, [Next]_vars
  PROVE  FailuresAreReported'
<1> DEFINE Late == {"post_process"} \cup Deriving
<1> SUFFICES ASSUME NEW w \in Worker, pc'[w] \in Late, FailedKeys' # {}
             PROVE  "failed_runs" \in trouble'[w]
  BY DEF FailuresAreReported
<1> USE DEF dbVars, workerVars, TypeOK, Deriving
<1>0. pc[w] \in Late /\ FailedKeys # {} => "failed_runs" \in trouble[w]
  BY DEF BatchInv, FailuresAreReported
<1>1. CASE ~ Alive(w)
  <2>1. PICK r \in Slots : CommitEnqueue(r) \/ CommitRetry(r)
    BY <1>1, AliveFrame DEF Alive, NoErrorInJobs
  <2> QED
    BY <1>1, <2>1 DEF CommitEnqueue, CommitRetry, EnqueueBackgroundJob, Alive
<1>2. CASE UNCHANGED <<pc[w], trouble[w], runs>>
  BY <1>0, <1>2 DEF FailedKeys
<1>3. CASE FinishExecution(w)
  BY <1>3 DEF FinishExecution, Report, FailedKeys
<1>4. CASE RefreshAudit(w) \/ \E bad \in SUBSET JobKey : PostProcess(w, bad)
  <2>1. pc[w] \in Late /\ UNCHANGED runs
    BY <1>4 DEF RefreshAudit, PostProcess, Advance
  <2>2. "failed_runs" \in trouble[w]
    BY <1>0, <2>1 DEF FailedKeys
  <2>3. ASSUME NEW what, Report(w, what)
        PROVE  "failed_runs" \in trouble'[w]
    BY <2>2, <2>3 DEF Report
  <2>4. CASE RefreshAudit(w)
    BY <2>2, <2>4 DEF RefreshAudit
  <2> QED
    BY <1>4, <2>3, <2>4 DEF PostProcess
<1>5. CASE \/ StartBackgroundJob(w) \/ ReadSchedule(w) \/ CommitSchedule(w) \/ LoadJobs(w)
           \/ \E k \in JobKey : StartJob(w, k)
           \/ \E outcome \in Outcome : FinishJob(w, outcome)
           \/ Finalize(w) \/ TakeSnapshot(w) \/ CloseBackgroundJob(w)
  BY <1>5 DEF StartBackgroundJob, ReadSchedule, CommitSchedule, LoadJobs, StartJob, FinishJob,
     Finalize, TakeSnapshot, CloseBackgroundJob, Forget, Advance
<1>6. CASE PipelineFault(w)
  BY <1>6 DEF PipelineFault, FailScheduling, RejectByPolicy, SkipJob, FailPostProcessing,
     EscapeJob, EscapeConfiguration, Escape, LoseTask, Advance, NoErrorInJobs
<1>7. CASE Alive(w) /\ Crash
  BY <1>7 DEF Crash, Forget
<1> HIDE DEF dbVars, workerVars, TypeOK, Deriving
<1> QED
  BY <1>1, <1>2, <1>3, <1>4, <1>5, <1>6, <1>7, AtWork DEF PipelineStep, NoErrorInJobs

\* COMPLETED is written for an audit with an answer and without a failed run
LEMMA CompletedVerdict ==
  ASSUME TypeOK, SerialInv, BatchInv, NEW w \in Worker, pc[w] \in {"post_process", "finalize"},
         Cardinality(SuccessKeys \cup FailedKeys) >= ExpectedRunCount, FailedKeys = {}
  PROVE  AllAnswered
<1>1. Alive(w) /\ pc[w] \notin Executing
  BY DEF Alive, Executing
<1>2. ~ Lost /\ \A v \in Worker : pc[v] \notin Executing
  BY <1>1, WorkerIsAlone DEF Executing, Alive
<1>3. SuccessKeys # {}
  <2>1. ExpectedRunCount > 0 /\ ExpectedRunCount \in Int
    BY ScheduleIsEnough, QueriesAreCounted, ProvidersAreCounted, ScheduleHasAllUnits,
       DomainAssumption, ProductBound
    DEF ExpectedRunCount, DomainAssumption
  <2> QED
    BY <2>1, FS_EmptySet
<1> QED
  BY <1>2, <1>3 DEF BatchInv, AllOrNone

LEMMA CompletedAnsweredStep ==
  ASSUME NoErrorInJobs, TypeOK, WorkIsOpen, SerialInv, BatchInv, [Next]_vars
  PROVE  CompletedIsAnswered'
<1> SUFFICES ASSUME audit' = "completed"
             PROVE  AllAnswered'
  BY DEF CompletedIsAnswered
<1>0. AllAnswered => AllAnswered'
  BY CoverStays DEF AllAnswered
<1>1. CASE audit = "completed"
  BY <1>0, <1>1 DEF BatchInv, CompletedIsAnswered
<1>2. ASSUME NEW r \in Slots, \/ CommitEnqueue(r) \/ CommitTrigger(r)
                              \/ CommitRetry(r) \/ CommitCancel(r)
      PROVE  audit = "completed"
  BY <1>2 DEF CommitEnqueue, CommitTrigger, CommitRetry, CommitCancel, FlushStatus
<1>3. ASSUME NEW w \in Worker, \/ CommitSchedule(w) \/ FailScheduling(w)
                               \/ RejectByPolicy(w) \/ FailPostProcessing(w)
      PROVE  audit = "completed"
  BY <1>3 DEF CommitSchedule, FailScheduling, RejectByPolicy, FailPostProcessing, FlushStatus
<1>4. ASSUME NEW w \in Worker, NEW bad \in SUBSET JobKey, PostProcess(w, bad),
             audit # "completed"
      PROVE  AllAnswered
  <2> DEFINE counts == StatusCounts(
               {k \in SuccessKeys : parsed[k] > 0} \cup (UnprocessedKeys \ bad),
               Cardinality(FailedKeys), 0, Cardinality(bad))
             status == DerivePostProcessingStatus(counts, seen[w])
  <2>1. audit' = FlushStatus(seen[w], status, audit) /\ pc[w] = "post_process"
    BY <1>4 DEF PostProcess, Advance
  <2>2. status = "completed" /\ status # seen[w]
    BY <1>4, <2>1 DEF FlushStatus
  <2>3. AllExpectedTerminal(counts) /\ counts.terminal_failure = 0
    BY <2>2 DEF DerivePostProcessingStatus
  <2>4. /\ Cardinality(SuccessKeys \cup FailedKeys) >= ExpectedRunCount
        /\ Cardinality(FailedKeys) = 0
    BY <2>3 DEF StatusCounts, AllExpectedTerminal
  <2>5. FailedKeys = {}
    <3>1. FailedKeys \subseteq JobKey
      BY DEF FailedKeys
    <3> QED
      BY <2>4, <3>1, JobKeyFinite, FS_Subset, FS_EmptySet
  <2> QED
    BY <2>1, <2>4, <2>5, CompletedVerdict
<1>5. ASSUME NEW w \in Worker, Finalize(w), audit # "completed"
      PROVE  AllAnswered
  <2> DEFINE counts == StatusCounts({k \in SuccessKeys : parsed[k] > 0},
                                    ReportedCount(w, "failed_runs"),
                                    ReportedCount(w, "execution_errors"),
                                    ReportedCount(w, "processing_errors"))
  <2>1. FinalStatus(w) = "completed" /\ pc[w] = "finalize"
    BY <1>5 DEF Finalize, FlushStatus, Advance
  <2>2. AllExpectedTerminal(counts) /\ ~ HasRecoverableErrors(counts)
    BY <2>1 DEF FinalStatus, DeriveFinalAuditStatus
  <2>3. /\ Cardinality(SuccessKeys \cup FailedKeys) >= ExpectedRunCount
        /\ "failed_runs" \notin trouble[w]
    BY <2>2 DEF StatusCounts, AllExpectedTerminal, HasRecoverableErrors, ReportedCount
  <2>4. FailedKeys = {}
    BY <2>1, <2>3 DEF BatchInv, FailuresAreReported, Deriving
  <2> QED
    BY <2>1, <2>3, <2>4, CompletedVerdict
<1> QED
  BY <1>0, <1>1, <1>2, <1>3, <1>4, <1>5, AuditFrame

LEMMA BatchInvariant ==
  ASSUME NoErrorInJobs
  PROVE  Spec => []BatchInv
<1>0. Serialized
  BY DEF NoErrorInJobs
<1>1. Init => BatchInv
  <2> SUFFICES ASSUME Init
               PROVE  BatchInv
    OBVIOUS
  <2>1. SuccessKeys = {} /\ PendingKeys = {}
    BY DEF Init, SuccessKeys, PendingKeys
  <2> QED
    BY <2>1 DEF Init, BatchInv, ScheduleIsWhole, SchedulersAreWhole, RequestsAreWhole,
       RequestIsWhole, Idle, PendingIsWhole, ExecutionsAreWhole, ExecutionIsWhole, Executing,
       AllOrNone, FailuresAreReported, Deriving, CompletedIsAnswered
<1>2. /\ TypeOK /\ RowsAgree /\ WorkIsOpen /\ SerialInv /\ BatchInv
      /\ [Next]_vars
      => BatchInv'
  BY <1>0, ScheduleWholeStep, SchedulersStep, RequestsWholeStep, PendingWholeStep,
     ExecutionsStep, AllOrNoneStep, FailuresStep, CompletedAnsweredStep
  DEF BatchInv
<1> QED
  BY <1>0, <1>1, <1>2, TypeCorrect, RowsAlwaysAgree, WorkInvariant, SerialInvariant, PTL
  DEF Spec

\* An audit left COMPLETED was answered in full also when users cancel it, start it with
\* /run, retry it, and the process dies: its work comes in whole batches, so that no
\* unit, or every unit, is answered when nothing failed.
THEOREM CompletedSurvivesCancelling ==
  ASSUME NoErrorInJobs
  PROVE  Spec => []CompletedMeansAnswered
<1>1. BatchInv => CompletedMeansAnswered
  BY DEF BatchInv, CompletedIsAnswered, AllAnswered, AllCovered, CompletedMeansAnswered
<1> QED
  BY <1>1, BatchInvariant, PTL
=============================================================================
