--------------------------- MODULE AuditAnalytics ---------------------------
(***************************************************************************)
(* What is derived from the runs of an audit: the evaluations a user asks  *)
(* for, the metrics snapshot taken at the end of a pipeline or of a cancel *)
(* request, and the reports, which are computed from the rows on every     *)
(* request (summary, answer matrix) or from the snapshot (trends).         *)
(*                                                                         *)
(* A re-evaluation is one transaction.  SQLAlchemy sends the row of a run  *)
(* to the database at the next SELECT (autoflush), so the row locks and    *)
(* the unique keys of the runs are taken one by one and held to the end.   *)
(* The evaluator is the one the endpoint uses: its verdict depends on the  *)
(* answer only, so an answer is modelled by its verdict.                   *)
(***************************************************************************)
EXTENDS Integers, Sequences, FiniteSets

CONSTANTS
    Queries,
    Targets,        \* audit_targets of the audit; {NoTarget} for an audit without
    LevelOf,        \* [Targets -> Level]: AuditTarget.level
    ModelOf,        \* [Targets -> models]: AuditTarget.model_id, or the provider
    ScdlLevel,      \* Audit.scdl_level
    Verdicts,       \* verdicts the evaluator gives
    MaxRuns,        \* bound of the model: runs of the audit, retries included
    Slots,          \* re-evaluation requests that may be in progress together
    Snapshotters    \* callers of create_audit_metrics_snapshot: the pipeline, a cancel request

NoTarget == "no target"

Level == {"L1", "L2"}

StrictVerdicts == {"correct", "partial", "incorrect"}

ASSUME AnalyticsAssumption ==
    /\ LevelOf \in [Targets -> Level]
    /\ ScdlLevel \in Level
    /\ Verdicts \subseteq StrictVerdicts \cup {"unknown"}
    /\ MaxRuns \in Nat \ {0}
    /\ IsFiniteSet(Queries) /\ IsFiniteSet(Targets)
    /\ Cardinality(Queries) * Cardinality(Targets) <= MaxRuns

Job == [query: Queries, target: Targets, number: 1..MaxRuns]

\* parsed: ParsedResult.visible_brand of a processed run
Run == [job: Job, status: {"success", "failed"}, says: Verdicts \cup {"nothing"},
        parsed: {"no", "found", "absent"}]

VARIABLES
    stage,      \* stage of the pipeline; "done": the status of the audit is terminal
    jobs,       \* jobs to execute
    runs,       \* rows of runs in the order of their ids
    evals,      \* rows of answer_evaluations: [ids of runs evaluated -> Verdicts]
    snapshots,  \* rows of audit_metrics_snapshots by version: what they were built from
    rerun,      \* [Slots -> Rerun]
    found       \* [Snapshotters -> BOOLEAN]: found no snapshot and is building one

vars == <<stage, jobs, runs, evals, snapshots, rerun, found>>

Ids == 1..Len(runs)

Rerun == [stage: {"idle", "next", "flush"},
          seen: 0..MaxRuns,             \* number of the rows read
          todo: SUBSET (1..MaxRuns),    \* runs with a usable answer, not evaluated yet
          at: 0..MaxRuns,               \* run whose evaluation is to be flushed
          inserts: BOOLEAN,             \* the SELECT found no evaluation of it
          locked: SUBSET (1..MaxRuns)]  \* runs whose evaluation is flushed

Idle == [stage |-> "idle", seen |-> 0, todo |-> {}, at |-> 0, inserts |-> FALSE, locked |-> {}]

TypeOK ==
    /\ stage \in {"execute", "process", "done"}
    /\ jobs \subseteq Job
    /\ runs \in Seq(Run)
    /\ DOMAIN evals \subseteq Ids /\ \A i \in DOMAIN evals : evals[i] \in Verdicts
    /\ \A v \in 1..Len(snapshots) :
         snapshots[v].runs \in Seq(Run) /\ DOMAIN snapshots[v].evals \subseteq Ids
    /\ rerun \in [Slots -> Rerun]
    /\ found \in [Snapshotters -> BOOLEAN]

Init ==
    /\ stage = "execute"
    /\ jobs = [query: Queries, target: Targets, number: {1}]
    /\ runs = << >>
    /\ evals = << >>
    /\ snapshots = << >>
    /\ rerun = [s \in Slots |-> Idle]
    /\ found = [c \in Snapshotters |-> FALSE]

-----------------------------------------------------------------------------
(* The pipeline, as far as the derived rows depend on it (AuditExecution   *)
(* has its requests, its failures and its status).                         *)

ExecuteJob(j) ==
    /\ stage = "execute"
    /\ j \in jobs
    /\ jobs' = jobs \ {j}
    /\ \E run \in [job: {j}, status: {"success"}, says: Verdicts, parsed: {"no"}]
                  \cup [job: {j}, status: {"failed"}, says: {"nothing"}, parsed: {"no"}] :
         runs' = Append(runs, run)
    /\ UNCHANGED <<stage, evals, snapshots, rerun, found>>

\* jobs a cancel request closed have no run
CancelJobs ==
    /\ stage = "execute"
    /\ jobs # {}
    /\ jobs' = {}
    /\ UNCHANGED <<stage, runs, evals, snapshots, rerun, found>>

Unprocessed == {i \in Ids : runs[i].status = "success" /\ runs[i].parsed = "no"}

\* process_audit_results: a run whose processing fails stays without a parsed result
PostProcess ==
    /\ stage = "execute"
    /\ jobs = {}
    /\ \E processed \in SUBSET Unprocessed, mentions \in SUBSET Unprocessed :
         /\ mentions \subseteq processed
         /\ runs' = [i \in Ids |->
                       IF i \notin processed THEN runs[i]
                       ELSE [runs[i] EXCEPT !.parsed = IF i \in mentions THEN "found" ELSE "absent"]]
    /\ stage' = "done"
    /\ UNCHANGED <<jobs, evals, snapshots, rerun, found>>

Failed == {i \in Ids : runs[i].status = "failed"}

\* every query and target that ever failed gets the next run number
RetryJobs ==
    {j \in Job :
        /\ \E i \in Failed : runs[i].job.query = j.query /\ runs[i].job.target = j.target
        /\ j.number = 1 + Cardinality({i \in Ids : runs[i].job.query = j.query
                                                   /\ runs[i].job.target = j.target})}

Retry ==
    /\ stage = "done"
    /\ RetryJobs # {}
    /\ Len(runs) + Cardinality(RetryJobs) <= MaxRuns
    /\ stage' = "execute"
    /\ jobs' = RetryJobs
    /\ UNCHANGED <<runs, evals, snapshots, rerun, found>>

-----------------------------------------------------------------------------
(* POST /audits/{id}/rerun-evaluation.                                     *)

\* mutant: failed runs are evaluated too
HasRow(i) == i \in Ids

HasUsableAnswer(i) == runs[i].status = "success" /\ runs[i].says # "nothing"

ReadRuns(s) ==
    /\ rerun[s].stage = "idle"
    /\ rerun' = [rerun EXCEPT ![s] = [Idle EXCEPT !.stage = "next", !.seen = Len(runs),
                                                  !.todo = {i \in Ids : HasUsableAnswer(i)}]]
    /\ UNCHANGED <<stage, jobs, runs, evals, snapshots, found>>

\* mutant: the rows come in any order
AnyRow(s, i) == i \in rerun[s].todo

\* ORDER BY runs.id
IsNextRow(s, i) == i \in rerun[s].todo /\ \A k \in rerun[s].todo : i <= k

\* evaluate_answer_safely and the SELECT of upsert_answer_evaluation_for_run
Evaluate(s) ==
    /\ rerun[s].stage = "next"
    /\ \E i \in rerun[s].todo :
         /\ IsNextRow(s, i)
         /\ rerun' = [rerun EXCEPT ![s].stage = "flush", ![s].todo = @ \ {i}, ![s].at = i,
                                   ![s].inserts = i \notin DOMAIN evals]
    /\ UNCHANGED <<stage, jobs, runs, evals, snapshots, found>>

Verdict(i) == runs[i].says

\* the evaluation of the run is locked by another open transaction
IsLockedFor(s, i) == \E other \in Slots \ {s} : i \in rerun[other].locked

\* an INSERT that finds the unique key of the run taken
Collides(s) == rerun[s].inserts /\ rerun[s].at \in DOMAIN evals

\* mutant: each evaluation is committed
FlushAndCommit(s) ==
    /\ rerun[s].stage = "flush"
    /\ ~ IsLockedFor(s, rerun[s].at)
    /\ ~ Collides(s)
    /\ evals' = [i \in DOMAIN evals \cup {rerun[s].at} |->
                   IF i = rerun[s].at THEN Verdict(i) ELSE evals[i]]
    /\ rerun' = [rerun EXCEPT ![s].stage = "next"]
    /\ UNCHANGED <<stage, jobs, runs, snapshots, found>>

Flush(s) ==
    /\ rerun[s].stage = "flush"
    /\ ~ IsLockedFor(s, rerun[s].at)
    /\ ~ Collides(s)
    /\ rerun' = [rerun EXCEPT ![s].stage = "next", ![s].locked = @ \cup {rerun[s].at}]
    /\ UNCHANGED <<stage, jobs, runs, evals, snapshots, found>>

\* IntegrityError: rollback, nothing of the request is kept, the answer is 500
RefuseRerun(s) ==
    /\ rerun[s].stage = "flush"
    /\ ~ IsLockedFor(s, rerun[s].at)
    /\ Collides(s)
    /\ rerun' = [rerun EXCEPT ![s] = Idle]
    /\ UNCHANGED <<stage, jobs, runs, evals, snapshots, found>>

CommitRerun(s) ==
    /\ rerun[s].stage = "next"
    /\ rerun[s].todo = {}
    /\ evals' = [i \in DOMAIN evals \cup rerun[s].locked |->
                   IF i \in rerun[s].locked THEN Verdict(i) ELSE evals[i]]
    /\ rerun' = [rerun EXCEPT ![s] = Idle]
    /\ UNCHANGED <<stage, jobs, runs, snapshots, found>>

-----------------------------------------------------------------------------
(* create_audit_metrics_snapshot.                                          *)

\* latest_audit_snapshot finds none for a terminal audit
FindNoSnapshot(c) ==
    /\ stage = "done"
    /\ ~ found[c]
    /\ snapshots = << >>
    /\ found' = [found EXCEPT ![c] = TRUE]
    /\ UNCHANGED <<stage, jobs, runs, evals, snapshots, rerun>>

\* mutant: no unique constraint on audit_id and snapshot_version
NeverTaken(version) == FALSE

VersionTaken(version) == version \in 1..Len(snapshots)

\* the payload is built and version 1 inserted
StoreSnapshot(c) ==
    /\ found[c]
    /\ ~ VersionTaken(1)
    /\ snapshots' = Append(snapshots, [runs |-> runs, evals |-> evals])
    /\ found' = [found EXCEPT ![c] = FALSE]
    /\ UNCHANGED <<stage, jobs, runs, evals, rerun>>

\* IntegrityError: the pipeline logs it, the cancel request answers 500
RefuseSnapshot(c) ==
    /\ found[c]
    /\ VersionTaken(1)
    /\ found' = [found EXCEPT ![c] = FALSE]
    /\ UNCHANGED <<stage, jobs, runs, evals, snapshots, rerun>>

-----------------------------------------------------------------------------
(* A metric over runs is the pair of a count and its total; NoMetric is    *)
(* None, where the code avoids a division by zero.                         *)

NoMetric == <<0, 0>>

Metric(counted, all) == <<Cardinality(counted), Cardinality(all)>>

(* Metrics of the snapshot payload, of runs rs and evaluations es.         *)

\* _row_level
RowLevel(run) == IF run.job.target = NoTarget THEN "L1" ELSE LevelOf[run.job.target]

RowsAt(rs, ids, level) == {i \in ids : RowLevel(rs[i]) = level}

\* mutant: runs without a parsed result count as processed
AnsweredRows(rs, ids) == {i \in ids : rs[i].status = "success"}

ProcessedRows(rs, ids) == {i \in ids : rs[i].status = "success" /\ rs[i].parsed # "no"}

Mentionability(rs, ids, level) ==
    LET processed == ProcessedRows(rs, RowsAt(rs, ids, level))
    IN  Metric({i \in processed : rs[i].parsed = "found"}, processed)

Accuracy(rs, es, ids, level) ==
    LET strict == {i \in RowsAt(rs, ids, level) \cap DOMAIN es : es[i] \in StrictVerdicts}
    IN  Metric({i \in strict : es[i] = "correct"}, strict)

First(ids) == CHOOSE i \in ids : \A k \in ids : i <= k

\* _model_summaries: the level of a model is the level of its first row
ModelSummary(rs, es, model) ==
    LET ids   == {i \in DOMAIN rs : ModelOf[rs[i].job.target] = model}
        level == RowLevel(rs[First(ids)])
    IN  [level |-> level, run_count |-> Cardinality(ids),
         mentionability |-> Mentionability(rs, ids, level),
         accuracy |-> Accuracy(rs, es, ids, level)]

ModelsIn(rs) == {ModelOf[rs[i].job.target] : i \in DOMAIN rs}

SummaryMetrics(rs, es) ==
    [run_count |-> Len(rs),
     completed_runs |-> Cardinality({i \in DOMAIN rs : rs[i].status = "success"}),
     failed_runs |-> Cardinality({i \in DOMAIN rs : rs[i].status = "failed"}),
     mentionability |-> [level \in Level |-> Mentionability(rs, DOMAIN rs, level)],
     accuracy |-> [level \in Level |-> Accuracy(rs, es, DOMAIN rs, level)]]

\* _longitudinal_snapshot_view: the latest snapshot, else the current rows
View ==
    IF snapshots # << >> THEN LET last == snapshots[Len(snapshots)]
                              IN  SummaryMetrics(last.runs, last.evals)
                         ELSE SummaryMetrics(runs, evals)

(* Metrics of GET /audits/{id}/summary-v2.                                 *)

\* _target_level
TargetLevel(run) == IF run.job.target = NoTarget THEN ScdlLevel ELSE LevelOf[run.job.target]

\* row.visible_brand is None when the run has no parsed result
VisibleBrand(run) == CASE run.parsed = "no" -> "None"
                       [] run.parsed = "found" -> "True"
                       [] run.parsed = "absent" -> "False"

MentionabilityForLevel(ids, level) ==
    LET processed == {i \in ids : /\ TargetLevel(runs[i]) = level
                                  /\ runs[i].status = "success"
                                  /\ VisibleBrand(runs[i]) # "None"}
    IN  Metric({i \in processed : VisibleBrand(runs[i]) = "True"}, processed)

\* _accuracy_for_level, _strict_accuracy
AccuracyForLevel(ids, level) ==
    LET evaluated == {i \in ids \cap DOMAIN evals : TargetLevel(runs[i]) = level}
        counted   == {i \in evaluated : evals[i] \in StrictVerdicts}
    IN  Metric({i \in counted : evals[i] = "correct"}, counted)

\* _model_summaries_v2: one line per model, both levels
ModelLine(model) ==
    LET ids == {i \in Ids : ModelOf[runs[i].job.target] = model}
    IN  [mr |-> [level \in Level |-> MentionabilityForLevel(ids, level)],
         accuracy |-> [level \in Level |-> AccuracyForLevel(ids, level)]]

(* GET /audits/{id}/answer-matrix.                                         *)

\* mutant: a cell is looked up by its query
RunsOfQuery(query, target) == {i \in Ids : runs[i].job.query = query}

RunsOfCell(query, target) ==
    {i \in Ids : runs[i].job.query = query /\ runs[i].job.target = target}

\* _answer_matrix_run_lookup: setdefault in the order of run_number
RunOfCell(query, target) ==
    CHOOSE i \in RunsOfCell(query, target) :
        \A k \in RunsOfCell(query, target) : runs[i].job.number <= runs[k].job.number

CellStatus(query, target) ==
    IF RunsOfCell(query, target) = {} THEN "not_run"
    ELSE LET run == runs[RunOfCell(query, target)]
         IN  CASE run.status = "failed" -> "failed"
               [] run.status = "success" /\ run.parsed = "no" -> "partial"
               [] OTHER -> "completed"

Cells == Queries \X Targets

-----------------------------------------------------------------------------
PipelineStep == (\E j \in Job : ExecuteJob(j)) \/ CancelJobs \/ PostProcess \/ Retry

RerunStep(s) == Evaluate(s) \/ Flush(s) \/ RefuseRerun(s) \/ CommitRerun(s)

SnapshotStep(c) == StoreSnapshot(c) \/ RefuseSnapshot(c)

Next ==
    \/ PipelineStep
    \/ \E s \in Slots : ReadRuns(s) \/ RerunStep(s)
    \/ \E c \in Snapshotters : FindNoSnapshot(c) \/ SnapshotStep(c)

Spec == Init /\ [][Next]_vars

\* a request that has begun goes on; PostgreSQL wakes the waiters of a lock in turn
Fairness ==
    /\ \A s \in Slots : SF_vars(RerunStep(s))
    /\ \A c \in Snapshotters : WF_vars(SnapshotStep(c))

FairSpec == Spec /\ Fairness

-----------------------------------------------------------------------------
(* Properties.                                                             *)

\* A re-evaluation that meets another one, or runs that a retry adds, either evaluates
\* every usable answer it has read or leaves no trace.
RerunIsAtomic ==
    [][evals' # evals =>
         \E s \in Slots :
            /\ rerun[s].stage # "idle" /\ rerun'[s].stage = "idle"
            /\ \A i \in 1..rerun[s].seen :
                 HasUsableAnswer(i) => i \in DOMAIN evals' /\ evals'[i] = Verdict(i)]_vars

\* the re-evaluations that hold the row s wants to write next
WaitsFor(s) ==
    {t \in Slots \ {s} : rerun[s].stage = "flush" /\ rerun[s].at \in rerun[t].locked}

\* Re-evaluations of one audit lock its evaluations one by one and keep them to the
\* commit, and never wait for each other in a circle: the rows come in the order of
\* their ids, and a retry in between only adds later ones.
NoCircularWait ==
    \A waiting \in SUBSET Slots :
        waiting # {} => \E s \in waiting : WaitsFor(s) \cap waiting = {}

\* Every re-evaluation ends, however often it has to wait for another one.
RerunsEnd == \A s \in Slots : rerun[s].stage # "idle" ~> rerun[s].stage = "idle"

\* The pipeline and a cancel request may both find no snapshot; the audit gets one.
OneSnapshotPerAudit == Len(snapshots) <= 1

\* The two implementations of the metrics, for trends and for the summary, agree on the
\* same rows: per level, and per model at the level the snapshot gives the model.
TrendAgreesWithSummary ==
    /\ \A level \in Level :
         /\ Mentionability(runs, Ids, level) = MentionabilityForLevel(Ids, level)
         /\ Accuracy(runs, evals, Ids, level) = AccuracyForLevel(Ids, level)
    /\ \A model \in ModelsIn(runs) :
         LET trend == ModelSummary(runs, evals, model)
         IN  /\ trend.mentionability = ModelLine(model).mr[trend.level]
             /\ trend.accuracy = ModelLine(model).accuracy[trend.level]

\* Until a retry adds runs, the matrix has one completed cell for every run the
\* summary counts as processed.
MatrixAgreesWithSummary ==
    (\A i \in Ids : runs[i].job.number = 1) =>
        \A level \in Level :
            Cardinality({cell \in Cells :
                           /\ CellStatus(cell[1], cell[2]) = "completed"
                           /\ TargetLevel([job |-> [target |-> cell[2]]]) = level})
              = MentionabilityForLevel(Ids, level)[2]

\* The matrix shows an answer wherever there is one.
MatrixShowsAnswers ==
    \A i \in Ids : runs[i].parsed # "no"
                     => CellStatus(runs[i].job.query, runs[i].job.target) = "completed"

\* Trends show the current metrics of an audit at rest.
TrendIsCurrent ==
    stage = "done" /\ (\A s \in Slots : rerun[s].stage = "idle")
      => View = SummaryMetrics(runs, evals)
=============================================================================
