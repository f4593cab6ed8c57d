---------------------------- MODULE ReportRules ----------------------------
(***************************************************************************)
(* What the API reports of the runs of an audit: status and progress, the   *)
(* scores, the summary with its breakdowns, the usage, the snapshot, and    *)
(* the comparison of two audits.                                           *)
(*                                                                         *)
(* Component scores are in hundredths, final scores and ratios in 1/10000;  *)
(* Rounded stands for round(), which differs in ties only.  rows is the     *)
(* sequence of the runs of an audit; a row is                              *)
(*   [query, query_type, target, provider, model_id, level, status,         *)
(*    processed, parsed, usage]                                            *)
(* where parsed is what the parser makes of the answer and matters only     *)
(* when the row is processed, that is, has a ParsedResult and a Score.      *)
(***************************************************************************)
EXTENDS AuditPlans

-----------------------------------------------------------------------------
(* The status report and the progress report.  jobs tells how far each job  *)
(* of the audit, the retries included, has come.                           *)

FailedStatus == {"error", "timeout", "rate_limited"}

JobState == {"pending", "running", "success", "cancelled"} \cup FailedStatus

Rounded(numerator, denominator) == (2 * numerator + denominator) \div (2 * denominator)

JobsIn(jobs, states) == Cardinality({i \in DOMAIN jobs : jobs[i] \in states})

\* mutant: a timeout is not a failed run
TimeoutsForgotten(jobs) == JobsIn(jobs, FailedStatus \ {"timeout"})

FailedRuns(jobs) == JobsIn(jobs, FailedStatus)

\* a running job has a run row in status PENDING, flushed with it
Status(audit, jobs) ==
    LET run_count == JobsIn(jobs, JobState \ {"pending", "cancelled"})
        total == Max({ExpectedRunCount(audit), run_count})
        completed == JobsIn(jobs, FailedStatus \cup {"success"})
    IN  [total_runs       |-> total,
         completed_runs   |-> completed,
         failed_runs      |-> JobsIn(jobs, FailedStatus),
         completion_ratio |-> IF total = 0 THEN 0 ELSE Rounded(10000 * completed, total)]

Progress(audit, jobs) ==
    LET queued == JobsIn(jobs, {"pending"})
        running == JobsIn(jobs, {"running"})
        completed == JobsIn(jobs, {"success"})
        skipped == JobsIn(jobs, {"cancelled"})
        terminal == completed + FailedRuns(jobs) + skipped
        total == Max({ExpectedRunsForProgress(audit), queued + running + terminal})
    IN  [total_runs       |-> total,
         queued_runs      |-> queued,
         running_runs     |-> running,
         completed_runs   |-> completed,
         failed_runs      |-> FailedRuns(jobs),
         skipped_runs     |-> skipped,
         percent_complete |-> IF total = 0 THEN 0 ELSE Rounded(1000 * terminal, total)]

-----------------------------------------------------------------------------
(* scoring.py.  parsed has visible, prominence, sentiment (-100 .. 100),    *)
(* recommendation and source_quality; NoNumber stands for None.            *)

NoNumber == 1000

Clamped(value) == IF value < 0 THEN 0 ELSE IF value > 100 THEN 100 ELSE value

Component(value) == IF value = NoNumber THEN 0 ELSE Clamped(value)

ComponentMetrics(parsed) ==
    [visibility     |-> IF parsed.visible THEN 100 ELSE 0,
     prominence     |-> Component(parsed.prominence),
     sentiment      |-> IF parsed.sentiment = NoNumber THEN 0
                        ELSE Clamped((parsed.sentiment + 100) \div 2),
     recommendation |-> Component(parsed.recommendation),
     source_quality |-> Component(parsed.source_quality)]

FinalScore(components) ==
    30 * components.visibility + 25 * components.prominence + 20 * components.sentiment
      + 15 * components.recommendation + 10 * components.source_quality

\* compute_score: an answer that does not show the brand scores 0
Score(parsed) == IF parsed.visible THEN FinalScore(ComponentMetrics(parsed)) ELSE 0

-----------------------------------------------------------------------------
(* aggregation.py, on the rows that _run_results_for_summary hands it.      *)

RowsOf(rows, Test(_)) == {i \in DOMAIN rows : Test(rows[i])}

Succeeded(row) == row.status = "success"
Failed(row) == row.status \in FailedStatus
IsProcessed(row) == row.processed

VisibleBrand(row) == row.processed /\ row.parsed.visible

\* a row without a score counts as 0
FinalScoreOf(row) == IF row.processed THEN Score(row.parsed) ELSE 0

NoScore == -1

QueryScore(rows, indices) ==
    LET successful == {i \in indices : Succeeded(rows[i])}
    IN  IF successful = {} THEN NoScore
        ELSE Rounded(SumFunction([i \in successful |-> FinalScoreOf(rows[i])]),
                     Cardinality(successful))

ProviderScores(rows) ==
    [provider \in {rows[i].provider : i \in DOMAIN rows} |->
        QueryScore(rows, RowsOf(rows, LAMBDA row : row.provider = provider))]

NoType == "unknown"

\* in tenths
QueryTypeWeight(query_type) ==
    CASE query_type = "category_discovery" -> 12
      [] query_type = "recommendation"     -> 15
      [] query_type = "comparison"         -> 13
      [] query_type = "alternative"        -> 12
      [] query_type = "problem_solution"   -> 14
      [] OTHER                             -> 10

WeightedVisibilityScore(rows) ==
    LET successful == RowsOf(rows, Succeeded)
        weight(i) == QueryTypeWeight(rows[i].query_type)
    IN  IF successful = {} THEN NoScore
        ELSE Rounded(SumFunction([i \in successful |-> FinalScoreOf(rows[i]) * weight(i)]),
                     SumFunction([i \in successful |-> weight(i)]))

\* mutant: only answers that show the brand are processed
ProcessedIfVisible(rows, indices) ==
    {i \in indices : Succeeded(rows[i]) /\ VisibleBrand(rows[i])}

SuccessfulOfType(rows, indices) == {i \in indices : Succeeded(rows[i])}

CoverageOf(rows, indices) ==
    LET successful == SuccessfulOfType(rows, indices)
        found == {i \in successful : VisibleBrand(rows[i])}
    IN  [total_queries     |-> Cardinality({rows[i].query : i \in indices}),
         processed_runs    |-> Cardinality(successful),
         failed_runs       |-> Cardinality(indices) - Cardinality(successful),
         brand_found_count |-> Cardinality(found),
         average_score     |-> QueryScore(rows, successful)]

\* runs that are still pending have no part in the coverage
QueryTypeCoverage(rows) ==
    LET ended == RowsOf(rows, LAMBDA row : row.status # "pending")
    IN  [query_type \in {rows[i].query_type : i \in ended} |->
            CoverageOf(rows, {i \in ended : rows[i].query_type = query_type})]

CriticalScoreThreshold == 3000

\* the reason of a critical query, or "none"
Criticality(rows, query) ==
    LET indices == RowsOf(rows, LAMBDA row : row.query = query)
        score == QueryScore(rows, indices)
    IN  CASE \A i \in indices : ~ VisibleBrand(rows[i])      -> "not_visible"
          [] \E i \in indices : VisibleBrand(rows[i]) /\ score = NoScore -> "no_successful_runs"
          [] /\ \E i \in indices : VisibleBrand(rows[i])
             /\ score # NoScore /\ score < CriticalScoreThreshold -> "low_score"
          [] OTHER -> "none"

CriticalQueries(rows) ==
    {query \in {rows[i].query : i \in DOMAIN rows} : Criticality(rows, query) # "none"}

AuditSummary(rows) ==
    LET successful == RowsOf(rows, Succeeded)
    IN  [total_queries        |-> Cardinality({rows[i].query : i \in DOMAIN rows}),
         total_runs           |-> Len(rows),
         successful_runs      |-> Cardinality(successful),
         failed_runs          |-> Len(rows) - Cardinality(successful),
         visible_runs         |-> Cardinality({i \in successful : VisibleBrand(rows[i])}),
         average_score        |-> QueryScore(rows, DOMAIN rows),
         weighted_score       |-> WeightedVisibilityScore(rows),
         critical_query_count |-> Cardinality(CriticalQueries(rows)),
         provider_scores      |-> ProviderScores(rows)]

-----------------------------------------------------------------------------
(* The rest of the summaries: tone, diagnostics and usage.                 *)

\* the score is the stored sentiment_score, which scoring.py maps to 0 .. 100
ToneLabel(score) ==
    CASE score > 10                  -> "positive"
      [] score < -10                 -> "negative"
      [] score \in -10 .. 10         -> "neutral"

ToneOf(row) ==
    IF row.processed THEN ToneLabel(ComponentMetrics(row.parsed).sentiment) ELSE "unknown"

ToneCounts(rows) ==
    [tone \in {"positive", "neutral", "negative", "unknown"} |->
        Cardinality(RowsOf(rows, LAMBDA row : ToneOf(row) = tone))]

\* the runs with a provider diagnostic; successes and pending runs carry no error
Diagnosed(rows) == RowsOf(rows, LAMBDA row : row.status \notin {"success", "pending"})

\* usage: [input, output, total], 0 where the provider reports nothing
UsageTotals(usage) ==
    [usage EXCEPT !.total = IF @ = 0 THEN usage.input + usage.output ELSE @]

\* what _usage_rows groups by
UsageKey(row) == [target |-> row.target, provider |-> row.provider,
                  model_id |-> row.model_id, level |-> row.level]

UsageSum(rows, indices) ==
    [run_count |-> Cardinality(indices),
     total     |-> SumFunction([i \in indices |-> UsageTotals(rows[i].usage).total])]

UsageByTarget(rows) ==
    [key \in {UsageKey(rows[i]) : i \in DOMAIN rows} |->
        UsageSum(rows, RowsOf(rows, LAMBDA row : UsageKey(row) = key))]

-----------------------------------------------------------------------------
(* The snapshot: post_processing.py collects the concepts and competitors,  *)
(* longitudinal_snapshots.py the rest.  parsed has also the sources, a      *)
(* sequence of domains, the concepts, a sequence of names, and candidates,  *)
(* a set of [name, domain].  Items are a set of [id, key, count].          *)

Occurrences(sequence, item) == Cardinality({i \in DOMAIN sequence : sequence[i] = item})

CountsOf(rows, indices, ListOf(_)) ==
    {[id |-> item, key |-> item,
      count |-> SumFunction([i \in indices |-> Occurrences(ListOf(rows[i]), item)])] :
        item \in UNION {Range(ListOf(rows[i])) : i \in indices}}

SourceDomains(rows) == CountsOf(rows, RowsOf(rows, IsProcessed), LAMBDA row : row.parsed.sources)

IsCollected(row) == row.processed /\ Succeeded(row)

CollectedFrom(rows) == RowsOf(rows, IsCollected)

Concepts(rows) == CountsOf(rows, CollectedFrom(rows), LAMBDA row : row.parsed.concepts)

\* one candidate for each name and domain
Competitors(rows) ==
    {[id |-> candidate, key |-> candidate.name,
      count |-> Cardinality({i \in CollectedFrom(rows) : candidate \in rows[i].parsed.candidates})] :
        candidate \in UNION {rows[i].parsed.candidates : i \in CollectedFrom(rows)}}

Mentionability(rows, indices, level) ==
    LET processed == {i \in indices : rows[i].level = level /\ Succeeded(rows[i]) /\ rows[i].processed}
    IN  IF processed = {} THEN NoScore
        ELSE Rounded(10000 * Cardinality({i \in processed : VisibleBrand(rows[i])}),
                     Cardinality(processed))

\* the level of a model is that of its first row
ModelSummaries(rows) ==
    [model_id \in {rows[i].model_id : i \in DOMAIN rows} |->
        LET group == RowsOf(rows, LAMBDA row : row.model_id = model_id)
            level == rows[Min(group)].level
        IN  [level |-> level, run_count |-> Cardinality(group),
             mentionability |-> Mentionability(rows, group, level)]]

Snapshot(rows) ==
    [run_count         |-> Len(rows),
     completed_runs    |-> Cardinality(RowsOf(rows, Succeeded)),
     failed_runs       |-> Cardinality(RowsOf(rows, Failed)),
     mentionability_l1 |-> Mentionability(rows, DOMAIN rows, "L1"),
     mentionability_l2 |-> Mentionability(rows, DOMAIN rows, "L2"),
     models            |-> ModelSummaries(rows),
     sources           |-> SourceDomains(rows),
     concepts          |-> Concepts(rows),
     competitors       |-> Competitors(rows)]

-----------------------------------------------------------------------------
(* longitudinal_diffs.py and the comparison of two snapshots.              *)

ItemKeys(items) == {item.key : item \in items}

\* mutant: a second item with the same key replaces the first
CountOfOne(items, key) == (CHOOSE item \in items : item.key = key).count

CountOfKey(items, key) ==
    SumFunction([item \in {item \in items : item.key = key} |-> item.count])

NoCount == -1

ItemCount(items, key) == IF key \in ItemKeys(items) THEN CountOfKey(items, key) ELSE NoCount

ChangeStatus(current_count, previous_count) ==
    CASE previous_count = NoCount -> "added"
      [] previous_count # NoCount /\ current_count = NoCount -> "removed"
      [] previous_count # NoCount /\ current_count > previous_count -> "increased"
      [] current_count # NoCount /\ current_count < previous_count -> "decreased"
      [] OTHER -> "persisted"

DiffCountedItems(current, previous) ==
    [key \in ItemKeys(current) \cup ItemKeys(previous) |->
        LET current_count == ItemCount(current, key)
            previous_count == ItemCount(previous, key)
        IN  [current  |-> current_count,
             previous |-> previous_count,
             status   |-> ChangeStatus(current_count, previous_count)]]

MetricDelta(current, previous) ==
    IF current = NoScore \/ previous = NoScore THEN NoNumber ELSE current - previous

ModelDeltas(current, previous) ==
    [model_id \in DOMAIN current.models \cup DOMAIN previous.models |->
        CASE model_id \notin DOMAIN previous.models -> [status |-> "added", delta |-> NoNumber]
          [] model_id \notin DOMAIN current.models  -> [status |-> "removed", delta |-> NoNumber]
          [] OTHER ->
               [status |-> "persisted",
                delta  |-> MetricDelta(current.models[model_id].mentionability,
                                       previous.models[model_id].mentionability)]]

NoDomain == "no domain"

\* brand: [id, name, domain]
SameLongitudinalGroup(current, previous) ==
    IF current.domain # NoDomain /\ previous.domain # NoDomain
    THEN current.domain = previous.domain
    ELSE current.name = previous.name

IsComparisonCandidate(current, candidate) ==
    SameLongitudinalGroup(current, candidate) \/ current.id = candidate.id

Comparison(current, previous, current_brand, previous_brand) ==
    [run_count_delta    |-> MetricDelta(current.run_count, previous.run_count),
     models             |-> ModelDeltas(current, previous),
     sources            |-> DiffCountedItems(current.sources, previous.sources),
     concepts           |-> DiffCountedItems(current.concepts, previous.concepts),
     competitors        |-> DiffCountedItems(current.competitors, previous.competitors),
     warns_of_strangers |-> ~ SameLongitudinalGroup(current_brand, previous_brand)
                               /\ current_brand.id # previous_brand.id]
=============================================================================
