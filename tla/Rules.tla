------------------------------- MODULE Rules --------------------------------
(***************************************************************************)
(* The rules of ProviderRules, AuditPlans and ReportRules put to work: one  *)
(* question, of any kind the application answers without keeping state, is  *)
(* answered in one step.  The CONSTANTS are the questions.                 *)
(***************************************************************************)
EXTENDS ReportRules

CONSTANTS
    Calls,          \* [adapter, target, env, reply]: a job's call to a provider
    Plans,          \* payloads of creation requests
    Triggers,       \* [audit, config]: a request to run an audit
    Watches,        \* [audit, jobs]: a look at the progress of an audit
    Drafts,         \* seed queries asked for a draft
    Reports,        \* the runs of an audit
    Comparisons     \* [current, previous, current_brand, previous_brand]

ASSUME CallsAssumption ==
    Calls \subseteq
        [adapter : Adapter, target : [level : Level, model_id : ModelId \cup {NoModel}],
         env : [api_key : BOOLEAN, sdk : BOOLEAN, web_search : BOOLEAN, allowed : SUBSET ModelId,
                configured : ModelId \cup {NoModel}, mock_mode : DOMAIN MockError],
         reply : Reply]

\* the providers of an audit are those of its targets (CreatedAudit)
ASSUME TriggersAssumption ==
    \A trigger \in Triggers :
        /\ trigger.config.provider_mode \in ProviderMode
        /\ trigger.audit.targets # <<>> =>
              Range(trigger.audit.providers)
                = {trigger.audit.targets[i].execution_provider : i \in DOMAIN trigger.audit.targets}

IsList(items) == items \in Seq(Range(items))

\* the lists of a payload are lists
ASSUME PlansAssumption ==
    /\ Caps.runs \in Nat
    /\ \A payload \in Plans :
          /\ payload.max_queries \in Nat
          /\ IsList(payload.seed_queries.value) /\ IsList(payload.seed_query_items.value)
          /\ IsList(payload.providers.value) /\ IsList(payload.model_targets.value)

\* the rows of an audit, and the jobs of its runs
ASSUME WatchesAssumption ==
    \A watch \in Watches :
        /\ watch.audit.queries \in Seq(Texts)
        /\ watch.audit.targets \in Seq(Range(watch.audit.targets))
        /\ watch.audit.providers \in Seq(Range(watch.audit.providers))
        /\ {watch.audit.max_queries, watch.audit.runs_per_query} \subseteq Nat
        /\ watch.jobs \in Seq(JobState)

\* the request schema holds the count between 1 and 10
ASSUME DraftsAssumption ==
    /\ MaxSeedQueryCount \in Nat
    /\ \A draft \in Drafts :
          /\ draft.count \in Nat \ {0}
          /\ draft.use_ai \in BOOLEAN /\ draft.use_paa \in BOOLEAN
          /\ draft.existing \in Seq(Range(draft.existing))
          /\ draft.ai.items \in Seq(Range(draft.ai.items))
          /\ draft.paa.items \in Seq(Range(draft.paa.items))

\* the runs of an audit, with what the parser and the provider give as numbers
IsReport(rows) ==
    /\ rows \in Seq(Range(rows))
    /\ \A i \in DOMAIN rows :
          LET parsed == rows[i].parsed
              usage == rows[i].usage
          IN  /\ {parsed.prominence, parsed.sentiment, parsed.recommendation,
                  parsed.source_quality} \subseteq Int
              /\ {usage.input, usage.output, usage.total} \subseteq Nat
              /\ parsed.sources \in Seq(Range(parsed.sources))
              /\ parsed.concepts \in Seq(Range(parsed.concepts))
              /\ IsFiniteSet(parsed.candidates)

ASSUME ReportsAssumption ==
    /\ \A rows \in Reports : IsReport(rows)
    /\ \A pair \in Comparisons : IsReport(pair.current) /\ IsReport(pair.previous)

VARIABLES question, answer

vars == <<question, answer>>

Unanswered == [kind |-> "none"]

Init ==
    /\ answer = Unanswered
    /\ \/ \E call \in Calls : question = [kind |-> "call", of |-> call]
       \/ \E payload \in Plans : question = [kind |-> "plan", of |-> payload]
       \/ \E trigger \in Triggers : question = [kind |-> "trigger", of |-> trigger]
       \/ \E watch \in Watches : question = [kind |-> "watch", of |-> watch]
       \/ \E draft \in Drafts : question = [kind |-> "draft", of |-> draft]
       \/ \E rows \in Reports : question = [kind |-> "report", of |-> rows]
       \/ \E pair \in Comparisons : question = [kind |-> "comparison", of |-> pair]

Asks(kind) == answer = Unanswered /\ question.kind = kind /\ UNCHANGED question

\* the worker queries the adapter and normalises what it returns
CallProvider ==
    /\ Asks("call")
    /\ LET call == question.of
           outcome == Query(call.adapter, call.target, call.env, call.reply)
       IN  answer' = [kind |-> "call", model |-> outcome.model, response |-> outcome.response,
                      stored |-> Normalized(outcome.response)]

PlanAudit ==
    /\ Asks("plan")
    /\ LET payload == question.of
           estimate == Estimate(payload)
           audit == CreatedAudit(payload)
       IN  answer' =
             IF ~ RequestIsValid(payload) \/ OverCap(estimate)
             THEN [kind |-> "plan", accepted |-> FALSE]
             ELSE [kind |-> "plan", accepted |-> TRUE, estimated |-> estimate.estimated_runs,
                   expected |-> ExpectedRunCount(audit), shown |-> ExpectedRunsForProgress(audit),
                   keys |-> ScheduledJobs(audit, {}),
                   again |-> ScheduledJobs(audit, ScheduledJobs(audit, {}))]

\* a job's provider is built with the credentials of the provider mode
TriggerAudit ==
    /\ Asks("trigger")
    /\ LET audit == question.of.audit
           config == question.of.config
       IN  answer' =
             [kind |-> "trigger", triggered |-> MayTrigger(audit, config),
              adapters |-> {BuildProviderAdapter(target.provider, config, {config.provider_mode}) :
                               target \in SchedulingTargets(audit)}]

WatchAudit ==
    /\ Asks("watch")
    /\ answer' = [kind |-> "watch", status |-> Status(question.of.audit, question.of.jobs),
                  progress |-> Progress(question.of.audit, question.of.jobs)]

SuggestQueries ==
    /\ Asks("draft")
    /\ answer' = [kind |-> "draft", result |-> Suggestions(question.of)]

ReportAudit ==
    /\ Asks("report")
    /\ answer' = [kind |-> "report", summary |-> AuditSummary(question.of),
                  coverage |-> QueryTypeCoverage(question.of), tone |-> ToneCounts(question.of),
                  diagnosed |-> Diagnosed(question.of), usage |-> UsageByTarget(question.of)]

CompareAudits ==
    /\ Asks("comparison")
    /\ LET pair == question.of
       IN  answer' =
             [kind |-> "comparison",
              offered |-> IsComparisonCandidate(pair.current_brand, pair.previous_brand),
              comparison |-> Comparison(Snapshot(pair.current), Snapshot(pair.previous),
                                        pair.current_brand, pair.previous_brand)]

Next ==
    \/ CallProvider
    \/ PlanAudit
    \/ TriggerAudit
    \/ WatchAudit
    \/ SuggestQueries
    \/ ReportAudit
    \/ CompareAudits

Spec == Init /\ [][Next]_vars

-----------------------------------------------------------------------------
(* Properties.                                                             *)

\* Whatever a provider's server, SDK and the environment do, the adapter
\* returns a response that the ProviderResponse contract accepts, the worker's
\* normalisation leaves it alone, the status timeout or rate_limited goes with
\* the code of that name (retries and diagnostics look at one or the other),
\* and only a reply with text becomes a success.
AnswersKeepTheContract ==
    answer.kind = "call" =>
        /\ IsLegalResponse(answer.response)
        /\ answer.stored = answer.response
        /\ (answer.stored.status = "timeout") = (answer.stored.error = "TIMEOUT")
        /\ (answer.stored.status = "rate_limited") = (answer.stored.error = "RATE_LIMIT")
        /\ answer.stored.status = "success" =>
              /\ answer.stored.answer = "text"
              /\ question.of.adapter = "mock" \/ question.of.reply = "text"

\* A call that a server was too slow, too busy or too broken to answer ends with
\* an error that the diagnostics show as retryable, behind every adapter.
TransientFailuresAreRetryable ==
    /\ answer.kind = "call"
    /\ question.of.adapter # "mock"
    /\ answer.model # NoModel
    /\ question.of.reply \in {"timeout", "status_429", "status_500"}
    => IsRetryable(answer.stored.error)

\* The job of a target calls the target's model.  (docs/AUDIT_TARGETS_CONTRACT.md,
\* "`target.model_id` is the model that must be sent to the execution provider")
TargetModelIsCalled ==
    /\ answer.kind = "call"
    /\ answer.model # NoModel
    /\ question.of.target.model_id # NoModel
    => answer.model = question.of.target.model_id

\* The number of runs that the creation form was told is never exceeded, is
\* exact without max_queries, stays within the cap, and is what the trigger, the
\* progress report and the scheduler each compute for themselves; a second
\* scheduling adds nothing.
ScheduledRunsAreEstimated ==
    answer.kind = "plan" /\ answer.accepted =>
        /\ Cardinality(answer.keys) = answer.expected
        /\ answer.shown = answer.expected
        /\ answer.expected <= answer.estimated
        /\ question.of.max_queries = NoMaximum => answer.expected = answer.estimated
        /\ answer.expected <= Caps.runs
        /\ answer.again = {}

\* An audit the pilot policy lets start gets an adapter for every one of its
\* jobs: the policy and the factory agree on what a provider mode executes.
AcceptedAuditsGetAdapters ==
    answer.kind = "trigger" /\ answer.triggered => "refused" \notin answer.adapters

\* The status report and the progress report agree on what has ended, and before
\* any cancellation or retry also on the total and, below 2000 runs, on when
\* everything is done.  Progress is 100 % only when no job is left, or one in
\* 2000: the percentage is rounded to one decimal.
ProgressAgreesWithStatus ==
    answer.kind = "watch" =>
        LET jobs == question.of.jobs
            status == answer.status
            progress == answer.progress
        IN  /\ progress.completed_runs + progress.failed_runs = status.completed_runs
            /\ progress.failed_runs = status.failed_runs
            /\ progress.skipped_runs = 0 /\ Len(jobs) <= ExpectedRunCount(question.of.audit) =>
                  /\ progress.total_runs = status.total_runs
                  /\ progress.total_runs < 2000 =>
                       (progress.percent_complete = 1000) = (status.completion_ratio = 10000)
            /\ progress.percent_complete = 1000 =>
                  2000 * JobsIn(jobs, {"pending", "running"}) <= progress.total_runs

\* Suggestions never repeat the draft nor each other, however the two sources
\* overlap; with them the draft stays within the limit of a request; each source
\* gives at most what was asked for, and the answer accounts for every
\* suggestion of the model that it leaves out.
SuggestionsFitTheDraft ==
    answer.kind = "draft" =>
        LET draft == question.of
            result == answer.result
            existing == Range(draft.existing) \ {Blank}
            offered == {i \in DOMAIN draft.ai.items : draft.ai.items[i] # Blank}
        IN  /\ IsInjective(result.suggestions)
            /\ Range(result.suggestions) \cap (existing \cup {Blank}) = {}
            /\ result.suggestions # <<>> =>
                  Cardinality(existing) + Len(result.suggestions) <= MaxSeedQueryCount
            /\ Len(result.suggestions) <= draft.count * (IF draft.use_ai /\ draft.use_paa THEN 2 ELSE 1)
            /\ draft.use_ai /\ ~ draft.use_paa /\ ~ draft.ai.failed
                 /\ Cardinality(existing) < MaxSeedQueryCount =>
                  Len(result.suggestions) + result.skipped_duplicates + result.skipped_limit
                    = Cardinality(offered)

\* The breakdowns of a summary add up: the coverage by query type to the runs
\* that ended, the usage by target to the audit's usage, the tones to all runs;
\* every failed run has its diagnostic; the weighted score lies between the
\* averages of the query types, and a query that scores well is not critical.
BreakdownsAddUp ==
    answer.kind = "report" =>
        LET rows == question.of
            summary == answer.summary
            coverage == answer.coverage
            pending == Cardinality(RowsOf(rows, LAMBDA row : row.status = "pending"))
            OverTypes(Field(_)) == SumFunction([t \in DOMAIN coverage |-> Field(coverage[t])])
            scored == {t \in DOMAIN coverage : coverage[t].processed_runs > 0}
        IN  /\ OverTypes(LAMBDA c : c.processed_runs) = summary.successful_runs
            /\ OverTypes(LAMBDA c : c.failed_runs) = summary.failed_runs - pending
            /\ OverTypes(LAMBDA c : c.brand_found_count) = summary.visible_runs
            /\ Cardinality(answer.diagnosed) = summary.failed_runs - pending
            /\ SumFunction(answer.tone) = summary.total_runs
            /\ SumFunction([k \in DOMAIN answer.usage |-> answer.usage[k].total])
                 = UsageSum(rows, DOMAIN rows).total
            /\ scored # {} =>
                 /\ summary.weighted_score >= Min({coverage[t].average_score : t \in scored})
                 /\ summary.weighted_score <= Max({coverage[t].average_score : t \in scored})
            /\ (\A i \in DOMAIN rows : /\ Succeeded(rows[i])
                                       /\ FinalScoreOf(rows[i]) >= CriticalScoreThreshold)
                 => summary.critical_query_count = 0

\* The tone shown for an answer is the sign of the sentiment found in it.
\* (tests/api/test_results_v2_summary.py expects a negative tone to be counted)
ToneFollowsSentiment ==
    answer.kind = "report" =>
        answer.tone["negative"] =
            Cardinality(RowsOf(question.of, LAMBDA row : row.processed /\ row.parsed.sentiment < -20))

\* A comparison of two audits accounts for what their answers hold: the changes
\* of sources, concepts and competitors sum up to the mentions in the answers of
\* either audit, an added or removed item occurs in one of them only, and two
\* audits of which one is offered for comparison are not called strangers.
ChangesExplainTheTotals ==
    answer.kind = "comparison" =>
        LET pair == question.of
            comparison == answer.comparison
            CurrentSum(changes) ==
                SumFunction([k \in DOMAIN changes |-> Max({0, changes[k].current})])
            PreviousSum(changes) ==
                SumFunction([k \in DOMAIN changes |-> Max({0, changes[k].previous})])
            Mentions(rows, Counted(_), SizeOf(_)) ==
                SumFunction([i \in RowsOf(rows, Counted) |-> SizeOf(rows[i].parsed)])
            Explains(changes, Counted(_), SizeOf(_)) ==
                /\ CurrentSum(changes) = Mentions(pair.current, Counted, SizeOf)
                /\ PreviousSum(changes) = Mentions(pair.previous, Counted, SizeOf)
        IN  /\ Explains(comparison.sources, IsProcessed, LAMBDA parsed : Len(parsed.sources))
            /\ Explains(comparison.concepts, IsCollected, LAMBDA parsed : Len(parsed.concepts))
            /\ Explains(comparison.competitors, IsCollected,
                        LAMBDA parsed : Cardinality(parsed.candidates))
            /\ \A name \in DOMAIN comparison.competitors :
                  LET NamedIn(rows) == \E i \in CollectedFrom(rows) :
                                          \E c \in rows[i].parsed.candidates : c.name = name
                  IN  /\ (comparison.competitors[name].status = "added") = ~ NamedIn(pair.previous)
                      /\ (comparison.competitors[name].status = "removed") = ~ NamedIn(pair.current)
            /\ answer.offered => ~ comparison.warns_of_strangers
=============================================================================
