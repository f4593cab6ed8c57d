----------------------------- MODULE AuditPlans -----------------------------
(***************************************************************************)
(* What an audit will ask and what it will cost: the validation of a        *)
(* creation request, the estimate, the rows created from it, the jobs the   *)
(* scheduler makes of them, and the seed queries suggested for a draft.     *)
(*                                                                         *)
(* A text stands for all spellings that agree up to white space and case.  *)
(***************************************************************************)
EXTENDS ProviderRules, SequencesExt

CONSTANTS
    Texts,              \* texts of 3 to 300 characters
    UnfitTexts,         \* shorter or longer ones
    MaxSeedQueryCount,  \* 20 in the code, as MAX_TOTAL_SEED_QUERY_COUNT
    Caps                \* audit_caps: [targets, models, queries, runs]

Blank == "blank text"

-----------------------------------------------------------------------------
(* AuditCreateRequest and AuditEstimateRequest.  A field of the payload is  *)
(* absent, null or given.                                                  *)

Absent == [set |-> FALSE, null |-> TRUE, value |-> <<>>]
Null == [set |-> TRUE, null |-> TRUE, value |-> <<>>]
Given(value) == [set |-> TRUE, null |-> FALSE, value |-> value]

NoMaximum == 0

SupportedProviders == {"mock", "openai", "anthropic", "gemini"}

\* deduplicate_queries; validate_providers and derive_legacy_providers do the same
Deduplicated(items) ==
    FoldLeft(LAMBDA kept, item : IF Contains(kept, item) THEN kept ELSE Append(kept, item),
             <<>>, items)

IsSeedList(texts) == Len(texts) <= MaxSeedQueryCount /\ Range(texts) \subseteq Texts

IsProviderList(providers) == providers # <<>> /\ Range(providers) \subseteq SupportedProviders

TargetKey(target) == <<target.execution_provider, target.model_id, target.level>>

IsTargetList(targets) ==
    /\ targets # <<>>
    /\ \A i \in DOMAIN targets :
          targets[i].level = "L1" => ~ targets[i].gateway_l2_experimental
    /\ \A i, j \in DOMAIN targets : TargetKey(targets[i]) = TargetKey(targets[j]) => i = j

\* build_seed_query_items: typed items are kept as they are
SeedQueryItems(payload) ==
    IF payload.seed_query_items.null
    THEN Deduplicated(payload.seed_queries.value)
    ELSE payload.seed_query_items.value

EstimateIsValid(payload) ==
    /\ IsSeedList(payload.seed_queries.value)
    /\ IsSeedList(payload.seed_query_items.value)
    /\ ~ payload.providers.null => IsProviderList(payload.providers.value)
    /\ ~ payload.model_targets.null => IsTargetList(payload.model_targets.value)
    /\ ~ (payload.seed_queries.set /\ payload.seed_query_items.set)
    /\ ~ payload.model_targets.null => ~ payload.providers.set /\ ~ payload.scdl_level.set
    /\ payload.runs_per_query \in 1 .. 5

RequestIsValid(payload) ==
    /\ EstimateIsValid(payload)
    /\ SeedQueryItems(payload) # <<>>
    /\ payload.model_targets.null => payload.providers.value # <<>>

\* an absent level holds the default
LevelOfRequest(payload) == payload.scdl_level.value

\* a legacy provider becomes a target whose model is the provider's own code
TargetOfProvider(provider, level) ==
    [execution_provider |-> provider, model_id |-> provider, level |-> level,
     gateway_l2_experimental |-> FALSE]

TargetRequests(payload) ==
    IF payload.model_targets.null
    THEN LET providers == Deduplicated(payload.providers.value)
         IN  [i \in DOMAIN providers |-> TargetOfProvider(providers[i], LevelOfRequest(payload))]
    ELSE payload.model_targets.value

ProvidersOfTargets(targets) ==
    Deduplicated([i \in DOMAIN targets |-> targets[i].execution_provider])

LevelOfTargets(targets) == IF \E i \in DOMAIN targets : targets[i].level = "L2" THEN "L2" ELSE "L1"

Estimate(payload) ==
    LET targets == TargetRequests(payload)
        query_count == Len(SeedQueryItems(payload))
    IN  [query_count    |-> query_count,
         target_count   |-> Len(targets),
         model_count    |-> Cardinality({<<targets[i].execution_provider, targets[i].model_id>> :
                                            i \in DOMAIN targets}),
         estimated_runs |-> query_count * Len(targets) * payload.runs_per_query]

OverCap(estimate) ==
    \/ estimate.target_count > Caps.targets
    \/ estimate.model_count > Caps.models
    \/ estimate.query_count > Caps.queries
    \/ estimate.estimated_runs > Caps.runs

-----------------------------------------------------------------------------
(* The audit of a request, and its jobs.  A row's id is its position.       *)

CreatedAudit(payload) ==
    LET targets == TargetRequests(payload)
    IN  [queries        |-> SeedQueryItems(payload),
         targets        |-> targets,
         providers      |-> ProvidersOfTargets(targets),
         scdl_level     |-> LevelOfTargets(targets),
         runs_per_query |-> payload.runs_per_query,
         max_queries    |-> payload.max_queries]

EffectiveQueries(audit) ==
    IF audit.max_queries = NoMaximum
    THEN audit.queries
    ELSE SubSeq(audit.queries, 1, Min({audit.max_queries, Len(audit.queries)}))

TargetCount(audit) == IF audit.targets # <<>> THEN Len(audit.targets) ELSE Len(audit.providers)

\* get_expected_run_count: the trigger and the status report
ExpectedRunCount(audit) ==
    Len(EffectiveQueries(audit)) * TargetCount(audit) * audit.runs_per_query

\* estimate_expected_runs_for_audit: the progress report
ExpectedRunsForProgress(audit) ==
    LET query_count == IF audit.max_queries = NoMaximum
                       THEN Len(audit.queries)
                       ELSE Min({Len(audit.queries), audit.max_queries})
    IN  query_count * TargetCount(audit) * audit.runs_per_query

\* [target id, provider] pairs; audits older than targets have providers only
SchedulingTargets(audit) ==
    IF audit.targets # <<>>
    THEN {[id |-> i, provider |-> audit.targets[i].execution_provider] : i \in DOMAIN audit.targets}
    ELSE {[id |-> 0, provider |-> audit.providers[i]] : i \in DOMAIN audit.providers}

\* mutant: the key of a job names the provider only
KeyOfProvider(query, target, run) == <<query, 0, target.provider, run>>

JobKey(query, target, run) == <<query, target.id, target.provider, run>>

\* the keys of the jobs that schedule_jobs_for_audit adds
ScheduledJobs(audit, existing) ==
    {JobKey(query, target, run) :
        query \in DOMAIN EffectiveQueries(audit),
        target \in SchedulingTargets(audit),
        run \in 1 .. audit.runs_per_query} \ existing

\* validate_audit_pipeline_triggerable, of an audit in status CREATED
MayTrigger(audit, config) ==
    /\ ExpectedRunCount(audit) # 0
    /\ PolicyAccepts([providers      |-> Range(audit.providers),
                      query_count    |-> Len(EffectiveQueries(audit)),
                      runs_per_query |-> audit.runs_per_query], config)

-----------------------------------------------------------------------------
(* seed_query_generation.py.  offered is what the model's JSON holds:        *)
(* Blank stands for an item without text or of an unknown type.  A list is  *)
(* [failed, items].                                                        *)

NoSuggestions == [suggestions |-> <<>>, skipped_duplicates |-> 0, skipped_limit |-> 0]

Unavailable == NoSuggestions
Full(count) == [NoSuggestions EXCEPT !.skipped_limit = count]

\* one turn of the loop of _suggestions_from_provider_output
Pick(acc, text, seen, limit) ==
    CASE text = Blank -> acc
      [] text # Blank /\ text \in seen \cup Range(acc.suggestions)
           -> [acc EXCEPT !.skipped_duplicates = @ + 1]
      [] text # Blank /\ text \notin seen \cup Range(acc.suggestions)
                      /\ Len(acc.suggestions) >= limit
           -> [acc EXCEPT !.skipped_limit = @ + 1]
      [] OTHER -> [acc EXCEPT !.suggestions = Append(@, text)]

\* the whole loop, which _generate_paa_suggestions has too
Picked(items, seen, limit) ==
    FoldLeft(LAMBDA acc, text : Pick(acc, text, seen, limit), NoSuggestions, items)

AISuggestions(source, seen, count, slots) ==
    IF source.failed THEN Unavailable ELSE Picked(source.items, seen, Min({count, slots}))

\* one turn of the loop over People Also Ask questions; the limit is not 0
Ask(questions, text, limit) ==
    IF text = Blank \/ Len(questions) >= limit THEN questions ELSE Append(questions, text)

\* what the provider returns: at most limit texts, duplicates included
QuestionsWithin(items, limit) ==
    FoldLeft(LAMBDA questions, text : Ask(questions, text, limit), <<>>, items)

PAASuggestions(source, seen, count, slots) ==
    CASE slots <= 0                  -> Full(count)
      [] slots > 0 /\ source.failed  -> Unavailable
      [] OTHER -> Picked(QuestionsWithin(source.items, Min({count, slots})),
                         seen, Min({count, slots}))

Merged(current, incoming) ==
    [suggestions        |-> current.suggestions \o incoming.suggestions,
     skipped_duplicates |-> current.skipped_duplicates + incoming.skipped_duplicates,
     skipped_limit      |-> current.skipped_limit + incoming.skipped_limit]

\* mutant: the suggestions of the first source are not remembered for the second
OnlyTheDraft(existing, ai) == existing

SeenAfter(existing, ai) == existing \cup Range(ai.suggestions)

\* draft: [existing, count, use_ai, use_paa, ai, paa]; at least one source is used
Suggestions(draft) ==
    LET existing == Range(draft.existing) \ {Blank}
        slots == MaxSeedQueryCount - Cardinality(existing)
        ai == IF draft.use_ai THEN AISuggestions(draft.ai, existing, draft.count, slots)
                              ELSE NoSuggestions
        seen == SeenAfter(existing, ai)
        paa == IF draft.use_paa
               THEN PAASuggestions(draft.paa, seen, draft.count, MaxSeedQueryCount - Cardinality(seen))
               ELSE NoSuggestions
    IN  IF slots <= 0 THEN Full(draft.count) ELSE Merged(ai, paa)
=============================================================================
