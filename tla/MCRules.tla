------------------------------ MODULE MCRules -------------------------------
(* Questions for TLC: every combination of small values, or examples where   *)
(* the combinations are too many.                                           *)
EXTENDS Rules

CONSTANTS prefixed, plain, short, long, other, brief

Small == [targets |-> 2, models |-> 1, queries |-> 2, runs |-> 3]

-----------------------------------------------------------------------------
Environments(configured) ==
    [api_key : BOOLEAN, sdk : BOOLEAN, web_search : BOOLEAN, allowed : SUBSET ModelId,
     configured : configured, mock_mode : {"success"}]

CallTargets == [level : Level, model_id : ModelId \cup {NoModel}]

NoMatter == [api_key |-> TRUE, sdk |-> TRUE, web_search |-> TRUE, allowed |-> {},
             configured |-> prefixed, mock_mode |-> "success"]

SomeCalls ==
    [adapter : {"openai", "anthropic"}, target : CallTargets, env : Environments(ModelId),
     reply : Reply]
    \cup [adapter : {"openrouter"}, target : CallTargets,
          env : Environments(ModelId \cup {NoModel}), reply : Reply]
    \cup {[adapter |-> "mock", target |-> target, reply |-> "text",
           env |-> [NoMatter EXCEPT !.mock_mode = mode]] :
             target \in CallTargets, mode \in DOMAIN MockError}

-----------------------------------------------------------------------------
Target(provider, model, level) ==
    [execution_provider |-> provider, model_id |-> model, level |-> level,
     gateway_l2_experimental |-> FALSE]

Experimental(target) == [target EXCEPT !.gateway_l2_experimental = TRUE]

OpenAI1 == Target("openai", prefixed, "L1")
OpenAI2 == Target("openai", prefixed, "L2")
Gemini1 == Target("gemini", prefixed, "L1")
Router1 == Target("openrouter", plain, "L1")

Optional(values) == {Absent, Null} \cup {Given(value) : value \in values}

SomePlans ==
    [seed_queries : Optional(BoundedSeq({short, long, brief}, 2) \cup {<<short, long, short>>}),
     seed_query_items : Optional(BoundedSeq({short, long}, 2)),
     providers : Optional({<<>>, <<"mock">>, <<"openai", "openai">>, <<"openai", "gemini">>,
                           <<"openrouter">>}),
     model_targets : Optional({<<>>, <<OpenAI1>>, <<OpenAI1, OpenAI2>>, <<OpenAI1, OpenAI1>>,
                               <<OpenAI1, Router1>>, <<Experimental(OpenAI1)>>,
                               <<Experimental(OpenAI2)>>}),
     scdl_level : {[Absent EXCEPT !.value = "L1"], Given("L2")},
     runs_per_query : {0, 1, 2},
     max_queries : {NoMaximum, 1, 3}]

AuditOf(targets, providers, queries, runs) ==
    [queries |-> queries, targets |-> targets, providers |-> providers, scdl_level |-> "L1",
     runs_per_query |-> runs, max_queries |-> 1]

SomeTriggers ==
    [audit : {AuditOf(targets, ProvidersOfTargets(targets), <<short, long>>, runs) :
                 targets \in {<<OpenAI1>>, <<OpenAI1, OpenAI2>>, <<OpenAI1, Gemini1>>, <<Gemini1>>,
                              <<Router1>>, <<Target("anthropic", plain, "L1")>>,
                              <<Target("mock", plain, "L1")>>, <<Target("grok", plain, "L1")>>},
                 runs \in 1 .. 2}
             \cup {AuditOf(<<>>, providers, <<short>>, 1) :
                     providers \in {<<>>, <<"mock">>, <<"anthropic">>, <<"openai", "gemini">>}},
     config : [provider_mode : ProviderMode, real_provider_enabled : BOOLEAN, max_providers : 1 .. 2,
               max_queries : {1}, max_runs_per_query : 1 .. 2, max_total_runs : {1, 4}]]

\* a retry adds jobs once one has failed or was cancelled
SomeWatches ==
    {[audit |-> audit, jobs |-> jobs] :
        audit \in {AuditOf(<<>>, <<"mock">>, <<short>>, 1), AuditOf(<<OpenAI1>>, <<"openai">>, <<short, long>>, 3),
                   AuditOf(<<OpenAI1, OpenAI2>>, <<"openai">>, <<short>>, 1)},
        jobs \in BoundedSeq(JobState, 4)}

WatchesOfPrograms ==
    {watch \in SomeWatches :
        LET expected == ExpectedRunCount(watch.audit)
        IN  \/ watch.jobs = <<>>
            \/ Len(watch.jobs) = expected
            \/ /\ Len(watch.jobs) > expected
               /\ \E i \in 1 .. expected : watch.jobs[i] \in FailedStatus \cup {"cancelled"}}

-----------------------------------------------------------------------------
Source(items) == [failed |-> FALSE, items |-> items]
Broken == [failed |-> TRUE, items |-> <<>>]

SomeDrafts ==
    {draft \in
        [existing : BoundedSeq({short, long, Blank}, 2), count : 1 .. 2,
         use_ai : BOOLEAN, use_paa : BOOLEAN,
         ai : {Source(items) : items \in BoundedSeq({short, other, brief, Blank}, 3)} \cup {Broken},
         paa : {Source(items) : items \in BoundedSeq({short, other, Blank}, 2)} \cup {Broken}] :
        \/ draft.use_ai /\ draft.use_paa
        \/ draft.use_ai /\ draft.paa = Broken
        \/ draft.use_paa /\ draft.ai = Broken}

-----------------------------------------------------------------------------
Nothing == [visible |-> FALSE, prominence |-> 0, sentiment |-> 0, recommendation |-> NoNumber,
            source_quality |-> 0, sources |-> <<>>, concepts |-> <<>>, candidates |-> {}]

Praise == [visible |-> TRUE, prominence |-> 100, sentiment |-> 100, recommendation |-> 100,
           source_quality |-> 50, sources |-> <<"a.com", "b.com">>, concepts |-> <<"acme">>,
           candidates |-> {[name |-> "acme", domain |-> "acme.com"]}]

Blame == [visible |-> TRUE, prominence |-> 0, sentiment |-> -100, recommendation |-> NoNumber,
          source_quality |-> 0, sources |-> <<"a.com", "a.com">>, concepts |-> <<"acme", "bolt">>,
          candidates |-> {[name |-> "acme", domain |-> NoDomain],
                          [name |-> "bolt", domain |-> NoDomain]}]

Row(query, query_type, level, status, processed, parsed) ==
    [query |-> query, query_type |-> query_type, target |-> level, provider |-> "openai",
     model_id |-> prefixed, level |-> level, status |-> status, processed |-> processed,
     parsed |-> parsed, usage |-> [input |-> 1, output |-> 2, total |-> 0]]

Answer1 == Row(short, "recommendation", "L1", "success", TRUE, Praise)
Answer2 == Row(short, "recommendation", "L2", "success", TRUE, Blame)
Silence == Row(long, "comparison", "L1", "success", TRUE, Nothing)
NotYet == Row(long, "comparison", "L1", "success", FALSE, Nothing)
Elsewhere == [Row(long, NoType, "L1", "success", TRUE, Blame) EXCEPT
                !.provider = "gemini", !.model_id = plain, !.usage = [input |-> 0, output |-> 0, total |-> 5]]
Late == Row(short, "recommendation", "L1", "timeout", FALSE, Nothing)
Waiting == Row(long, NoType, "L2", "pending", FALSE, Nothing)

SomeReports ==
    BoundedSeq({Answer1, Answer2, Silence, NotYet, Elsewhere, Late, Waiting}, 3)

Brand(id, name, domain) == [id |-> id, name |-> name, domain |-> domain]

Ours == Brand(1, "we", "we.com")
Brands == {Ours, Brand(1, "we", NoDomain), Brand(2, "we", "they.com"), Brand(2, "they", "we.com"),
           Brand(2, "we", NoDomain)}

SomeComparisons ==
    [current : BoundedSeq({Answer1, Answer2, Elsewhere, Late}, 2),
     previous : BoundedSeq({Answer1, Answer2, Elsewhere, NotYet}, 2),
     current_brand : {Ours, Brand(2, "we", NoDomain)},
     previous_brand : Brands]
=============================================================================
