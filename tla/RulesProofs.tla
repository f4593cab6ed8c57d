---------------------------- MODULE RulesProofs -----------------------------
(***************************************************************************)
(* Theorems about Rules, for any model ids, texts, caps and questions that *)
(* satisfy the assumptions of Rules.                                       *)
(***************************************************************************)
EXTENDS Rules, FiniteSums, SequenceTheorems

-----------------------------------------------------------------------------
(* The answer belongs to the question.                                     *)

CallAnswer(call) ==
    LET outcome == Query(call.adapter, call.target, call.env, call.reply)
    IN  [kind |-> "call", model |-> outcome.model, response |-> outcome.response,
         stored |-> Normalized(outcome.response)]

PlanAnswer(payload) ==
    LET estimate == Estimate(payload)
        audit == CreatedAudit(payload)
    IN  IF ~ RequestIsValid(payload) \/ OverCap(estimate)
        THEN [kind |-> "plan", accepted |-> FALSE]
        ELSE [kind |-> "plan", accepted |-> TRUE, estimated |-> estimate.estimated_runs,
              expected |-> ExpectedRunCount(audit), shown |-> ExpectedRunsForProgress(audit),
              keys |-> ScheduledJobs(audit, {}),
              again |-> ScheduledJobs(audit, ScheduledJobs(audit, {}))]

TriggerAnswer(trigger) ==
    [kind |-> "trigger", triggered |-> MayTrigger(trigger.audit, trigger.config),
     adapters |-> {BuildProviderAdapter(target.provider, trigger.config,
                                        {trigger.config.provider_mode}) :
                      target \in SchedulingTargets(trigger.audit)}]

WatchAnswer(watch) ==
    [kind |-> "watch", status |-> Status(watch.audit, watch.jobs),
     progress |-> Progress(watch.audit, watch.jobs)]

DraftAnswer(draft) == [kind |-> "draft", result |-> Suggestions(draft)]

ReportAnswer(rows) ==
    [kind |-> "report", summary |-> AuditSummary(rows), coverage |-> QueryTypeCoverage(rows),
     tone |-> ToneCounts(rows), diagnosed |-> Diagnosed(rows), usage |-> UsageByTarget(rows)]

ComparisonAnswer(pair) ==
    [kind |-> "comparison",
     offered |-> IsComparisonCandidate(pair.current_brand, pair.previous_brand),
     comparison |-> Comparison(Snapshot(pair.current), Snapshot(pair.previous),
                               pair.current_brand, pair.previous_brand)]

QuestionIsKnown ==
    /\ question.kind = "call" => question.of \in Calls
    /\ question.kind = "plan" => question.of \in Plans
    /\ question.kind = "trigger" => question.of \in Triggers
    /\ question.kind = "watch" => question.of \in Watches
    /\ question.kind = "draft" => question.of \in Drafts
    /\ question.kind = "report" => question.of \in Reports
    /\ question.kind = "comparison" => question.of \in Comparisons

AnswerFitsQuestion ==
    /\ answer.kind = "call" => question.kind = "call" /\ answer = CallAnswer(question.of)
    /\ answer.kind = "plan" => question.kind = "plan" /\ answer = PlanAnswer(question.of)
    /\ answer.kind = "trigger" => question.kind = "trigger" /\ answer = TriggerAnswer(question.of)
    /\ answer.kind = "watch" => question.kind = "watch" /\ answer = WatchAnswer(question.of)
    /\ answer.kind = "draft" => question.kind = "draft" /\ answer = DraftAnswer(question.of)
    /\ answer.kind = "report" => question.kind = "report" /\ answer = ReportAnswer(question.of)
    /\ answer.kind = "comparison" =>
          question.kind = "comparison" /\ answer = ComparisonAnswer(question.of)

IInv == QuestionIsKnown /\ AnswerFitsQuestion

LEMMA RulesInvariant == Spec => []IInv
<1>1. Init => IInv
  BY DEF Init, IInv, QuestionIsKnown, AnswerFitsQuestion, Unanswered
<1>2. IInv /\ [Next]_vars => IInv'
  <2> SUFFICES ASSUME IInv, [Next]_vars PROVE IInv'
    OBVIOUS
  <2> USE DEF IInv
  <2>1. QuestionIsKnown'
    BY DEF QuestionIsKnown, Next, CallProvider, PlanAudit, TriggerAudit, WatchAudit,
           SuggestQueries, ReportAudit, CompareAudits, Asks, vars
  <2>2. AnswerFitsQuestion'
    <3>1. CASE CallProvider
      <4>1. question' = question /\ question.kind = "call" /\ answer' = CallAnswer(question.of)
        BY <3>1 DEF CallProvider, Asks, CallAnswer
      <4>2. answer'.kind = "call"
        BY <4>1 DEF CallAnswer
      <4> QED
        BY <4>1, <4>2 DEF AnswerFitsQuestion
    <3>2. CASE PlanAudit
      <4>1. question' = question /\ question.kind = "plan" /\ answer' = PlanAnswer(question.of)
        BY <3>2 DEF PlanAudit, Asks, PlanAnswer
      <4>2. answer'.kind = "plan"
        BY <4>1 DEF PlanAnswer
      <4> QED
        BY <4>1, <4>2 DEF AnswerFitsQuestion
    <3>3. CASE TriggerAudit
      <4>1. question' = question /\ question.kind = "trigger" /\ answer' = TriggerAnswer(question.of)
        BY <3>3 DEF TriggerAudit, Asks, TriggerAnswer
      <4>2. answer'.kind = "trigger"
        BY <4>1 DEF TriggerAnswer
      <4> QED
        BY <4>1, <4>2 DEF AnswerFitsQuestion
    <3>4. CASE WatchAudit
      <4>1. question' = question /\ question.kind = "watch" /\ answer' = WatchAnswer(question.of)
        BY <3>4 DEF WatchAudit, Asks, WatchAnswer
      <4>2. answer'.kind = "watch"
        BY <4>1 DEF WatchAnswer
      <4> QED
        BY <4>1, <4>2 DEF AnswerFitsQuestion
    <3>5. CASE SuggestQueries
      <4>1. question' = question /\ question.kind = "draft" /\ answer' = DraftAnswer(question.of)
        BY <3>5 DEF SuggestQueries, Asks, DraftAnswer
      <4>2. answer'.kind = "draft"
        BY <4>1 DEF DraftAnswer
      <4> QED
        BY <4>1, <4>2 DEF AnswerFitsQuestion
    <3>6. CASE ReportAudit
      <4>1. question' = question /\ question.kind = "report" /\ answer' = ReportAnswer(question.of)
        BY <3>6 DEF ReportAudit, Asks, ReportAnswer
      <4>2. answer'.kind = "report"
        BY <4>1 DEF ReportAnswer
      <4> QED
        BY <4>1, <4>2 DEF AnswerFitsQuestion
    <3>7. CASE CompareAudits
      <4>1. question' = question /\ question.kind = "comparison" /\ answer' = ComparisonAnswer(question.of)
        BY <3>7 DEF CompareAudits, Asks, ComparisonAnswer
      <4>2. answer'.kind = "comparison"
        BY <4>1 DEF ComparisonAnswer
      <4> QED
        BY <4>1, <4>2 DEF AnswerFitsQuestion
    <3>8. CASE UNCHANGED vars
      BY <3>8 DEF vars, AnswerFitsQuestion
    <3> QED
      BY <3>1, <3>2, <3>3, <3>4, <3>5, <3>6, <3>7, <3>8 DEF Next
  <2> QED
    BY <2>1, <2>2
<1> QED
  BY <1>1, <1>2, PTL DEF Spec

-----------------------------------------------------------------------------
(* Calls to providers.                                                     *)

\* Every path through an adapter ends in a success with text or in an error whose
\* code the contract knows and whose status fits the code.
GoodResponse(response) ==
    \/ \E cited \in BOOLEAN : response = Success(cited)
    \/ \E code \in ProviderErrorCode : response = WithError(StatusOfCode(code), code)

LEMMA AnsweredIsGood ==
  ASSUME NEW code \in ProviderErrorCode \cup {NoError}, NEW cited \in BOOLEAN
  PROVE  GoodResponse(Answered(code, cited))
BY DEF Answered, GoodResponse

LEMMA NotCalledIsGood ==
  ASSUME NEW code \in {"NO_API_KEY", "CONFIGURATION_ERROR", "INVALID_MODEL", "UNSUPPORTED_L2"}
  PROVE  GoodResponse(NotCalled(code).response) /\ NotCalled(code).model = NoModel
<1>1. code \in ProviderErrorCode /\ StatusOfCode(code) = "error"
  BY DEF ProviderErrorCode, StatusOfCode, NoError
<1> QED
  BY <1>1 DEF NotCalled, GoodResponse

LEMMA ErrorsOfReplies ==
  ASSUME NEW reply \in Reply
  PROVE  /\ OpenAIError[reply] \in ProviderErrorCode \cup {NoError}
         /\ OpenRouterError[reply] \in ProviderErrorCode \cup {NoError}
         /\ AnthropicError[reply] \in ProviderErrorCode \cup {NoError}
         /\ reply # "text" =>
              /\ OpenAIError[reply] # NoError
              /\ OpenRouterError[reply] # NoError
              /\ AnthropicError[reply] # NoError
         /\ reply \in {"timeout", "status_429", "status_500"} =>
              /\ IsRetryable(OpenAIError[reply])
              /\ IsRetryable(OpenRouterError[reply])
              /\ IsRetryable(AnthropicError[reply])
<1>1. /\ OpenAIError["text"] = NoError
      /\ OpenAIError["blank"] = "EMPTY_RESPONSE"
      /\ OpenAIError["no_text"] = "INVALID_RESPONSE"
      /\ OpenAIError["nothing"] = "INVALID_RESPONSE"
      /\ OpenAIError["timeout"] = "TIMEOUT"
      /\ OpenAIError["status_429"] = "RATE_LIMIT"
      /\ OpenAIError["status_401"] = "PROVIDER_REQUEST_FAILED"
      /\ OpenAIError["status_400"] = "PROVIDER_REQUEST_FAILED"
      /\ OpenAIError["status_500"] = "PROVIDER_REQUEST_FAILED"
      /\ OpenAIError["disconnected"] = "PROVIDER_REQUEST_FAILED"
      /\ OpenAIError["garbage"] = "UNKNOWN_PROVIDER_ERROR"
  BY DEF OpenAIError
<1>2. DOMAIN OpenAIError = Reply
  BY DEF OpenAIError, Reply
<1>3. /\ OpenRouterError["no_text"] = "EMPTY_RESPONSE"
      /\ OpenRouterError["status_401"] = "INVALID_API_KEY"
      /\ OpenRouterError["status_400"] = "INVALID_MODEL"
      /\ reply \notin {"no_text", "status_401", "status_400"} =>
            OpenRouterError[reply] = OpenAIError[reply]
  BY <1>2 DEF OpenRouterError, Reply
<1>4. /\ AnthropicError["status_401"] = "INVALID_API_KEY"
      /\ AnthropicError["status_400"] = "INVALID_MODEL"
      /\ AnthropicError["disconnected"] = "UNKNOWN_PROVIDER_ERROR"
      /\ reply \notin {"status_401", "status_400", "disconnected"} =>
            AnthropicError[reply] = OpenAIError[reply]
  BY <1>2 DEF AnthropicError, Reply
<1>5. \/ reply \in {"text", "blank", "no_text", "nothing", "timeout", "status_429"}
      \/ reply \in {"status_401", "status_400", "status_500", "disconnected", "garbage"}
  BY DEF Reply
<1>6. /\ OpenAIError[reply] \in ProviderErrorCode \cup {NoError}
      /\ reply # "text" => OpenAIError[reply] # NoError
      /\ reply \in {"timeout", "status_429", "status_500"} => IsRetryable(OpenAIError[reply])
  BY <1>1, <1>5 DEF ProviderErrorCode, NoError, IsRetryable
<1>7. /\ OpenRouterError[reply] \in ProviderErrorCode \cup {NoError}
      /\ reply # "text" => OpenRouterError[reply] # NoError
      /\ reply \in {"timeout", "status_429", "status_500"} => IsRetryable(OpenRouterError[reply])
  BY <1>1, <1>3, <1>5 DEF ProviderErrorCode, NoError, IsRetryable
<1>8. /\ AnthropicError[reply] \in ProviderErrorCode \cup {NoError}
      /\ reply # "text" => AnthropicError[reply] # NoError
      /\ reply \in {"timeout", "status_429", "status_500"} => IsRetryable(AnthropicError[reply])
  BY <1>1, <1>4, <1>5 DEF ProviderErrorCode, NoError, IsRetryable
<1> QED
  BY <1>6, <1>7, <1>8

\* the code of the reply, for the adapters that call a server
ErrorOfReply(adapter, reply) ==
    CASE adapter = "openai"     -> OpenAIError[reply]
      [] adapter = "anthropic"  -> AnthropicError[reply]
      [] adapter = "openrouter" -> OpenRouterError[reply]

Call ==
    [adapter : Adapter, target : [level : Level, model_id : ModelId \cup {NoModel}],
     env : [api_key : BOOLEAN, sdk : BOOLEAN, web_search : BOOLEAN, allowed : SUBSET ModelId,
            configured : ModelId \cup {NoModel}, mock_mode : DOMAIN MockError],
     reply : Reply]

\* A refusal, the mock, or the error of the server's reply.
LEMMA QueryOutcome ==
  ASSUME NEW call \in Call, NEW outcome,
         outcome = Query(call.adapter, call.target, call.env, call.reply)
  PROVE  \/ \E code \in {"NO_API_KEY", "CONFIGURATION_ERROR", "INVALID_MODEL", "UNSUPPORTED_L2"} :
               outcome = NotCalled(code)
         \/ call.adapter = "mock" /\ outcome = MockQuery(call.env.mock_mode)
         \/ /\ call.adapter # "mock"
            /\ \E cited \in BOOLEAN :
                 outcome.response = Answered(ErrorOfReply(call.adapter, call.reply), cited)
<1> DEFINE target == call.target
           env == call.env
           reply == call.reply
<1>0. /\ call.adapter \in Adapter
      /\ target.level \in Level /\ target.model_id \in ModelId \cup {NoModel}
      /\ env.api_key \in BOOLEAN /\ env.sdk \in BOOLEAN /\ env.web_search \in BOOLEAN
  BY DEF Call
<1> HIDE DEF target, env, reply
<1>1. CASE call.adapter = "mock"
  BY <1>1 DEF Query, env
<1>2. CASE call.adapter = "openai"
  <2>1. outcome = OpenAIQuery(target, env, reply)
    BY <1>2 DEF Query, target, env, reply
  <2>2. \/ outcome \in {NotCalled("NO_API_KEY"), NotCalled("CONFIGURATION_ERROR")}
        \/ outcome = Called(OpenAIError[reply], TRUE, env.configured)
    BY <2>1 DEF OpenAIQuery
  <2>3. ErrorOfReply(call.adapter, call.reply) = OpenAIError[reply]
    BY <1>2 DEF ErrorOfReply, reply
  <2>4. Called(OpenAIError[reply], TRUE, env.configured).response = Answered(OpenAIError[reply], TRUE)
    BY DEF Called
  <2> QED
    BY <1>2, <2>2, <2>3, <2>4
<1>3. CASE call.adapter = "anthropic"
  <2>1. outcome = AnthropicQuery(target, env, reply)
    BY <1>3 DEF Query, target, env, reply
  <2>2. \/ outcome \in {NotCalled("UNSUPPORTED_L2"), NotCalled("NO_API_KEY"),
                        NotCalled("CONFIGURATION_ERROR")}
        \/ outcome = Called(AnthropicError[reply], FALSE, env.configured)
    BY <2>1 DEF AnthropicQuery
  <2>3. ErrorOfReply(call.adapter, call.reply) = AnthropicError[reply]
    BY <1>3 DEF ErrorOfReply, reply
  <2>4. Called(AnthropicError[reply], FALSE, env.configured).response
          = Answered(AnthropicError[reply], FALSE)
    BY DEF Called
  <2> QED
    BY <1>3, <2>2, <2>3, <2>4
<1>4. CASE call.adapter = "openrouter"
  <2> DEFINE model == SelectedModel(target, env)
             refusal == ModelPolicyError(model, env)
  <2>1. outcome = OpenRouterQuery(target, env, reply)
    BY <1>4 DEF Query, target, env, reply
  <2>2. PICK cited \in BOOLEAN : cited = (target.level = "L2")
    OBVIOUS
  <2>3. refusal \in {"CONFIGURATION_ERROR", "INVALID_MODEL", NoError}
    BY DEF ModelPolicyError
  <2>4. \/ outcome \in {NotCalled("CONFIGURATION_ERROR"), NotCalled("NO_API_KEY")}
        \/ refusal # NoError /\ outcome = NotCalled(refusal)
        \/ outcome = Called(OpenRouterError[reply], target.level = "L2", model)
    <3> HIDE DEF refusal, model
    <3> QED
      BY <1>0, <2>1 DEF OpenRouterQuery, refusal, model, Level
  <2>5. ErrorOfReply(call.adapter, call.reply) = OpenRouterError[reply]
    BY <1>4 DEF ErrorOfReply, reply
  <2>6. Called(OpenRouterError[reply], target.level = "L2", model).response
          = Answered(OpenRouterError[reply], cited)
    BY <2>2 DEF Called
  <2>7. CASE refusal # NoError /\ outcome = NotCalled(refusal)
    BY <2>3, <2>7
  <2>8. CASE outcome \in {NotCalled("CONFIGURATION_ERROR"), NotCalled("NO_API_KEY")}
    BY <2>8
  <2>9. CASE outcome = Called(OpenRouterError[reply], target.level = "L2", model)
    BY <1>4, <2>2, <2>5, <2>6, <2>9
  <2> QED
    BY <2>4, <2>7, <2>8, <2>9
<1> QED
  BY <1>0, <1>1, <1>2, <1>3, <1>4 DEF Adapter

LEMMA ErrorOfReplyType ==
  ASSUME NEW adapter \in Adapter \ {"mock"}, NEW reply \in Reply
  PROVE  /\ ErrorOfReply(adapter, reply) \in ProviderErrorCode \cup {NoError}
         /\ reply # "text" => ErrorOfReply(adapter, reply) # NoError
         /\ reply \in {"timeout", "status_429", "status_500"} =>
              IsRetryable(ErrorOfReply(adapter, reply))
BY ErrorsOfReplies DEF ErrorOfReply, Adapter

LEMMA MockIsGood ==
  ASSUME NEW mode \in DOMAIN MockError
  PROVE  GoodResponse(MockQuery(mode).response)
<1>1. /\ DOMAIN MockError = {"success", "empty", "error", "invalid_response", "timeout",
                            "rate_limited", "unsupported_l2"}
      /\ MockError["success"] = NoError
      /\ MockError["empty"] = "EMPTY_RESPONSE"
      /\ MockError["error"] = "PROVIDER_REQUEST_FAILED"
      /\ MockError["invalid_response"] = "INVALID_RESPONSE"
      /\ MockError["timeout"] = "TIMEOUT"
      /\ MockError["rate_limited"] = "RATE_LIMIT"
      /\ MockError["unsupported_l2"] = "UNSUPPORTED_L2"
  BY DEF MockError
<1>2. MockError[mode] \in ProviderErrorCode \cup {NoError}
  BY <1>1 DEF ProviderErrorCode
<1>3. MockQuery(mode).response = Answered(MockError[mode], TRUE)
  BY DEF MockQuery
<1> QED
  BY <1>2, <1>3, AnsweredIsGood

LEMMA GoodResponseIsKept ==
  ASSUME NEW response, GoodResponse(response)
  PROVE  /\ IsLegalResponse(response)
         /\ Normalized(response) = response
         /\ (response.status = "timeout") = (response.error = "TIMEOUT")
         /\ (response.status = "rate_limited") = (response.error = "RATE_LIMIT")
         /\ response.status = "success" => response.answer = "text"
<1>0. /\ response.status = "success" /\ response.answer = "text" => Normalized(response) = response
      /\ response.status = "timeout" => Normalized(response) = WithError("timeout", "TIMEOUT")
      /\ response.status = "rate_limited" => Normalized(response) = WithError("rate_limited", "RATE_LIMIT")
      /\ response.status = "error" => Normalized(response) = WithError("error", NormalizedCode(response.error))
  BY DEF Normalized
<1>1. CASE \E cited \in BOOLEAN : response = Success(cited)
  <2>1. PICK cited \in BOOLEAN : response = Success(cited)
    BY <1>1
  <2>2. /\ response.status = "success" /\ response.answer = "text" /\ response.error = NoError
        /\ response \in Response
    BY <2>1 DEF Success, Response, ProviderStatus
  <2>3. IsLegalResponse(response)
    BY <2>2 DEF IsLegalResponse
  <2>4. NoError \notin {"TIMEOUT", "RATE_LIMIT"}
    BY DEF NoError
  <2> QED
    BY <1>0, <2>2, <2>3, <2>4
<1>2. CASE \E code \in ProviderErrorCode : response = WithError(StatusOfCode(code), code)
  <2>1. PICK code \in ProviderErrorCode : response = WithError(StatusOfCode(code), code)
    BY <1>2
  <2>2. NoError \notin ProviderErrorCode
    BY DEF ProviderErrorCode, NoError
  <2>3. /\ response.status = StatusOfCode(code) /\ response.answer = "none"
        /\ response.cited = FALSE /\ response.error = code
    BY <2>1 DEF WithError
  <2>4. /\ StatusOfCode(code) \in {"error", "timeout", "rate_limited"}
        /\ (StatusOfCode(code) = "timeout") <=> (code = "TIMEOUT")
        /\ (StatusOfCode(code) = "rate_limited") <=> (code = "RATE_LIMIT")
    BY <2>2 DEF StatusOfCode
  <2>5. IsLegalResponse(response)
    BY <2>1, <2>2, <2>4 DEF IsLegalResponse, Response, WithError, ProviderStatus
  <2>6. NormalizedCode(code) = code
    <3>1. code \notin DOMAIN LegacyCode
      BY DEF LegacyCode, ProviderErrorCode
    <3> QED
      BY <3>1 DEF NormalizedCode
  <2>7. ASSUME code = "TIMEOUT" PROVE Normalized(response) = response
    <3>1. StatusOfCode(code) = "timeout"
      BY <2>2, <2>7 DEF StatusOfCode
    <3> QED
      BY <1>0, <2>1, <2>3, <2>7, <3>1
  <2>8. ASSUME code = "RATE_LIMIT" PROVE Normalized(response) = response
    <3>1. StatusOfCode(code) = "rate_limited"
      BY <2>2, <2>8 DEF StatusOfCode
    <3> QED
      BY <1>0, <2>1, <2>3, <2>8, <3>1
  <2>9. ASSUME code \notin {"TIMEOUT", "RATE_LIMIT"} PROVE Normalized(response) = response
    <3>1. response = WithError("error", code) /\ response.status = "error"
      BY <2>1, <2>2, <2>3, <2>9 DEF StatusOfCode
    <3> QED
      BY <1>0, <2>3, <2>6, <3>1
  <2>10. Normalized(response) = response
    BY <2>7, <2>8, <2>9
  <2> QED
    BY <2>3, <2>4, <2>5, <2>10
<1> QED
  BY <1>1, <1>2 DEF GoodResponse

\* Whatever servers and environment do, the worker stores a legal response whose
\* status and code agree, unchanged by normalisation, and a success has a text.
THEOREM AnswersAreLegal == Spec => []AnswersKeepTheContract
<1>1. IInv => AnswersKeepTheContract
  <2> SUFFICES ASSUME IInv, answer.kind = "call"
               PROVE  /\ IsLegalResponse(answer.response)
                      /\ answer.stored = answer.response
                      /\ (answer.stored.status = "timeout") = (answer.stored.error = "TIMEOUT")
                      /\ (answer.stored.status = "rate_limited") = (answer.stored.error = "RATE_LIMIT")
                      /\ answer.stored.status = "success" =>
                            /\ answer.stored.answer = "text"
                            /\ question.of.adapter = "mock" \/ question.of.reply = "text"
    BY DEF AnswersKeepTheContract
  <2> DEFINE call == question.of
             outcome == Query(call.adapter, call.target, call.env, call.reply)
  <2>1. call \in Call
    BY CallsAssumption DEF IInv, QuestionIsKnown, AnswerFitsQuestion, CallsAssumption, Call
  <2>2. answer.response = outcome.response /\ answer.stored = Normalized(outcome.response)
    BY DEF IInv, AnswerFitsQuestion, CallAnswer
  <2> HIDE DEF call, outcome
  <2>3. GoodResponse(outcome.response)
        /\ (outcome.response.status = "success" => call.adapter = "mock" \/ call.reply = "text")
    <3>1. CASE \E code \in {"NO_API_KEY", "CONFIGURATION_ERROR", "INVALID_MODEL", "UNSUPPORTED_L2"} :
                 outcome = NotCalled(code)
      <4>1. outcome.response.status = "error"
        BY <3>1 DEF NotCalled, WithError
      <4> QED
        BY <3>1, <4>1, NotCalledIsGood
    <3>2. CASE call.adapter = "mock" /\ outcome = MockQuery(call.env.mock_mode)
      <4>1. call.env.mock_mode \in DOMAIN MockError
        BY <2>1 DEF Call
      <4> QED
        BY <3>2, <4>1, MockIsGood
    <3>3. CASE /\ call.adapter # "mock"
               /\ \E cited \in BOOLEAN :
                    outcome.response = Answered(ErrorOfReply(call.adapter, call.reply), cited)
      <4> DEFINE code == ErrorOfReply(call.adapter, call.reply)
      <4>1. PICK cited \in BOOLEAN : outcome.response = Answered(code, cited)
        BY <3>3
      <4>2. code \in ProviderErrorCode \cup {NoError} /\ (call.reply # "text" => code # NoError)
        BY <2>1, <3>3, ErrorOfReplyType DEF Call
      <4>3. code # NoError => outcome.response.status # "success"
        <5> HIDE DEF code
        <5> QED
          BY <4>1 DEF Answered, WithError, StatusOfCode
      <4> QED
        BY <4>1, <4>2, <4>3, AnsweredIsGood
    <3> QED
      BY <2>1, <3>1, <3>2, <3>3, QueryOutcome DEF outcome
  <2> QED
    BY <2>2, <2>3, GoodResponseIsKept DEF call
<1> QED
  BY <1>1, RulesInvariant, PTL

\* Behind every adapter a server that was too slow, too busy or broken leaves an
\* error that the diagnostics call retryable.
THEOREM TransientFailuresAreAlwaysRetryable == Spec => []TransientFailuresAreRetryable
<1>1. IInv => TransientFailuresAreRetryable
  <2> DEFINE call == question.of
             outcome == Query(call.adapter, call.target, call.env, call.reply)
  <2> SUFFICES ASSUME IInv, answer.kind = "call", call.adapter # "mock", answer.model # NoModel,
                      call.reply \in {"timeout", "status_429", "status_500"}
               PROVE  IsRetryable(answer.stored.error)
    BY DEF TransientFailuresAreRetryable
  <2>1. call \in Call
    BY CallsAssumption DEF IInv, QuestionIsKnown, AnswerFitsQuestion, CallsAssumption, Call
  <2>2. answer.model = outcome.model /\ answer.stored = Normalized(outcome.response)
    BY DEF IInv, AnswerFitsQuestion, CallAnswer
  <2> HIDE DEF call, outcome
  <2> DEFINE code == ErrorOfReply(call.adapter, call.reply)
  <2>3. PICK cited \in BOOLEAN : outcome.response = Answered(code, cited)
    <3>1. ~ \E c \in {"NO_API_KEY", "CONFIGURATION_ERROR", "INVALID_MODEL", "UNSUPPORTED_L2"} :
               outcome = NotCalled(c)
      BY <2>2, NotCalledIsGood
    <3> QED
      BY <2>1, <3>1, QueryOutcome DEF outcome
  <2>4. /\ code \in ProviderErrorCode \cup {NoError} /\ code # NoError /\ IsRetryable(code)
    <3>1. call.adapter \in Adapter \ {"mock"} /\ call.reply \in Reply
      BY <2>1 DEF Call
    <3> QED
      BY <3>1, ErrorOfReplyType
  <2> HIDE DEF code
  <2>5. outcome.response.error = code
    BY <2>3, <2>4 DEF Answered, WithError
  <2>6. Normalized(outcome.response) = outcome.response
    BY <2>3, <2>4, AnsweredIsGood, GoodResponseIsKept
  <2> QED
    BY <2>2, <2>4, <2>5, <2>6
<1> QED
  BY <1>1, RulesInvariant, PTL

-----------------------------------------------------------------------------
(* Policy and factory.                                                     *)

\* What the policy lets a provider mode execute, the factory builds.
LEMMA FactoryFollowsPolicy ==
  ASSUME NEW config, config.provider_mode \in ProviderMode,
         NEW providers, NEW provider \in providers,
         \/ providers = {"mock"}
         \/ /\ config.provider_mode # "mock"
            /\ providers \subseteq ProvidersOfMode(config.provider_mode)
            /\ config.real_provider_enabled
  PROVE  BuildProviderAdapter(provider, config, {config.provider_mode}) # "refused"
<1> DEFINE mode == config.provider_mode
<1>1. CASE provider = "mock"
  <2>1. AdapterOf(provider, config) = "mock"
    BY <1>1 DEF AdapterOf, IsRouted, OpenRouterGatewayProviders
  <2> QED
    BY <2>1 DEF BuildProviderAdapter, HasCredentials
<1>2. CASE provider # "mock"
  <2>1. mode \in {"openai", "openrouter", "anthropic"} /\ config.real_provider_enabled
        /\ provider \in ProvidersOfMode(mode)
    BY <1>2 DEF ProviderMode
  <2>2. CASE mode = "openrouter"
    <3>1. AdapterOf(provider, config) = "openrouter"
      BY <1>2, <2>1, <2>2 DEF AdapterOf, IsRouted, ProvidersOfMode
    <3> QED
      BY <2>2, <3>1 DEF BuildProviderAdapter, HasCredentials
  <2>3. CASE mode \in {"openai", "anthropic"}
    <3>1. provider = mode /\ ~ IsRouted(provider, config)
      BY <2>1, <2>3 DEF ProvidersOfMode, IsRouted
    <3>2. AdapterOf(provider, config) = provider
      BY <1>2, <2>1, <2>3, <3>1 DEF AdapterOf
    <3> QED
      BY <2>3, <3>1, <3>2 DEF BuildProviderAdapter, HasCredentials
  <2> QED
    BY <2>1, <2>2, <2>3
<1> QED
  BY <1>1, <1>2

\* An audit that the pilot policy lets start gets an adapter for every job.
THEOREM AcceptedAuditsAlwaysGetAdapters == Spec => []AcceptedAuditsGetAdapters
<1>1. IInv => AcceptedAuditsGetAdapters
  <2> SUFFICES ASSUME IInv, answer.kind = "trigger", answer.triggered
               PROVE  "refused" \notin answer.adapters
    BY DEF AcceptedAuditsGetAdapters
  <2> DEFINE audit == question.of.audit
             config == question.of.config
             providers == Range(audit.providers)
  <2>1. question.of \in Triggers /\ answer = TriggerAnswer(question.of)
    BY DEF IInv, QuestionIsKnown, AnswerFitsQuestion
  <2>2. config.provider_mode \in ProviderMode
    BY <2>1, TriggersAssumption DEF TriggersAssumption
  <2>3. \/ providers = {"mock"}
        \/ /\ config.provider_mode # "mock"
           /\ providers \subseteq ProvidersOfMode(config.provider_mode)
           /\ config.real_provider_enabled
    <3>1. MayTrigger(audit, config)
      BY <2>1 DEF TriggerAnswer
    <3> QED
      BY <3>1 DEF MayTrigger, PolicyAccepts
  <2>4. ASSUME NEW target \in SchedulingTargets(audit) PROVE target.provider \in providers
    <3>1. CASE audit.targets # <<>>
      <4>1. providers = {audit.targets[i].execution_provider : i \in DOMAIN audit.targets}
        BY <2>1, <3>1, TriggersAssumption DEF TriggersAssumption
      <4> QED
        BY <2>4, <3>1, <4>1 DEF SchedulingTargets
    <3>2. CASE audit.targets = <<>>
      BY <2>4, <3>2 DEF SchedulingTargets, Range
    <3> QED
      BY <3>1, <3>2
  <2>5. answer.adapters = {BuildProviderAdapter(target.provider, config, {config.provider_mode}) :
                             target \in SchedulingTargets(audit)}
    BY <2>1 DEF TriggerAnswer
  <2> HIDE DEF audit, config, providers
  <2>6. \A target \in SchedulingTargets(audit) :
          BuildProviderAdapter(target.provider, config, {config.provider_mode}) # "refused"
    BY <2>2, <2>3, <2>4, FactoryFollowsPolicy
  <2> QED
    BY <2>5, <2>6
<1> QED
  BY <1>1, RulesInvariant, PTL

-----------------------------------------------------------------------------
(* Estimate, progress report and scheduler.                                *)

LEMMA MinOfTwo ==
  ASSUME NEW m \in Nat, NEW n \in Nat
  PROVE  /\ Min({m, n}) = IF m <= n THEN m ELSE n
         /\ Min({n, m}) = Min({m, n})
<1>1. {n, m} = {m, n}
  OBVIOUS
<1>2. CASE m <= n
  <2>1. \A x \in {m, n} : (\A y \in {m, n} : x <= y) => x = m
    BY <1>2
  <2>2. \A y \in {m, n} : m <= y
    BY <1>2
  <2>3. Min({m, n}) = m
    BY <2>1, <2>2 DEF Min
  <2> QED
    BY <1>1, <1>2, <2>3
<1>3. CASE ~ (m <= n)
  <2>1. \A x \in {m, n} : (\A y \in {m, n} : x <= y) => x = n
    BY <1>3
  <2>2. \A y \in {m, n} : n <= y
    BY <1>3
  <2>3. Min({m, n}) = n
    BY <2>1, <2>2 DEF Min
  <2> QED
    BY <1>1, <1>3, <2>3
<1> QED
  BY <1>2, <1>3

LEMMA PrefixOfSeq ==
  ASSUME NEW T, NEW s \in Seq(T), NEW n \in Nat, n <= Len(s)
  PROVE  SubSeq(s, 1, n) \in Seq(T) /\ Len(SubSeq(s, 1, n)) = n
<1>1. \A i \in 1 .. n : s[i] \in T
  BY LenProperties, ElementOfSeq
<1>2. /\ SubSeq(s, 1, n) \in Seq(T)
      /\ Len(SubSeq(s, 1, n)) = IF 1 <= n THEN n - 1 + 1 ELSE 0
  BY <1>1, SubSeqProperties
<1> QED
  BY <1>2

LEMMA SizeOfCube ==
  ASSUME NEW n \in Nat, NEW m \in Nat, NEW k \in Nat
  PROVE  LET cube == ((1 .. n) \X (1 .. m)) \X (1 .. k)
         IN  IsFiniteSet(cube) /\ Cardinality(cube) = n * m * k
<1>1. /\ IsFiniteSet(1 .. n) /\ Cardinality(1 .. n) = n
      /\ IsFiniteSet(1 .. m) /\ Cardinality(1 .. m) = m
      /\ IsFiniteSet(1 .. k) /\ Cardinality(1 .. k) = k
  BY FS_Interval
<1>2. /\ IsFiniteSet((1 .. n) \X (1 .. m))
      /\ Cardinality((1 .. n) \X (1 .. m)) = Cardinality(1 .. n) * Cardinality(1 .. m)
  BY <1>1, FS_Product
<1>3. /\ IsFiniteSet(((1 .. n) \X (1 .. m)) \X (1 .. k))
      /\ Cardinality(((1 .. n) \X (1 .. m)) \X (1 .. k))
           = Cardinality((1 .. n) \X (1 .. m)) * Cardinality(1 .. k)
  BY <1>1, <1>2, FS_Product
<1> QED
  BY <1>1, <1>2, <1>3

\* The queries that count: all, or the first max_queries.
LEMMA EffectiveQueriesLength ==
  ASSUME NEW audit, NEW T, audit.queries \in Seq(T), audit.max_queries \in Nat
  PROVE  /\ EffectiveQueries(audit) \in Seq(T)
         /\ Len(EffectiveQueries(audit)) \in Nat
         /\ Len(EffectiveQueries(audit)) <= Len(audit.queries)
         /\ audit.max_queries = NoMaximum => Len(EffectiveQueries(audit)) = Len(audit.queries)
         /\ audit.max_queries # NoMaximum =>
               Len(EffectiveQueries(audit)) = Min({Len(audit.queries), audit.max_queries})
<1> DEFINE size == Len(audit.queries)
<1>1. size \in Nat
  OBVIOUS
<1>2. CASE audit.max_queries = NoMaximum
  BY <1>1, <1>2 DEF EffectiveQueries
<1>3. CASE audit.max_queries # NoMaximum
  <2> DEFINE n == Min({audit.max_queries, size})
  <2>1. n \in Nat /\ n <= size /\ n = Min({size, audit.max_queries})
    BY <1>1, MinOfTwo
  <2>2. EffectiveQueries(audit) = SubSeq(audit.queries, 1, n)
    BY <1>3 DEF EffectiveQueries
  <2> HIDE DEF n
  <2>3. SubSeq(audit.queries, 1, n) \in Seq(T) /\ Len(SubSeq(audit.queries, 1, n)) = n
    BY <2>1, PrefixOfSeq
  <2> QED
    BY <1>3, <2>1, <2>2, <2>3
<1> QED
  BY <1>2, <1>3

\* Each query, target and number of a run has a key of its own.
LEMMA KeysAreCounted ==
  ASSUME NEW audit, NEW T, EffectiveQueries(audit) \in Seq(T),
         NEW U, audit.targets \in Seq(U), audit.targets # <<>>,
         audit.runs_per_query \in Nat
  PROVE  Cardinality(ScheduledJobs(audit, {})) = ExpectedRunCount(audit)
<1> DEFINE n == Len(EffectiveQueries(audit))
           m == Len(audit.targets)
           k == audit.runs_per_query
           cube == ((1 .. n) \X (1 .. m)) \X (1 .. k)
           target(i) == [id |-> i, provider |-> audit.targets[i].execution_provider]
           KeyOf == [c \in cube |-> JobKey(c[1][1], target(c[1][2]), c[2])]
           keys == ScheduledJobs(audit, {})
<1>1. n \in Nat /\ m \in Nat /\ k \in Nat /\ DOMAIN EffectiveQueries(audit) = 1 .. n
      /\ DOMAIN audit.targets = 1 .. m
  OBVIOUS
<1>2. IsFiniteSet(cube) /\ Cardinality(cube) = n * m * k
  <2> HIDE DEF n, m, k
  <2> QED
    BY <1>1, SizeOfCube
<1>3. \A t : t \in SchedulingTargets(audit) <=> \E i \in 1 .. m : t = target(i)
  <2>1. SchedulingTargets(audit) =
          {[id |-> i, provider |-> audit.targets[i].execution_provider] : i \in DOMAIN audit.targets}
    BY Zenon DEF SchedulingTargets
  <2> QED
    BY <1>1, <2>1, Zenon
<1>4. \A key : key \in keys <=> \E q \in 1 .. n, i \in 1 .. m, r \in 1 .. k :
                                 key = JobKey(q, target(i), r)
  <2> DEFINE positions == DOMAIN EffectiveQueries(audit)
             numbers == 1 .. audit.runs_per_query
  <2>1. keys = {JobKey(q, t, r) : q \in positions, t \in SchedulingTargets(audit), r \in numbers} \ {}
    BY DEF ScheduledJobs
  <2>2. positions = 1 .. n /\ numbers = 1 .. k
    BY <1>1
  <2> HIDE DEF keys, n, m, k, target, positions, numbers
  <2>3. \A key : key \in keys <=> \E q \in positions, t \in SchedulingTargets(audit), r \in numbers :
                                   key = JobKey(q, t, r)
    BY <2>1
  <2>4. \A key : key \in keys <=> \E q \in 1 .. n, t \in SchedulingTargets(audit), r \in 1 .. k :
                                   key = JobKey(q, t, r)
    BY <2>2, <2>3
  <2> SUFFICES ASSUME NEW key
               PROVE  (\E q \in 1 .. n, t \in SchedulingTargets(audit), r \in 1 .. k :
                         key = JobKey(q, t, r))
                      <=> (\E q \in 1 .. n, i \in 1 .. m, r \in 1 .. k : key = JobKey(q, target(i), r))
    BY <2>4
  <2>5. ASSUME NEW q \in 1 .. n, NEW t \in SchedulingTargets(audit), NEW r \in 1 .. k,
               key = JobKey(q, t, r)
        PROVE  \E i \in 1 .. m : key = JobKey(q, target(i), r)
    BY <1>3, <2>5, Zenon
  <2>6. ASSUME NEW q \in 1 .. n, NEW i \in 1 .. m, NEW r \in 1 .. k, key = JobKey(q, target(i), r)
        PROVE  \E t \in SchedulingTargets(audit) : key = JobKey(q, t, r)
    BY <1>3, <2>6, Zenon
  <2> QED
    BY <2>5, <2>6, Zenon
<1>5. \A c \in cube : KeyOf[c] \in keys
  <2> TAKE c \in cube
  <2>1. c[1][1] \in 1 .. n /\ c[1][2] \in 1 .. m /\ c[2] \in 1 .. k
    OBVIOUS
  <2> HIDE DEF keys, n, m, k
  <2> QED
    BY <1>4, <2>1
<1>6. \A c, d \in cube : KeyOf[c] = KeyOf[d] => c = d
  <2> TAKE c, d \in cube
  <2> HAVE KeyOf[c] = KeyOf[d]
  <2>1. c[1][1] = d[1][1] /\ c[1][2] = d[1][2] /\ c[2] = d[2]
    BY DEF JobKey
  <2>2. PICK q \in 1 .. n, i \in 1 .. m, r \in 1 .. k : c = <<<<q, i>>, r>>
    OBVIOUS
  <2>3. PICK q2 \in 1 .. n, i2 \in 1 .. m, r2 \in 1 .. k : d = <<<<q2, i2>>, r2>>
    OBVIOUS
  <2> QED
    BY <2>1, <2>2, <2>3
<1>7. \A key \in keys : \E c \in cube : KeyOf[c] = key
  <2> TAKE key \in keys
  <2>1. PICK q \in 1 .. n, i \in 1 .. m, r \in 1 .. k : key = JobKey(q, target(i), r)
    BY <1>4
  <2>2. <<<<q, i>>, r>> \in cube /\ KeyOf[<<<<q, i>>, r>>] = key
    BY <2>1
  <2> QED
    BY <2>2
<1>8. KeyOf \in Bijection(cube, keys)
  <2>1. KeyOf = [c \in cube |-> KeyOf[c]]
    OBVIOUS
  <2> HIDE DEF cube, keys, KeyOf
  <2>2. KeyOf \in [cube -> keys]
    BY <1>5, <2>1
  <2> QED
    BY <1>6, <1>7, <2>2 DEF Bijection, Injection, IsInjective, Surjection
<1>9. Cardinality(keys) = n * m * k
  <2> HIDE DEF cube, keys, KeyOf
  <2> QED
    BY <1>2, <1>8, FS_Bijection DEF ExistsBijection
<1> QED
  BY <1>9 DEF ExpectedRunCount, TargetCount

LEMMA ProductsGrow ==
  ASSUME NEW a \in Nat, NEW b \in Nat, a <= b, NEW m \in Nat
  PROVE  a * m \in Nat /\ a * m <= b * m
<1>1. PICK c \in Nat : b = a + c
  <2>1. b - a \in Nat /\ b = a + (b - a)
    OBVIOUS
  <2> QED
    BY <2>1
<1>2. b * m = a * m + c * m
  BY <1>1
<1>3. a * m \in Nat /\ c * m \in Nat
  OBVIOUS
<1> QED
  BY <1>2, <1>3

-----------------------------------------------------------------------------
(* deduplicate_queries, and the rows of an accepted request.               *)

\* One turn of the loop of deduplicate_queries.
Keep(kept, item) == IF Contains(kept, item) THEN kept ELSE Append(kept, item)

\* The loop as a recursive function.
KeepUnfolded(g, items) ==
    g = [s \in SUBSET DOMAIN items |->
            IF s = {} THEN <<>> ELSE Keep(g[s \ {Max(s)}], items[Max(s)])]

LEMMA KeepIsTyped ==
  ASSUME NEW B, NEW kept \in Seq(B), NEW item \in B
  PROVE  /\ Keep(kept, item) \in Seq(B)
         /\ Range(Keep(kept, item)) = Range(kept) \cup {item}
         /\ IsInjective(kept) => IsInjective(Keep(kept, item))
<1>1. Contains(kept, item) <=> item \in Range(kept)
  BY LenProperties DEF Contains, Range
<1>2. CASE Contains(kept, item)
  BY <1>1, <1>2 DEF Keep
<1>3. CASE ~ Contains(kept, item)
  <2>1. Keep(kept, item) = Append(kept, item)
    BY <1>3 DEF Keep
  <2> QED
    BY <1>1, <1>3, <2>1, AppendedIsInjective
<1> QED
  BY <1>2, <1>3

\* what deduplicate_queries returns is a list of the same items, each once
LEMMA DeduplicatedIsSameSet ==
  ASSUME NEW B, NEW items \in Seq(B)
  PROVE  /\ Deduplicated(items) \in Seq(B)
         /\ Range(Deduplicated(items)) = Range(items)
         /\ IsInjective(Deduplicated(items))
<1> DEFINE A == Seq(B)
           F == [p \in A \X B |-> Keep(p[1], p[2])]
           S == SUBSET DOMAIN items
           n == Len(items)
<1>1. <<>> \in A
  OBVIOUS
<1>2. \A kept \in A, item \in B : Keep(kept, item) \in A
  BY KeepIsTyped
<1>3. F \in [A \X B -> A]
  <2> SUFFICES ASSUME NEW p \in A \X B PROVE Keep(p[1], p[2]) \in A
    OBVIOUS
  <2>1. p[1] \in A /\ p[2] \in B
    OBVIOUS
  <2> HIDE DEF A
  <2> QED
    BY <1>2, <2>1
<1>4. n \in Nat /\ DOMAIN items = 1 .. n /\ \A i \in DOMAIN items : items[i] \in B
  OBVIOUS
<1>5. ASSUME NEW s \in S, s # {} PROVE Max(s) \in s
  BY <1>4, <1>5, LargestElement
<1>6. \E h : KeepUnfolded(h, items)
  <2> HIDE DEF A, F
  <2>1. PICK g \in [S -> A] : Folding(g, items, <<>>, F)
    BY <1>1, <1>3, FoldingExists
  <2>2. ASSUME NEW s \in S
        PROVE  g[s] = IF s = {} THEN <<>> ELSE Keep(g[s \ {Max(s)}], items[Max(s)])
    <3>1. CASE s = {}
      BY <2>1, <3>1 DEF Folding
    <3>2. CASE s # {}
      <4> DEFINE m == Max(s)
      <4>1. m \in s
        BY <1>5, <3>2
      <4>2. g[s] = F[<<g[s \ {m}], items[m]>>]
        BY <2>1, <3>2 DEF Folding
      <4> HIDE DEF m
      <4>3. g[s \ {m}] \in A /\ items[m] \in B
        BY <1>4, <4>1
      <4>4. F[<<g[s \ {m}], items[m]>>] = Keep(g[s \ {m}], items[m])
        BY <4>3 DEF F
      <4> QED
        BY <3>2, <4>2, <4>4, Zenon DEF m
    <3> QED
      BY <3>1, <3>2
  <2> QED
    BY <2>2 DEF KeepUnfolded
<1>7. Deduplicated(items) = (CHOOSE h : KeepUnfolded(h, items))[DOMAIN items]
  BY Zenon DEF Deduplicated, FoldLeft, MapThenFoldSet, KeepUnfolded, Keep
<1>8. PICK h : KeepUnfolded(h, items) /\ Deduplicated(items) = h[DOMAIN items]
  BY <1>6, <1>7, Zenon
<1>9. \A s \in S : h[s] = IF s = {} THEN <<>> ELSE Keep(h[s \ {Max(s)}], items[Max(s)])
  BY <1>8 DEF KeepUnfolded
<1> DEFINE P == {k \in Nat : k <= n => /\ h[1 .. k] \in A /\ IsInjective(h[1 .. k])
                                       /\ Range(h[1 .. k]) = {items[i] : i \in 1 .. k}}
<1> HIDE DEF A, F
<1>10. 0 \in P
  <2>1. 1 .. 0 = {} /\ {} \in S
    OBVIOUS
  <2>2. h[1 .. 0] = <<>>
    BY <1>9, <2>1
  <2>3. IsInjective(<<>>) /\ Range(<<>>) = {} /\ {items[i] : i \in {}} = {}
    BY DEF IsInjective, Range
  <2> QED
    BY <1>1, <2>1, <2>2, <2>3
<1>11. ASSUME NEW k \in Nat, k \in P PROVE k + 1 \in P
  <2> DEFINE s == 1 .. (k + 1)
  <2> SUFFICES ASSUME k + 1 <= n
               PROVE  /\ h[s] \in A /\ IsInjective(h[s])
                      /\ Range(h[s]) = {items[i] : i \in s}
    OBVIOUS
  <2>1. k + 1 \in 1 .. n /\ k + 1 \in Nat \ {0} /\ (k + 1) - 1 = k /\ s \in S /\ s # {}
    <3> HIDE DEF n
    <3> QED
      BY <1>4
  <2>2. Max(s) = k + 1 /\ s \ {k + 1} = 1 .. k
    BY <2>1, LastOfInterval
  <2>3. /\ h[1 .. k] \in A /\ IsInjective(h[1 .. k])
        /\ Range(h[1 .. k]) = {items[i] : i \in 1 .. k}
    BY <1>4, <1>11
  <2>4. s = (1 .. k) \cup {k + 1}
    OBVIOUS
  <2> HIDE DEF s, P
  <2>5. h[s] = Keep(h[1 .. k], items[k + 1])
    <3>1. h[s] = Keep(h[s \ {Max(s)}], items[Max(s)])
      BY <1>9, <2>1
    <3> QED
      BY <2>2, <3>1, Zenon
  <2>6. items[k + 1] \in B
    BY <1>4, <2>1
  <2> DEFINE kept == h[1 .. k]
  <2>7. /\ Keep(kept, items[k + 1]) \in A /\ IsInjective(Keep(kept, items[k + 1]))
        /\ Range(Keep(kept, items[k + 1])) = Range(kept) \cup {items[k + 1]}
    <3>1. kept \in Seq(B) /\ IsInjective(kept)
      BY <2>3 DEF A
    <3> HIDE DEF kept
    <3> QED
      BY <2>6, <3>1, KeepIsTyped DEF A
  <2>8. {items[i] : i \in s} = {items[i] : i \in 1 .. k} \cup {items[k + 1]}
    BY <2>4
  <2> QED
    BY <2>3, <2>5, <2>7, <2>8
<1>12. \A k \in Nat : k \in P
  <2> HIDE DEF P
  <2> QED
    BY <1>10, <1>11, InductionOnNumbers
<1>13. /\ h[1 .. n] \in A /\ IsInjective(h[1 .. n])
       /\ Range(h[1 .. n]) = {items[i] : i \in 1 .. n}
  <2>1. n \in P /\ n <= n
    <3> HIDE DEF n, P
    <3> QED
      BY <1>4, <1>12
  <2> QED
    BY <2>1
<1> QED
  BY <1>4, <1>8, <1>13 DEF A, Range

\* A request that is accepted has queries of fitting length and at least one target.
LEMMA ValidRequestsHaveTargets ==
  ASSUME NEW payload \in Plans, RequestIsValid(payload)
  PROVE  /\ SeedQueryItems(payload) \in Seq(Texts)
         /\ TargetRequests(payload) # <<>>
         /\ TargetRequests(payload) \in Seq(Range(TargetRequests(payload)))
<1>1. /\ payload.seed_queries.value \in Seq(Range(payload.seed_queries.value))
      /\ payload.seed_query_items.value \in Seq(Range(payload.seed_query_items.value))
      /\ payload.providers.value \in Seq(Range(payload.providers.value))
      /\ payload.model_targets.value \in Seq(Range(payload.model_targets.value))
  BY PlansAssumption DEF PlansAssumption, IsList
<1>2. /\ Range(payload.seed_queries.value) \subseteq Texts
      /\ Range(payload.seed_query_items.value) \subseteq Texts
  BY DEF RequestIsValid, EstimateIsValid, IsSeedList
<1>3. SeedQueryItems(payload) \in Seq(Texts)
  <2>1. CASE payload.seed_query_items.null
    <3> DEFINE items == payload.seed_queries.value
    <3>1. items \in Seq(Texts)
      BY <1>1, <1>2
    <3>2. SeedQueryItems(payload) = Deduplicated(items)
      BY <2>1 DEF SeedQueryItems
    <3> HIDE DEF items
    <3> QED
      BY <3>1, <3>2, DeduplicatedIsSameSet
  <2>2. CASE ~ payload.seed_query_items.null
    BY <1>1, <1>2, <2>2 DEF SeedQueryItems
  <2> QED
    BY <2>1, <2>2
<1>4. CASE payload.model_targets.null
  <2> DEFINE providers == payload.providers.value
             kept == Deduplicated(providers)
             targets == TargetRequests(payload)
             level == LevelOfRequest(payload)
  <2>1. providers \in Seq(Range(providers)) /\ providers # <<>>
    BY <1>1, <1>4 DEF RequestIsValid
  <2>2. targets = [i \in DOMAIN kept |-> TargetOfProvider(kept[i], level)]
    BY <1>4 DEF TargetRequests
  <2>3. kept \in Seq(Range(providers)) /\ Range(kept) = Range(providers)
    <3> HIDE DEF kept, providers
    <3>1. \A B : providers \in Seq(B) => kept \in Seq(B) /\ Range(kept) = Range(providers)
      BY DeduplicatedIsSameSet DEF kept
    <3> QED
      BY <2>1, <3>1
  <2> HIDE DEF kept, targets, providers, level
  <2>4. 1 \in DOMAIN providers
    BY <2>1
  <2>5. DOMAIN kept = 1 .. Len(kept) /\ Len(kept) \in Nat
    BY <2>3
  <2>6. DOMAIN kept # {}
    BY <2>3, <2>4 DEF Range
  <2>7. DOMAIN targets = 1 .. Len(kept) /\ DOMAIN targets # {}
    BY <2>2, <2>5, <2>6
  <2>8. targets # <<>>
    BY <2>7
  <2>9. targets \in Seq(Range(targets))
    <3> DEFINE n == Len(kept)
    <3>1. targets = [i \in 1 .. n |-> targets[i]] /\ \A i \in 1 .. n : targets[i] \in Range(targets)
      BY <2>2, <2>5, <2>7 DEF Range
    <3> HIDE DEF n
    <3>2. targets \in [1 .. n -> Range(targets)]
      BY <3>1
    <3> QED
      BY <2>5, <3>2, SeqDef DEF n
  <2> QED
    BY <1>3, <2>8, <2>9 DEF targets
<1>5. CASE ~ payload.model_targets.null
  <2>1. TargetRequests(payload) = payload.model_targets.value
    BY <1>5 DEF TargetRequests
  <2>2. payload.model_targets.value # <<>>
    BY <1>5 DEF RequestIsValid, EstimateIsValid, IsTargetList
  <2> QED
    BY <1>1, <1>3, <2>1, <2>2
<1> QED
  BY <1>4, <1>5

\* The providers stored with an audit are those of its targets: what the pilot
\* policy is asked about is what the scheduler makes jobs for.
LEMMA CreatedAuditsNameTheirProviders ==
  ASSUME NEW payload \in Plans, RequestIsValid(payload)
  PROVE  LET audit == CreatedAudit(payload)
         IN  Range(audit.providers)
               = {audit.targets[i].execution_provider : i \in DOMAIN audit.targets}
<1> DEFINE targets == TargetRequests(payload)
           providers == [i \in DOMAIN targets |-> targets[i].execution_provider]
<1>1. CreatedAudit(payload).targets = targets
      /\ CreatedAudit(payload).providers = Deduplicated(providers)
  BY DEF CreatedAudit, ProvidersOfTargets
<1>2. DOMAIN targets = 1 .. Len(targets) /\ Len(targets) \in Nat
  BY ValidRequestsHaveTargets
<1>3. Range(providers) = {targets[i].execution_provider : i \in DOMAIN targets}
  BY DEF Range
<1> HIDE DEF targets
<1>4. providers \in Seq(Range(providers))
  <2> DEFINE n == Len(targets)
  <2>1. \A i \in 1 .. n : providers[i] \in Range(providers)
    BY <1>2 DEF Range
  <2>2. providers = [i \in 1 .. n |-> providers[i]]
    BY <1>2
  <2> HIDE DEF n, providers
  <2>3. providers \in [1 .. n -> Range(providers)]
    BY <2>1, <2>2
  <2> QED
    BY <1>2, <2>3, SeqDef DEF n
<1>5. Range(Deduplicated(providers)) = Range(providers)
  <2> HIDE DEF providers
  <2>1. \A B : providers \in Seq(B) => Range(Deduplicated(providers)) = Range(providers)
    BY DeduplicatedIsSameSet
  <2> QED
    BY <1>4, <2>1
<1> QED
  BY <1>1, <1>3, <1>5

\* The number of runs told before creation bounds what the trigger, the progress
\* report and the scheduler each compute, which is one number; it is exact without
\* max_queries and within the cap; scheduling twice adds nothing.
THEOREM SchedulesFollowTheEstimate == Spec => []ScheduledRunsAreEstimated
<1>1. IInv => ScheduledRunsAreEstimated
  <2> DEFINE payload == question.of
             audit == CreatedAudit(payload)
             estimate == Estimate(payload)
             n == Len(EffectiveQueries(audit))
             all == Len(audit.queries)
             m == Len(audit.targets)
             k == audit.runs_per_query
  <2> SUFFICES ASSUME IInv, answer.kind = "plan", answer.accepted
               PROVE  /\ Cardinality(answer.keys) = answer.expected
                      /\ answer.shown = answer.expected
                      /\ answer.expected <= answer.estimated
                      /\ payload.max_queries = NoMaximum => answer.expected = answer.estimated
                      /\ answer.expected <= Caps.runs
                      /\ answer.again = {}
    BY DEF ScheduledRunsAreEstimated
  <2>1. payload \in Plans /\ answer = PlanAnswer(payload)
    BY DEF IInv, QuestionIsKnown, AnswerFitsQuestion
  <2>2. RequestIsValid(payload) /\ ~ OverCap(estimate)
    BY <2>1 DEF PlanAnswer
  <2>3. /\ answer.estimated = estimate.estimated_runs
        /\ answer.expected = ExpectedRunCount(audit)
        /\ answer.shown = ExpectedRunsForProgress(audit)
        /\ answer.keys = ScheduledJobs(audit, {})
        /\ answer.again = ScheduledJobs(audit, ScheduledJobs(audit, {}))
    BY <2>1, <2>2 DEF PlanAnswer
  <2>4. /\ audit.queries = SeedQueryItems(payload)
        /\ audit.targets = TargetRequests(payload)
        /\ audit.runs_per_query = payload.runs_per_query
        /\ audit.max_queries = payload.max_queries
    BY DEF CreatedAudit
  <2>5. /\ audit.queries \in Seq(Texts) /\ audit.targets # <<>>
        /\ audit.targets \in Seq(Range(audit.targets))
        /\ audit.max_queries \in Nat /\ Caps.runs \in Nat
    BY <2>1, <2>2, <2>4, ValidRequestsHaveTargets, PlansAssumption DEF PlansAssumption
  <2>6. audit.runs_per_query \in Nat
    <3>1. payload.runs_per_query \in 1 .. 5
      BY <2>2 DEF RequestIsValid, EstimateIsValid
    <3> QED
      BY <2>4, <3>1
  <2>7. /\ estimate.estimated_runs = all * m * k
        /\ estimate.estimated_runs <= Caps.runs
    <3>1. estimate.estimated_runs = all * m * k
      BY <2>4 DEF Estimate
    <3>2. ~ (estimate.estimated_runs > Caps.runs)
      BY <2>2 DEF OverCap
    <3>3. all \in Nat /\ m \in Nat /\ k \in Nat
      BY <2>5, <2>6, LenProperties
    <3>4. all * m * k \in Nat
      <4> HIDE DEF all, m, k
      <4> QED
        BY <3>3
    <3> HIDE DEF estimate, all, m, k
    <3> QED
      BY <2>5, <3>1, <3>2, <3>4
  <2> HIDE DEF payload, audit, estimate
  <2>8. /\ n \in Nat /\ all \in Nat /\ m \in Nat /\ n <= all
        /\ audit.max_queries = NoMaximum => n = all
        /\ audit.max_queries # NoMaximum => n = Min({all, audit.max_queries})
        /\ EffectiveQueries(audit) \in Seq(Texts)
    BY <2>5, EffectiveQueriesLength, LenProperties
  <2>9. ExpectedRunCount(audit) = n * m * k
    BY <2>5 DEF ExpectedRunCount, TargetCount
  <2>10. ExpectedRunsForProgress(audit) = n * m * k
    BY <2>5, <2>8 DEF ExpectedRunsForProgress, TargetCount
  <2>11. Cardinality(answer.keys) = answer.expected
    BY <2>3, <2>5, <2>6, <2>8, KeysAreCounted
  <2>12. answer.again = {}
    BY <2>3 DEF ScheduledJobs
  <2> HIDE DEF n, all, m, k
  <2>13. n * m * k \in Nat /\ n * m * k <= all * m * k
    <3>1. n * m \in Nat /\ n * m <= all * m /\ all * m \in Nat
      BY <2>8, ProductsGrow
    <3>2. k \in Nat
      BY <2>6 DEF k
    <3> QED
      BY <3>1, <3>2, ProductsGrow
  <2>14. answer.estimated \in Int /\ answer.estimated <= Caps.runs /\ answer.expected <= answer.estimated
    <3>1. k \in Nat
      BY <2>6 DEF k
    <3>2. all * m * k \in Nat
      BY <2>8, <3>1
    <3> QED
      BY <2>3, <2>7, <2>9, <2>13, <3>2
  <2>15. answer.expected \in Int /\ answer.expected <= Caps.runs
    BY <2>3, <2>5, <2>9, <2>13, <2>14
  <2>16. payload.max_queries = NoMaximum => answer.expected = answer.estimated
    <3>1. audit.max_queries = payload.max_queries
      BY <2>4
    <3> QED
      BY <2>3, <2>7, <2>8, <2>9, <3>1
  <2> QED
    BY <2>3, <2>9, <2>10, <2>11, <2>12, <2>14, <2>15, <2>16
<1> QED
  BY <1>1, RulesInvariant, PTL

-----------------------------------------------------------------------------
(* round(), and the jobs of an audit.                                      *)

\* The quotient x \div d is the number of times that d fits into x.
LEMMA QuotientIs ==
  ASSUME NEW x \in Int, NEW d \in Nat \ {0}
  PROVE  /\ x \div d \in Int
         /\ (x \div d) * d <= x /\ x < (x \div d) * d + d
<1>1. x \div d \in Int
  OBVIOUS
<1>2. x = d * (x \div d) + (x % d) /\ x % d \in 0 .. (d - 1)
  BY Z3
<1> QED
  BY <1>1, <1>2

\* A product with a smaller factor is smaller by d at least.
LEMMA SmallerProduct ==
  ASSUME NEW p \in Int, NEW q \in Int, p < q, NEW d \in Nat
  PROVE  p * d + d <= q * d
<1>1. q - p - 1 \in Nat /\ q = p + 1 + (q - p - 1)
  OBVIOUS
<1>2. (q - p - 1) * d \in Nat
  BY <1>1
<1>3. q * d = p * d + d + (q - p - 1) * d
  BY <1>1
<1> QED
  BY <1>2, <1>3

\* A positive factor keeps the order.
LEMMA MultiplyBoth ==
  ASSUME NEW x \in Int, NEW y \in Int, NEW w \in Nat \ {0}
  PROVE  /\ x <= y => w * x <= w * y
         /\ x < y => w * x < w * y
<1>1. ASSUME NEW d \in Nat, y = x + d PROVE w * x <= w * y
  <2>1. w * y = w * x + w * d /\ w * d \in Nat
    BY <1>1
  <2> QED
    BY <2>1
<1>2. ASSUME NEW d \in Nat, y = x + d + 1 PROVE w * x < w * y
  <2>1. w * y = w * x + w * d + w /\ w * d \in Nat
    BY <1>2
  <2> QED
    BY <2>1
<1>3. x <= y => y - x \in Nat /\ y = x + (y - x)
  OBVIOUS
<1>4. x < y => y - x - 1 \in Nat /\ y = x + (y - x - 1) + 1
  OBVIOUS
<1> QED
  BY <1>1, <1>2, <1>3, <1>4

\* round() of a fraction: within half of the denominator.
LEMMA RoundedIs ==
  ASSUME NEW a \in Int, NEW d \in Nat \ {0}
  PROVE  /\ Rounded(a, d) \in Int
         /\ \A q \in Int : q <= Rounded(a, d) <=> 2 * (q * d) <= 2 * a + d
<1> DEFINE x == 2 * a + d
           e == 2 * d
           r == x \div e
<1>1. /\ x \in Int /\ e \in Nat \ {0} /\ r \in Int
      /\ r * e <= x /\ x < r * e + e
  <2>1. x \in Int /\ e \in Nat \ {0}
    OBVIOUS
  <2> HIDE DEF x, e
  <2> QED
    BY <2>1, QuotientIs
<1> HIDE DEF r
<1>2. ASSUME NEW q \in Int PROVE q <= r <=> q * e <= x
  <2> HIDE DEF x, e
  <2>1. q * e \in Int /\ r * e \in Int
    BY <1>1
  <2>2. CASE q = r
    BY <1>1, <2>2
  <2>3. CASE q < r
    BY <1>1, <2>1, <2>3, SmallerProduct
  <2>4. CASE r < q
    BY <1>1, <2>1, <2>4, SmallerProduct
  <2> QED
    BY <1>1, <2>2, <2>3, <2>4
<1>3. Rounded(a, d) = r
  BY DEF Rounded, r
<1>4. ASSUME NEW q \in Int PROVE q * e = 2 * (q * d)
  OBVIOUS
<1> QED
  BY <1>1, <1>2, <1>3, <1>4

\* The larger of two numbers.
LEMMA MaxOfTwo ==
  ASSUME NEW m \in Nat, NEW n \in Nat
  PROVE  Max({m, n}) = IF m <= n THEN n ELSE m
<1>1. CASE m <= n
  <2>1. \A x \in {m, n} : (\A y \in {m, n} : x >= y) => x = n
    BY <1>1
  <2>2. \A y \in {m, n} : n >= y
    BY <1>1
  <2> QED
    BY <1>1, <2>1, <2>2 DEF Max
<1>2. CASE ~ (m <= n)
  <2>1. \A x \in {m, n} : (\A y \in {m, n} : x >= y) => x = m
    BY <1>2
  <2>2. \A y \in {m, n} : m >= y
    BY <1>2
  <2> QED
    BY <1>2, <2>1, <2>2 DEF Max
<1> QED
  BY <1>1, <1>2

\* Jobs in one of two groups of states are those in either.
LEMMA JobsInParts ==
  ASSUME NEW jobs \in Seq(JobState), NEW S, NEW T, S \cap T = {}
  PROVE  /\ JobsIn(jobs, S) \in Nat
         /\ JobsIn(jobs, S \cup T) = JobsIn(jobs, S) + JobsIn(jobs, T)
<1> DEFINE In(R) == {i \in DOMAIN jobs : jobs[i] \in R}
<1>1. IsFiniteSet(DOMAIN jobs)
  <2>1. DOMAIN jobs = 1 .. Len(jobs) /\ Len(jobs) \in Nat
    BY LenProperties
  <2> QED
    BY <2>1, FS_Interval
<1>2. \A R : IsFiniteSet(In(R)) /\ Cardinality(In(R)) \in Nat
  BY <1>1, FS_Subset, FS_CardinalityType
<1>3. In(S) \cap In(T) = {} /\ In(S \cup T) = In(S) \cup In(T)
  OBVIOUS
<1>4. Cardinality(In(S) \cup In(T)) = Cardinality(In(S)) + Cardinality(In(T))
  <2> HIDE DEF In
  <2>1. Cardinality(In(S) \cap In(T)) = 0
    BY <1>3, FS_EmptySet, Zenon
  <2>2. Cardinality(In(S) \cup In(T))
          = Cardinality(In(S)) + Cardinality(In(T)) - Cardinality(In(S) \cap In(T))
    BY <1>2, FS_Union
  <2> QED
    BY <1>2, <2>1, <2>2
<1>5. /\ JobsIn(jobs, S) = Cardinality(In(S)) /\ JobsIn(jobs, T) = Cardinality(In(T))
      /\ JobsIn(jobs, S \cup T) = Cardinality(In(S \cup T))
  BY Zenon DEF JobsIn
<1>6. Cardinality(In(S \cup T)) = Cardinality(In(S) \cup In(T))
  BY <1>3, Zenon
<1> HIDE DEF In
<1> QED
  BY <1>2, <1>4, <1>5, <1>6

\* Every job is in one of the states that the reports count.
LEMMA JobsCounted ==
  ASSUME NEW jobs \in Seq(JobState)
  PROVE  /\ \A S : JobsIn(jobs, S) \in Nat
         /\ JobsIn(jobs, FailedStatus \cup {"success"}) = FailedRuns(jobs) + JobsIn(jobs, {"success"})
         /\ JobsIn(jobs, {"pending", "running"}) = JobsIn(jobs, {"pending"}) + JobsIn(jobs, {"running"})
         /\ JobsIn(jobs, JobState \ {"pending", "cancelled"})
              = JobsIn(jobs, {"running"}) + JobsIn(jobs, {"success"}) + FailedRuns(jobs)
         /\ Len(jobs) = JobsIn(jobs, {"pending"}) + JobsIn(jobs, {"running"}) + JobsIn(jobs, {"success"})
                          + JobsIn(jobs, {"cancelled"}) + FailedRuns(jobs)
<1> DEFINE C(S) == JobsIn(jobs, S)
<1>1. \A S : C(S) \in Nat
  <2> TAKE S
  <2>1. S \cap {} = {}
    OBVIOUS
  <2> QED
    BY <2>1, JobsInParts
<1>2. /\ C(FailedStatus \cup {"success"}) = C(FailedStatus) + C({"success"})
      /\ C({"pending"} \cup {"running"}) = C({"pending"}) + C({"running"})
      /\ C({"running"} \cup (FailedStatus \cup {"success"})) = C({"running"}) + C(FailedStatus \cup {"success"})
      /\ C({"pending"} \cup {"cancelled"}) = C({"pending"}) + C({"cancelled"})
      /\ C((JobState \ {"pending", "cancelled"}) \cup ({"pending"} \cup {"cancelled"}))
           = C(JobState \ {"pending", "cancelled"}) + C({"pending"} \cup {"cancelled"})
  BY JobsInParts DEF FailedStatus, JobState
<1>3. C(JobState) = Len(jobs)
  <2>1. {i \in DOMAIN jobs : jobs[i] \in JobState} = 1 .. Len(jobs) /\ Len(jobs) \in Nat
    BY LenProperties, ElementOfSeq
  <2>2. Cardinality(1 .. Len(jobs)) = Len(jobs)
    <3> DEFINE n == Len(jobs)
    <3>1. n \in Nat
      BY <2>1
    <3> HIDE DEF n
    <3>2. Cardinality(1 .. n) = n
      BY <3>1, FS_Interval
    <3> QED
      BY <3>2 DEF n
  <2> QED
    BY <2>1, <2>2, Zenon DEF JobsIn
<1>4. /\ {"pending"} \cup {"running"} = {"pending", "running"}
      /\ {"running"} \cup (FailedStatus \cup {"success"}) = JobState \ {"pending", "cancelled"}
      /\ (JobState \ {"pending", "cancelled"}) \cup ({"pending"} \cup {"cancelled"}) = JobState
  BY DEF FailedStatus, JobState
<1> DEFINE pending == C({"pending"})
           running == C({"running"})
           success == C({"success"})
           cancelled == C({"cancelled"})
           failed == C(FailedStatus)
           ended == C(FailedStatus \cup {"success"})
           begun == C(JobState \ {"pending", "cancelled"})
           idle == C({"pending"} \cup {"cancelled"})
<1>5. /\ C({"pending", "running"}) = pending + running
      /\ begun = running + ended
      /\ Len(jobs) = begun + idle
      /\ ended = failed + success
      /\ idle = pending + cancelled
  <2> HIDE DEF C
  <2> QED
    BY <1>2, <1>3, <1>4, Zenon
<1>6. /\ pending \in Nat /\ running \in Nat /\ success \in Nat /\ cancelled \in Nat /\ failed \in Nat
  BY <1>1
<1>7. /\ ended = failed + success
      /\ begun = running + success + failed
      /\ Len(jobs) = pending + running + success + cancelled + failed
  <2> HIDE DEF pending, running, success, cancelled, failed, ended, begun, idle
  <2> QED
    BY <1>5, <1>6
<1> QED
  BY <1>1, <1>5, <1>7, Zenon DEF FailedRuns

\* the trigger and the progress report expect the same number of runs
LEMMA ExpectedRunsAgree ==
  ASSUME NEW audit, NEW T, audit.queries \in Seq(T), NEW U, audit.targets \in Seq(U),
         NEW V, audit.providers \in Seq(V), audit.max_queries \in Nat, audit.runs_per_query \in Nat
  PROVE  /\ ExpectedRunCount(audit) \in Nat
         /\ ExpectedRunsForProgress(audit) = ExpectedRunCount(audit)
<1> DEFINE n == Len(EffectiveQueries(audit))
           m == TargetCount(audit)
           k == audit.runs_per_query
<1>1. /\ n \in Nat
      /\ audit.max_queries = NoMaximum => n = Len(audit.queries)
      /\ audit.max_queries # NoMaximum => n = Min({Len(audit.queries), audit.max_queries})
  BY EffectiveQueriesLength
<1>2. m \in Nat
  BY LenProperties DEF TargetCount
<1>3. ExpectedRunCount(audit) = n * m * k
  BY DEF ExpectedRunCount
<1>4. ExpectedRunsForProgress(audit) = n * m * k
  <2> HIDE DEF n, m, k
  <2> QED
    BY <1>1 DEF ExpectedRunsForProgress, m, k
<1>5. n * m * k \in Nat
  <2>1. k \in Nat
    OBVIOUS
  <2> HIDE DEF n, m, k
  <2> QED
    BY <1>1, <1>2, <2>1
<1> QED
  BY <1>3, <1>4, <1>5

\* Whatever the jobs of an audit have come to, the status report and the progress
\* report agree on the runs that ended and that failed, before a cancellation or a
\* retry on the total, and below 2000 runs on when all is done; at 100 % at most one
\* job in 2000 is left.
THEOREM ProgressAlwaysAgreesWithStatus == Spec => []ProgressAgreesWithStatus
<1>1. IInv => ProgressAgreesWithStatus
  <2> DEFINE audit == question.of.audit
             jobs == question.of.jobs
             status == answer.status
             progress == answer.progress
             expected == ExpectedRunCount(audit)
             failed == FailedRuns(jobs)
             success == JobsIn(jobs, {"success"})
             queued == JobsIn(jobs, {"pending"})
             running == JobsIn(jobs, {"running"})
             skipped == JobsIn(jobs, {"cancelled"})
             left == JobsIn(jobs, {"pending", "running"})
             counted == Max({expected, running + success + failed})
             total == Max({expected, queued + running + (success + failed + skipped)})
  <2> SUFFICES ASSUME IInv, answer.kind = "watch"
               PROVE  /\ progress.completed_runs + progress.failed_runs = status.completed_runs
                      /\ progress.failed_runs = status.failed_runs
                      /\ progress.skipped_runs = 0 /\ Len(jobs) <= expected =>
                            /\ progress.total_runs = status.total_runs
                            /\ progress.total_runs < 2000 =>
                                 (progress.percent_complete = 1000) = (status.completion_ratio = 10000)
                      /\ progress.percent_complete = 1000 => 2000 * left <= progress.total_runs
    BY DEF ProgressAgreesWithStatus
  <2>1. question.of \in Watches /\ answer = WatchAnswer(question.of)
    BY DEF IInv, QuestionIsKnown, AnswerFitsQuestion
  <2>2. /\ jobs \in Seq(JobState)
        /\ audit.queries \in Seq(Texts)
        /\ audit.targets \in Seq(Range(audit.targets))
        /\ audit.providers \in Seq(Range(audit.providers))
        /\ audit.max_queries \in Nat /\ audit.runs_per_query \in Nat
    BY <2>1, WatchesAssumption DEF WatchesAssumption
  <2>3. status = Status(audit, jobs) /\ progress = Progress(audit, jobs)
    BY <2>1 DEF WatchAnswer
  <2>4. expected \in Nat /\ ExpectedRunsForProgress(audit) = expected
    BY <2>2, ExpectedRunsAgree
  <2> HIDE DEF audit, jobs, status, progress, expected
  <2>5. /\ failed \in Nat /\ success \in Nat /\ queued \in Nat /\ running \in Nat /\ skipped \in Nat
        /\ left = queued + running
        /\ JobsIn(jobs, FailedStatus \cup {"success"}) = failed + success
        /\ JobsIn(jobs, JobState \ {"pending", "cancelled"}) = running + success + failed
        /\ Len(jobs) = queued + running + success + skipped + failed
    BY <2>2, JobsCounted DEF FailedRuns
  <2> DEFINE rounded(all, ended, parts) == IF all = 0 THEN 0 ELSE Rounded(parts * ended, all)
  <2>6. /\ status.completed_runs = failed + success
        /\ status.failed_runs = failed
        /\ status.total_runs = counted
        /\ status.completion_ratio = IF counted = 0 THEN 0 ELSE Rounded(10000 * (failed + success), counted)
    <3>1. status = [total_runs |-> counted, completed_runs |-> failed + success, failed_runs |-> failed,
                    completion_ratio |-> rounded(counted, failed + success, 10000)]
      <4> DEFINE ended == JobsIn(jobs, FailedStatus \cup {"success"})
                 begun == JobsIn(jobs, JobState \ {"pending", "cancelled"})
      <4>1. status = [total_runs |-> Max({expected, begun}), completed_runs |-> ended,
                      failed_runs |-> failed,
                      completion_ratio |-> rounded(Max({expected, begun}), ended, 10000)]
        BY <2>3 DEF Status, FailedRuns, expected
      <4>2. ended = failed + success /\ begun = running + success + failed
        BY <2>5
      <4> HIDE DEF ended, begun, failed, success, running, rounded
      <4> QED
        BY <4>1, <4>2, Zenon
    <3> HIDE DEF failed, success, counted
    <3> QED
      BY <3>1
  <2>7. /\ progress.completed_runs = success
        /\ progress.failed_runs = failed
        /\ progress.skipped_runs = skipped
        /\ progress.total_runs = total
        /\ progress.percent_complete =
              IF total = 0 THEN 0 ELSE Rounded(1000 * (success + failed + skipped), total)
    <3>1. progress = [total_runs |-> total, queued_runs |-> queued, running_runs |-> running,
                      completed_runs |-> success, failed_runs |-> failed, skipped_runs |-> skipped,
                      percent_complete |-> rounded(total, success + failed + skipped, 1000)]
      BY <2>3, <2>4 DEF Progress
    <3> HIDE DEF failed, success, queued, running, skipped, total
    <3> QED
      BY <3>1
  <2> HIDE DEF failed, success, queued, running, skipped, left
  <2>8. /\ counted = IF expected <= running + success + failed THEN running + success + failed ELSE expected
        /\ total = IF expected <= queued + running + (success + failed + skipped)
                   THEN queued + running + (success + failed + skipped) ELSE expected
    BY <2>4, <2>5, MaxOfTwo
  <2> HIDE DEF counted, total
  <2>9. counted \in Nat /\ total \in Nat
    BY <2>4, <2>5, <2>8
  <2>10. total # 0 => \A q \in Int : q <= progress.percent_complete
                                       <=> 2 * (q * total) <= 2000 * (success + failed + skipped) + total
    <3>1. total # 0 => \A q \in Int : q <= Rounded(1000 * (success + failed + skipped), total)
                           <=> 2 * (q * total) <= 2 * (1000 * (success + failed + skipped)) + total
      <4> DEFINE a == 1000 * (success + failed + skipped)
      <4>1. a \in Int
        BY <2>5
      <4> HIDE DEF a
      <4>2. total # 0 => \A q \in Int : q <= Rounded(a, total) <=> 2 * (q * total) <= 2 * a + total
        BY <2>9, <4>1, RoundedIs
      <4> QED
        BY <4>2 DEF a
    <3> QED
      BY <2>5, <2>7, <3>1
  <2>11. counted # 0 => \A q \in Int : q <= status.completion_ratio
                                       <=> 2 * (q * counted) <= 20000 * (failed + success) + counted
    <3>1. counted # 0 => \A q \in Int : q <= Rounded(10000 * (failed + success), counted)
                           <=> 2 * (q * counted) <= 2 * (10000 * (failed + success)) + counted
      <4> DEFINE a == 10000 * (failed + success)
      <4>1. a \in Int
        BY <2>5
      <4> HIDE DEF a
      <4>2. counted # 0 => \A q \in Int : q <= Rounded(a, counted) <=> 2 * (q * counted) <= 2 * a + counted
        BY <2>9, <4>1, RoundedIs
      <4> QED
        BY <4>2 DEF a
    <3> QED
      BY <2>5, <2>6, <3>1
  <2>12. progress.percent_complete \in Int /\ status.completion_ratio \in Int
    <3>1. /\ total # 0 => Rounded(1000 * (success + failed + skipped), total) \in Int
          /\ counted # 0 => Rounded(10000 * (failed + success), counted) \in Int
      <4>1. 1000 * (success + failed + skipped) \in Int /\ 10000 * (failed + success) \in Int
        BY <2>5
      <4> QED
        BY <2>9, <4>1, RoundedIs
    <3> QED
      BY <2>6, <2>7, <3>1
  <2>13. progress.percent_complete = 1000 => 2000 * left <= progress.total_runs
    <3> SUFFICES ASSUME progress.percent_complete = 1000 PROVE 2000 * left <= total
      BY <2>7
    <3>1. total # 0
      BY <2>7
    <3>2. 2 * (1000 * total) <= 2000 * (success + failed + skipped) + total
      BY <2>10, <2>12, <3>1
    <3> QED
      BY <2>4, <2>5, <2>8, <2>9, <3>2
  <2>14. ASSUME progress.skipped_runs = 0, Len(jobs) <= expected
         PROVE  /\ progress.total_runs = status.total_runs
                /\ progress.total_runs < 2000 =>
                     (progress.percent_complete = 1000) = (status.completion_ratio = 10000)
    <3>1. skipped = 0 /\ total = expected /\ counted = expected
      BY <2>4, <2>5, <2>7, <2>8, <2>14
    <3>2. total # 0 => /\ 1001 <= progress.percent_complete <=> 2002 * total <= 2000 * (success + failed) + total
                       /\ 1000 <= progress.percent_complete <=> 2000 * total <= 2000 * (success + failed) + total
      BY <2>5, <2>9, <2>10, <3>1
    <3>3. total # 0 => /\ 10001 <= status.completion_ratio <=> 20002 * total <= 20000 * (success + failed) + total
                       /\ 10000 <= status.completion_ratio <=> 20000 * total <= 20000 * (success + failed) + total
      BY <2>5, <2>9, <2>11, <3>1
    <3>4. success + failed <= total
      BY <2>4, <2>5, <2>14, <3>1
    <3>5. ASSUME total # 0, total < 2000
          PROVE  (progress.percent_complete = 1000) <=> (status.completion_ratio = 10000)
      <4>1. progress.percent_complete = 1000 <=> success + failed = total
        BY <2>5, <2>9, <2>12, <3>2, <3>4, <3>5
      <4>2. status.completion_ratio = 10000 <=> success + failed = total
        BY <2>5, <2>9, <2>12, <3>3, <3>4, <3>5
      <4> QED
        BY <4>1, <4>2
    <3>6. total = 0 => progress.percent_complete = 0 /\ status.completion_ratio = 0
      BY <2>6, <2>7, <3>1
    <3>7. total < 2000 => ((progress.percent_complete = 1000) = (status.completion_ratio = 10000))
      BY <3>5, <3>6
    <3>8. progress.total_runs = total /\ status.total_runs = total
      BY <2>6, <2>7, <3>1
    <3> QED
      BY <3>7, <3>8
  <2> HIDE DEF status, progress
  <2>15. /\ progress.completed_runs + progress.failed_runs = status.completed_runs
         /\ progress.failed_runs = status.failed_runs
    BY <2>5, <2>6, <2>7
  <2> QED
    BY <2>13, <2>14, <2>15
<1> QED
  BY <1>1, RulesInvariant, PTL

-----------------------------------------------------------------------------
(* Suggestions for a draft: the loop over the suggestions of a source.     *)

\* What the loop over the suggestions of a source accumulates.
Accumulator(B) == [suggestions : Seq(B), skipped_duplicates : Nat, skipped_limit : Nat]

\* The loop of _suggestions_from_provider_output as a recursive function.
PickUnfolded(g, items, seen, limit) ==
    g = [s \in SUBSET DOMAIN items |->
            IF s = {} THEN NoSuggestions
            ELSE Pick(g[s \ {Max(s)}], items[Max(s)], seen, limit)]

\* Picked is that function's value on all items.
LEMMA PickedIsUnfolded ==
  ASSUME NEW items, NEW seen, NEW limit
  PROVE  Picked(items, seen, limit) = (CHOOSE g : PickUnfolded(g, items, seen, limit))[DOMAIN items]
BY Zenon DEF Picked, FoldLeft, MapThenFoldSet, PickUnfolded

\* A turn of the loop keeps the type of what it accumulates.
LEMMA PickIsTyped ==
  ASSUME NEW B, NEW acc \in Accumulator(B), NEW text \in B, NEW seen, NEW limit
  PROVE  Pick(acc, text, seen, limit) \in Accumulator(B)
<1>1. \/ Pick(acc, text, seen, limit) = acc
      \/ Pick(acc, text, seen, limit) = [acc EXCEPT !.skipped_duplicates = @ + 1]
      \/ Pick(acc, text, seen, limit) = [acc EXCEPT !.skipped_limit = @ + 1]
      \/ Pick(acc, text, seen, limit) = [acc EXCEPT !.suggestions = Append(@, text)]
  BY DEF Pick
<1>2. Append(acc.suggestions, text) \in Seq(B)
  BY DEF Accumulator
<1>3. acc.skipped_duplicates + 1 \in Nat /\ acc.skipped_limit + 1 \in Nat
  BY DEF Accumulator
<1>4. /\ [acc EXCEPT !.skipped_duplicates = @ + 1] \in Accumulator(B)
      /\ [acc EXCEPT !.skipped_limit = @ + 1] \in Accumulator(B)
  BY <1>3 DEF Accumulator
<1>5. [acc EXCEPT !.suggestions = Append(@, text)] \in Accumulator(B)
  <2> DEFINE more == Append(acc.suggestions, text)
  <2> HIDE DEF more
  <2>1. [acc EXCEPT !.suggestions = more] \in Accumulator(B)
    BY <1>2 DEF Accumulator, more
  <2> QED
    BY <2>1 DEF more
<1> QED
  BY <1>1, <1>4, <1>5

\* The turns of the loop over the items, up to its result.
Turns(turns, items, seen, limit) ==
    /\ turns[0] = NoSuggestions
    /\ \A k \in 1 .. Len(items) : turns[k] = Pick(turns[k - 1], items[k], seen, limit)
    /\ Picked(items, seen, limit) = turns[Len(items)]

\* The loop has such turns.
LEMMA PickedInTurns ==
  ASSUME NEW B, NEW items \in Seq(B), NEW seen, NEW limit
  PROVE  \E turns \in [0 .. Len(items) -> Accumulator(B)] : Turns(turns, items, seen, limit)
<1> DEFINE A == Accumulator(B)
           F == [p \in A \X B |-> Pick(p[1], p[2], seen, limit)]
           S == SUBSET DOMAIN items
           n == Len(items)
<1>1. NoSuggestions \in A
  BY DEF NoSuggestions, Accumulator
<1>2. F \in [A \X B -> A]
  <2> HIDE DEF A
  <2> SUFFICES ASSUME NEW p \in A \X B PROVE Pick(p[1], p[2], seen, limit) \in A
    OBVIOUS
  <2> QED
    BY PickIsTyped DEF A
<1>3. n \in Nat /\ DOMAIN items = 1 .. n /\ \A i \in 1 .. n : items[i] \in B
  OBVIOUS
<1>4. ASSUME NEW s \in S, s # {} PROVE Max(s) \in s
  BY <1>3, <1>4, LargestElement
<1>5. \E g : PickUnfolded(g, items, seen, limit)
  <2> HIDE DEF A, F
  <2>1. PICK g \in [S -> A] : Folding(g, items, NoSuggestions, F)
    BY <1>1, <1>2, FoldingExists
  <2>2. ASSUME NEW s \in S
        PROVE  g[s] = IF s = {} THEN NoSuggestions
                      ELSE Pick(g[s \ {Max(s)}], items[Max(s)], seen, limit)
    <3>1. CASE s = {}
      BY <2>1, <3>1 DEF Folding
    <3>2. CASE s # {}
      <4> DEFINE m == Max(s)
      <4>1. m \in s
        BY <1>4, <3>2
      <4>2. g[s] = F[<<g[s \ {m}], items[m]>>]
        BY <2>1, <3>2 DEF Folding
      <4> HIDE DEF m
      <4>3. g[s \ {m}] \in A /\ items[m] \in B
        BY <1>3, <4>1
      <4>4. F[<<g[s \ {m}], items[m]>>] = Pick(g[s \ {m}], items[m], seen, limit)
        BY <4>3 DEF F
      <4> QED
        BY <3>2, <4>2, <4>4, Zenon DEF m
    <3> QED
      BY <3>1, <3>2
  <2> QED
    BY <2>2 DEF PickUnfolded
<1>6. PICK g : /\ PickUnfolded(g, items, seen, limit)
               /\ Picked(items, seen, limit) = g[DOMAIN items]
  BY <1>5, PickedIsUnfolded, Zenon
<1>7. ASSUME NEW s \in S
      PROVE  g[s] = IF s = {} THEN NoSuggestions ELSE Pick(g[s \ {Max(s)}], items[Max(s)], seen, limit)
  BY <1>6 DEF PickUnfolded
<1> DEFINE turns == [k \in 0 .. n |-> g[1 .. k]]
<1> HIDE DEF A, F
<1>8. turns[0] = NoSuggestions
  <2>1. 1 .. 0 = {} /\ {} \in S /\ 0 \in 0 .. n
    BY <1>3
  <2> QED
    BY <1>7, <2>1
<1>9. ASSUME NEW k \in 1 .. n PROVE turns[k] = Pick(turns[k - 1], items[k], seen, limit)
  <2> DEFINE s == 1 .. k
  <2>1. s \in S /\ s # {} /\ k \in Nat \ {0} /\ k \in 0 .. n /\ k - 1 \in 0 .. n
    BY <1>3
  <2>2. Max(s) = k /\ s \ {k} = 1 .. (k - 1)
    BY <2>1, LastOfInterval
  <2>3. turns[k] = g[s] /\ turns[k - 1] = g[1 .. (k - 1)]
    BY <2>1
  <2> HIDE DEF s, turns
  <2>4. g[s] = Pick(g[s \ {Max(s)}], items[Max(s)], seen, limit)
    BY <1>7, <2>1
  <2> QED
    BY <2>2, <2>3, <2>4, Zenon
<1>10. turns[n] = Picked(items, seen, limit)
  BY <1>3, <1>6
<1>11. turns \in [0 .. n -> A]
  <2> DEFINE P == {k \in Nat : k <= n => turns[k] \in A}
  <2>1. 0 \in P
    BY <1>1, <1>8
  <2>2. ASSUME NEW k \in Nat, k \in P PROVE k + 1 \in P
    <3> SUFFICES ASSUME k + 1 <= n PROVE turns[k + 1] \in A
      OBVIOUS
    <3>1. k + 1 \in 1 .. n /\ (k + 1) - 1 = k /\ turns[k] \in A
      BY <1>3, <2>2
    <3> HIDE DEF turns, P
    <3>2. turns[k + 1] = Pick(turns[k], items[k + 1], seen, limit)
      BY <1>9, <3>1
    <3>3. items[k + 1] \in B
      BY <1>3, <3>1
    <3> QED
      BY <3>1, <3>2, <3>3, PickIsTyped DEF A
  <2>3. \A k \in Nat : k \in P
    <3> HIDE DEF P
    <3> QED
      BY <2>1, <2>2, InductionOnNumbers
  <2>4. \A k \in 0 .. n : turns[k] \in A
    <3> HIDE DEF turns
    <3> QED
      BY <1>3, <2>3
  <2> QED
    BY <2>4
<1> HIDE DEF turns
<1> QED
  BY <1>8, <1>9, <1>10, <1>11 DEF Turns, A

\* The items among the first k that have a text.
NonBlank(items, k) == {i \in 1 .. k : items[i] # Blank}

\* What the loop has after the first k items.
PicksFit(acc, items, k, seen, limit) ==
    /\ IsInjective(acc.suggestions)
    /\ Range(acc.suggestions) \cap (seen \cup {Blank}) = {}
    /\ Len(acc.suggestions) <= limit
    /\ Len(acc.suggestions) + acc.skipped_duplicates + acc.skipped_limit = Cardinality(NonBlank(items, k))

\* One more item adds itself, when it has a text.
LEMMA NonBlankGrows ==
  ASSUME NEW items, NEW k \in Nat
  PROVE  /\ Cardinality(NonBlank(items, k)) \in Nat
         /\ NonBlank(items, 0) = {}
         /\ Cardinality(NonBlank(items, k + 1)) =
              Cardinality(NonBlank(items, k)) + (IF items[k + 1] = Blank THEN 0 ELSE 1)
<1> DEFINE S == NonBlank(items, k)
<1>1. NonBlank(items, 0) = {}
  BY DEF NonBlank
<1>2. IsFiniteSet(S) /\ k + 1 \notin S
  <2>1. IsFiniteSet(1 .. k) /\ S \subseteq 1 .. k
    BY FS_Interval DEF NonBlank
  <2>2. k + 1 \notin 1 .. k
    OBVIOUS
  <2> QED
    BY <2>1, <2>2, FS_Subset
<1>3. 1 .. (k + 1) = (1 .. k) \cup {k + 1}
  OBVIOUS
<1>4. NonBlank(items, k + 1) = IF items[k + 1] = Blank THEN S ELSE S \cup {k + 1}
  BY <1>3 DEF NonBlank
<1> HIDE DEF S
<1>5. Cardinality(S) \in Nat /\ Cardinality(S \cup {k + 1}) = Cardinality(S) + 1
  BY <1>2, FS_AddElement, FS_CardinalityType
<1>6. CASE items[k + 1] = Blank
  <2>1. Cardinality(NonBlank(items, k + 1)) = Cardinality(S)
    BY <1>4, <1>6, Zenon
  <2> QED
    BY <1>1, <1>5, <1>6, <2>1 DEF S
<1>7. CASE items[k + 1] # Blank
  <2>1. Cardinality(NonBlank(items, k + 1)) = Cardinality(S \cup {k + 1})
    BY <1>4, <1>7, Zenon
  <2> QED
    BY <1>1, <1>5, <1>7, <2>1 DEF S
<1> QED
  BY <1>6, <1>7

\* A turn of the loop keeps what PicksFit says.
LEMMA PickFits ==
  ASSUME NEW B, NEW items \in Seq(B), NEW seen, NEW limit \in Nat, NEW k \in Nat, k + 1 <= Len(items),
         NEW acc \in Accumulator(B), PicksFit(acc, items, k, seen, limit)
  PROVE  PicksFit(Pick(acc, items[k + 1], seen, limit), items, k + 1, seen, limit)
<1> DEFINE text == items[k + 1]
           next == Pick(acc, text, seen, limit)
           n == Cardinality(NonBlank(items, k))
           m == Cardinality(NonBlank(items, k + 1))
           s == acc.suggestions
           dup == acc.skipped_duplicates
           lim == acc.skipped_limit
<1>1. /\ text \in B /\ s \in Seq(B) /\ Len(s) \in Nat
      /\ dup \in Nat /\ lim \in Nat
      /\ acc = [suggestions |-> s, skipped_duplicates |-> dup, skipped_limit |-> lim]
  BY DEF Accumulator
<1>2. n \in Nat /\ m = n + (IF text = Blank THEN 0 ELSE 1)
  BY NonBlankGrows
<1>3. /\ IsInjective(s) /\ Range(s) \cap (seen \cup {Blank}) = {} /\ Len(s) <= limit
      /\ Len(s) + dup + lim = n
  BY DEF PicksFit
<1>4. /\ Append(s, text) \in Seq(B) /\ Len(Append(s, text)) = Len(s) + 1
      /\ Range(Append(s, text)) = Range(s) \cup {text}
      /\ text \notin Range(s) => IsInjective(Append(s, text))
  BY <1>1, <1>3, AppendedIsInjective
<1>5. \/ text = Blank /\ next = acc
      \/ text # Blank /\ next = [acc EXCEPT !.skipped_duplicates = @ + 1]
      \/ text # Blank /\ next = [acc EXCEPT !.skipped_limit = @ + 1]
      \/ /\ text # Blank /\ text \notin seen \cup Range(s) /\ ~ (Len(s) >= limit)
         /\ next = [acc EXCEPT !.suggestions = Append(@, text)]
  BY DEF Pick
<1> HIDE DEF text, next, n, m, s, dup, lim
<1>6. CASE text = Blank /\ next = acc
  <2>1. next.suggestions = s /\ next.skipped_duplicates = dup /\ next.skipped_limit = lim
    BY <1>6 DEF s, dup, lim
  <2> QED
    BY <1>2, <1>3, <1>6, <2>1 DEF PicksFit, m, next, text
<1>7. CASE text # Blank /\ next = [acc EXCEPT !.skipped_duplicates = @ + 1]
  <2>1. next.suggestions = s /\ next.skipped_duplicates = dup + 1 /\ next.skipped_limit = lim
    BY <1>1, <1>7
  <2>2. Len(s) + (dup + 1) + lim = m
    BY <1>1, <1>2, <1>3, <1>7
  <2> QED
    BY <1>3, <2>1, <2>2 DEF PicksFit, m, next, text
<1>8. CASE text # Blank /\ next = [acc EXCEPT !.skipped_limit = @ + 1]
  <2>1. next.suggestions = s /\ next.skipped_duplicates = dup /\ next.skipped_limit = lim + 1
    BY <1>1, <1>8
  <2>2. Len(s) + dup + (lim + 1) = m
    BY <1>1, <1>2, <1>3, <1>8
  <2> QED
    BY <1>3, <2>1, <2>2 DEF PicksFit, m, next, text
<1>9. CASE /\ text # Blank /\ text \notin seen \cup Range(s) /\ ~ (Len(s) >= limit)
           /\ next = [acc EXCEPT !.suggestions = Append(@, text)]
  <2>1. next.suggestions = Append(s, text) /\ next.skipped_duplicates = dup /\ next.skipped_limit = lim
    BY <1>1, <1>9
  <2>2. Len(Append(s, text)) + dup + lim = m /\ Len(Append(s, text)) <= limit
    BY <1>1, <1>2, <1>3, <1>4, <1>9
  <2>3. Range(Append(s, text)) \cap (seen \cup {Blank}) = {}
    BY <1>3, <1>4, <1>9
  <2>4. IsInjective(Append(s, text))
    BY <1>4, <1>9
  <2> QED
    BY <2>1, <2>2, <2>3, <2>4, Zenon DEF PicksFit, m, next, text
<1> QED
  BY <1>5, <1>6, <1>7, <1>8, <1>9 DEF next, text

\* What the loop leaves: no repetition, nothing seen before, at most limit texts,
\* and every item that has a text accounted for.
LEMMA PickedFits ==
  ASSUME NEW B, NEW items \in Seq(B), NEW seen, NEW limit \in Nat
  PROVE  /\ Picked(items, seen, limit) \in Accumulator(B)
         /\ PicksFit(Picked(items, seen, limit), items, Len(items), seen, limit)
<1> DEFINE n == Len(items)
<1>1. n \in Nat
  OBVIOUS
<1>2. PICK turns \in [0 .. n -> Accumulator(B)] : Turns(turns, items, seen, limit)
  BY PickedInTurns
<1> DEFINE P == {k \in Nat : k <= n => PicksFit(turns[k], items, k, seen, limit)}
<1>3. 0 \in P
  <2>1. Cardinality(NonBlank(items, 0)) = 0
    BY NonBlankGrows, FS_EmptySet, Zenon
  <2>2. Len(<<>>) = 0 /\ IsInjective(<<>>) /\ Range(<<>>) = {}
    BY DEF IsInjective, Range
  <2>3. turns[0] = NoSuggestions
    BY <1>2 DEF Turns
  <2> HIDE DEF n
  <2>4. PicksFit(turns[0], items, 0, seen, limit)
    BY <2>1, <2>2, <2>3 DEF PicksFit, NoSuggestions
  <2> QED
    BY <2>4
<1>4. ASSUME NEW k \in Nat, k \in P PROVE k + 1 \in P
  <2> SUFFICES ASSUME k + 1 <= n PROVE PicksFit(turns[k + 1], items, k + 1, seen, limit)
    OBVIOUS
  <2>1. PicksFit(turns[k], items, k, seen, limit) /\ k \in 0 .. n /\ k + 1 \in 1 .. n
    BY <1>1, <1>4
  <2>2. turns[k + 1] = Pick(turns[k], items[k + 1], seen, limit)
    <3>1. turns[k + 1] = Pick(turns[(k + 1) - 1], items[k + 1], seen, limit)
      BY <1>2, <2>1 DEF Turns
    <3>2. (k + 1) - 1 = k
      OBVIOUS
    <3> QED
      BY <3>1, <3>2
  <2>3. turns[k] \in Accumulator(B)
    BY <1>2, <2>1
  <2> HIDE DEF P
  <2> QED
    BY <2>1, <2>2, <2>3, PickFits
<1>5. \A k \in Nat : k \in P
  <2> HIDE DEF P
  <2> QED
    BY <1>3, <1>4, InductionOnNumbers
<1>6. PicksFit(turns[n], items, n, seen, limit) /\ turns[n] \in Accumulator(B)
  <2>1. n \in 0 .. n /\ n \in P
    BY <1>1, <1>5
  <2> HIDE DEF n
  <2> QED
    BY <1>1, <1>2, <2>1
<1>7. Picked(items, seen, limit) = turns[n]
  BY <1>2 DEF Turns
<1> QED
  BY <1>6, <1>7

-----------------------------------------------------------------------------
(* The questions of a People Also Ask provider, and both sources together. *)

\* The loop of get_questions as a recursive function.
AskUnfolded(g, items, limit) ==
    g = [s \in SUBSET DOMAIN items |->
            IF s = {} THEN <<>> ELSE Ask(g[s \ {Max(s)}], items[Max(s)], limit)]

\* what the provider returns is a sequence of its items
LEMMA QuestionsAreItems ==
  ASSUME NEW B, NEW items \in Seq(B), NEW limit
  PROVE  QuestionsWithin(items, limit) \in Seq(B)
<1> DEFINE A == Seq(B)
           F == [p \in A \X B |-> Ask(p[1], p[2], limit)]
           S == SUBSET DOMAIN items
<1>1. <<>> \in A
  OBVIOUS
<1>2. \A questions \in A, text \in B : Ask(questions, text, limit) \in A
  BY DEF Ask
<1>3. F \in [A \X B -> A]
  <2> SUFFICES ASSUME NEW p \in A \X B PROVE Ask(p[1], p[2], limit) \in A
    OBVIOUS
  <2>1. p[1] \in A /\ p[2] \in B
    OBVIOUS
  <2> HIDE DEF A
  <2> QED
    BY <1>2, <2>1
<1>4. /\ Len(items) \in Nat /\ DOMAIN items = 1 .. Len(items)
      /\ \A i \in DOMAIN items : items[i] \in B
  OBVIOUS
<1>5. ASSUME NEW s \in S, s # {} PROVE Max(s) \in s
  BY <1>4, <1>5, LargestElement
<1> HIDE DEF A, F
<1>6. PICK g \in [S -> A] : Folding(g, items, <<>>, F)
  BY <1>1, <1>3, FoldingExists
<1>7. ASSUME NEW s \in S
      PROVE  g[s] = IF s = {} THEN <<>> ELSE Ask(g[s \ {Max(s)}], items[Max(s)], limit)
  <2>1. CASE s = {}
    BY <1>6, <2>1 DEF Folding
  <2>2. CASE s # {}
    <3> DEFINE m == Max(s)
    <3>1. m \in s
      BY <1>5, <2>2
    <3>2. g[s] = F[<<g[s \ {m}], items[m]>>]
      BY <1>6, <2>2 DEF Folding
    <3> HIDE DEF m
    <3>3. g[s \ {m}] \in A /\ items[m] \in B
      BY <1>4, <3>1
    <3>4. F[<<g[s \ {m}], items[m]>>] = Ask(g[s \ {m}], items[m], limit)
      BY <3>3 DEF F
    <3> QED
      BY <2>2, <3>2, <3>4, Zenon DEF m
  <2> QED
    BY <2>1, <2>2
<1>8. \E h : AskUnfolded(h, items, limit)
  BY <1>7 DEF AskUnfolded
<1>9. QuestionsWithin(items, limit) = (CHOOSE h : AskUnfolded(h, items, limit))[DOMAIN items]
  BY Zenon DEF QuestionsWithin, FoldLeft, MapThenFoldSet, AskUnfolded
<1>10. PICK h : AskUnfolded(h, items, limit) /\ QuestionsWithin(items, limit) = h[DOMAIN items]
  BY <1>8, <1>9, Zenon
<1>11. \A s \in S : h[s] = IF s = {} THEN <<>> ELSE Ask(h[s \ {Max(s)}], items[Max(s)], limit)
  BY <1>10 DEF AskUnfolded
<1> DEFINE P == {s \in S : h[s] \in A}
<1>12. ASSUME NEW s \in S, \A r \in SUBSET s : r # s => r \in P PROVE s \in P
  <2>1. CASE s = {}
    BY <1>1, <1>11, <2>1
  <2>2. CASE s # {}
    <3> DEFINE m == Max(s)
    <3>1. m \in s
      BY <1>5, <2>2
    <3>2. h[s] = Ask(h[s \ {m}], items[m], limit)
      BY <1>11, <2>2
    <3> HIDE DEF m
    <3>3. h[s \ {m}] \in A /\ items[m] \in B
      BY <1>4, <1>12, <3>1
    <3> QED
      BY <1>2, <3>2, <3>3
  <2> QED
    BY <2>1, <2>2
<1>13. IsFiniteSet(DOMAIN items)
  <2> DEFINE n == Len(items)
  <2>1. n \in Nat /\ DOMAIN items = 1 .. n
    BY <1>4
  <2> HIDE DEF n
  <2> QED
    BY <2>1, FS_Interval
<1>14. \A s \in S : s \in P
  <2> DEFINE D == DOMAIN items
  <2>1. IsFiniteSet(D) /\ \A s \in SUBSET D : (\A r \in SUBSET s : r # s => r \in P) => s \in P
    BY <1>12, <1>13
  <2> HIDE DEF P, D
  <2>2. \A s \in SUBSET D : s \in P
    BY <2>1, InductionOnSubsets
  <2> QED
    BY <2>2 DEF D
<1> QED
  BY <1>10, <1>14 DEF A

\* What a source may add to what has been seen.
SourceFits(out, B, seen, count, slots) ==
    /\ out \in Accumulator(B)
    /\ IsInjective(out.suggestions)
    /\ Range(out.suggestions) \cap (seen \cup {Blank}) = {}
    /\ Len(out.suggestions) <= count
    /\ Len(out.suggestions) <= slots

\* A source that gives nothing fits.
LEMMA NothingFits ==
  ASSUME NEW B, NEW seen, NEW count \in Nat, NEW slots \in Nat, NEW skipped \in Nat
  PROVE  /\ SourceFits(NoSuggestions, B, seen, count, slots)
         /\ SourceFits(Full(skipped), B, seen, count, slots)
<1>1. /\ NoSuggestions.suggestions = <<>> /\ Full(skipped).suggestions = <<>>
      /\ NoSuggestions \in Accumulator(B) /\ Full(skipped) \in Accumulator(B)
  <2>1. NoSuggestions \in Accumulator(B) /\ NoSuggestions.suggestions = <<>>
    BY DEF NoSuggestions, Accumulator
  <2>2. Full(skipped) = [suggestions |-> <<>>, skipped_duplicates |-> 0, skipped_limit |-> skipped]
    BY DEF NoSuggestions, Full
  <2>3. Full(skipped) \in Accumulator(B) /\ Full(skipped).suggestions = <<>>
    BY <2>2 DEF Accumulator
  <2> QED
    BY <2>1, <2>3
<1>2. Len(<<>>) = 0 /\ IsInjective(<<>>) /\ Range(<<>>) = {}
  BY DEF IsInjective, Range
<1> QED
  BY <1>1, <1>2 DEF SourceFits

\* What the loop picks from a source fits.
LEMMA PicksOfSourceFit ==
  ASSUME NEW B, NEW items \in Seq(B), NEW seen, NEW count \in Nat, NEW slots \in Nat
  PROVE  LET out == Picked(items, seen, Min({count, slots}))
         IN  /\ SourceFits(out, B, seen, count, slots)
             /\ Len(out.suggestions) + out.skipped_duplicates + out.skipped_limit
                  = Cardinality(NonBlank(items, Len(items)))
<1> DEFINE limit == Min({count, slots})
           out == Picked(items, seen, limit)
<1>1. limit \in Nat /\ limit <= count /\ limit <= slots
  BY MinOfTwo
<1> HIDE DEF limit
<1>2. out \in Accumulator(B) /\ PicksFit(out, items, Len(items), seen, limit)
  BY <1>1, PickedFits
<1>3. Len(out.suggestions) \in Nat
  BY <1>2, LenProperties DEF Accumulator
<1> HIDE DEF out
<1>4. SourceFits(out, B, seen, count, slots)
  BY <1>1, <1>2, <1>3 DEF SourceFits, PicksFit
<1>5. Len(out.suggestions) + out.skipped_duplicates + out.skipped_limit
        = Cardinality(NonBlank(items, Len(items)))
  BY <1>2 DEF PicksFit
<1> QED
  BY <1>4, <1>5 DEF out, limit

\* What the model suggests fits, and accounts for what it leaves out.
LEMMA AISuggestionsFit ==
  ASSUME NEW B, NEW source, source.items \in Seq(B), NEW seen, NEW count \in Nat, NEW slots \in Nat
  PROVE  LET out == AISuggestions(source, seen, count, slots)
         IN  /\ SourceFits(out, B, seen, count, slots)
             /\ ~ source.failed =>
                  Len(out.suggestions) + out.skipped_duplicates + out.skipped_limit
                    = Cardinality(NonBlank(source.items, Len(source.items)))
<1> DEFINE out == AISuggestions(source, seen, count, slots)
<1>1. CASE source.failed
  <2>1. out = NoSuggestions
    BY <1>1 DEF AISuggestions, Unavailable
  <2>2. SourceFits(NoSuggestions, B, seen, count, slots)
    <3>1. 0 \in Nat
      OBVIOUS
    <3> QED
      BY <3>1, NothingFits
  <2> QED
    BY <1>1, <2>1, <2>2
<1>2. CASE ~ source.failed
  <2>1. out = Picked(source.items, seen, Min({count, slots}))
    BY <1>2, Zenon DEF AISuggestions
  <2> HIDE DEF out
  <2>2. /\ SourceFits(out, B, seen, count, slots)
        /\ Len(out.suggestions) + out.skipped_duplicates + out.skipped_limit
             = Cardinality(NonBlank(source.items, Len(source.items)))
    BY <2>1, PicksOfSourceFit, Zenon
  <2> QED
    BY <2>2 DEF out
<1> QED
  BY <1>1, <1>2

\* What a People Also Ask provider suggests fits.
LEMMA PAASuggestionsFit ==
  ASSUME NEW B, NEW source, source.items \in Seq(B), NEW seen, NEW count \in Nat, NEW slots \in Nat
  PROVE  SourceFits(PAASuggestions(source, seen, count, slots), B, seen, count, slots)
<1> DEFINE out == PAASuggestions(source, seen, count, slots)
           limit == Min({count, slots})
           items == QuestionsWithin(source.items, limit)
<1>1. /\ SourceFits(NoSuggestions, B, seen, count, slots)
      /\ SourceFits(Full(count), B, seen, count, slots)
  BY NothingFits
<1>2. items \in Seq(B)
  BY QuestionsAreItems
<1>3. SourceFits(Picked(items, seen, limit), B, seen, count, slots)
  <2> HIDE DEF items
  <2> QED
    BY <1>2, PicksOfSourceFit, Zenon
<1>4. out = Full(count) \/ out = NoSuggestions \/ out = Picked(items, seen, limit)
  <2> HIDE DEF items
  <2>1. CASE slots <= 0
    BY <2>1 DEF PAASuggestions
  <2>2. CASE slots > 0 /\ source.failed
    BY <2>2 DEF PAASuggestions, Unavailable
  <2>3. CASE slots > 0 /\ ~ source.failed
    <3>1. ~ (slots <= 0)
      BY <2>3
    <3> QED
      BY <2>3, <3>1, Zenon DEF PAASuggestions, items
  <2> QED
    BY <2>1, <2>2, <2>3
<1> HIDE DEF items, limit
<1> QED
  BY <1>1, <1>3, <1>4

\* Whatever the draft holds and the sources offer, the suggestions repeat neither the
\* draft nor each other, fit the limit of a request and what was asked for, and the
\* answer accounts for every suggestion that the model made.
THEOREM SuggestionsAlwaysFitTheDraft == Spec => []SuggestionsFitTheDraft
<1>1. IInv => SuggestionsFitTheDraft
  <2> DEFINE draft == question.of
             result == answer.result
             existing == Range(draft.existing) \ {Blank}
             size == Cardinality(existing)
             offered == {i \in DOMAIN draft.ai.items : draft.ai.items[i] # Blank}
             both == draft.use_ai /\ draft.use_paa
             slots == MaxSeedQueryCount - size
             B == Range(draft.ai.items) \cup Range(draft.paa.items)
             ai == IF draft.use_ai THEN AISuggestions(draft.ai, existing, draft.count, slots)
                                   ELSE NoSuggestions
             seen == existing \cup Range(ai.suggestions)
             room == MaxSeedQueryCount - Cardinality(seen)
             paa == IF draft.use_paa THEN PAASuggestions(draft.paa, seen, draft.count, room)
                                     ELSE NoSuggestions
  <2> SUFFICES ASSUME IInv, answer.kind = "draft"
               PROVE  /\ IsInjective(result.suggestions)
                      /\ Range(result.suggestions) \cap (existing \cup {Blank}) = {}
                      /\ result.suggestions # <<>> => size + Len(result.suggestions) <= MaxSeedQueryCount
                      /\ Len(result.suggestions) <= draft.count * (IF both THEN 2 ELSE 1)
                      /\ draft.use_ai /\ ~ draft.use_paa /\ ~ draft.ai.failed
                           /\ size < MaxSeedQueryCount =>
                            Len(result.suggestions) + result.skipped_duplicates + result.skipped_limit
                              = Cardinality(offered)
    BY DEF SuggestionsFitTheDraft
  <2>1. draft \in Drafts /\ answer = DraftAnswer(draft)
    BY DEF IInv, QuestionIsKnown, AnswerFitsQuestion
  <2>2. /\ MaxSeedQueryCount \in Nat /\ draft.count \in Nat
        /\ draft.use_ai \in BOOLEAN /\ draft.use_paa \in BOOLEAN
        /\ draft.existing \in Seq(Range(draft.existing))
        /\ draft.ai.items \in Seq(Range(draft.ai.items))
        /\ draft.paa.items \in Seq(Range(draft.paa.items))
    BY <2>1, DraftsAssumption DEF DraftsAssumption
  <2>3. result = IF slots <= 0 THEN Full(draft.count) ELSE Merged(ai, paa)
    BY <2>1, Zenon DEF DraftAnswer, Suggestions, SeenAfter
  <2>4. IsFiniteSet(existing) /\ size \in Nat /\ slots \in Int
    <3>1. IsFiniteSet(Range(draft.existing))
      BY <2>2, SizeOfRange
    <3>2. IsFiniteSet(existing) /\ size \in Nat
      BY <3>1, FS_Subset, FS_CardinalityType
    <3> QED
      BY <2>2, <3>2
  <2>5. draft.ai.items \in Seq(B) /\ draft.paa.items \in Seq(B)
    <3>1. Range(draft.ai.items) \subseteq B /\ Range(draft.paa.items) \subseteq B
      OBVIOUS
    <3> HIDE DEF B
    <3> QED
      BY <2>2, <3>1
  <2>6. CASE slots <= 0
    <3>1. result = Full(draft.count)
      BY <2>3, <2>6
    <3>2. result.suggestions = <<>>
      BY <3>1 DEF Full, NoSuggestions
    <3>3. Len(<<>>) = 0 /\ IsInjective(<<>>) /\ Range(<<>>) = {}
      BY DEF IsInjective, Range
    <3>4. ~ (size < MaxSeedQueryCount)
      BY <2>2, <2>4, <2>6
    <3>5. 0 <= draft.count * (IF both THEN 2 ELSE 1)
      BY <2>2
    <3> HIDE DEF draft, result, existing, size, offered, both
    <3> QED
      BY <3>2, <3>3, <3>4, <3>5
  <2>7. CASE ~ (slots <= 0)
    <3> DEFINE count == draft.count
    <3>1. result = Merged(ai, paa)
      BY <2>3, <2>7, Zenon
    <3>2. slots \in Nat /\ count \in Nat /\ slots = MaxSeedQueryCount - size
      BY <2>2, <2>4, <2>7
    <3> HIDE DEF size, slots, B, existing
    <3>3. /\ SourceFits(ai, B, existing, count, slots)
          /\ ~ draft.use_ai => ai.suggestions = <<>>
          /\ draft.use_ai /\ ~ draft.ai.failed =>
               Len(ai.suggestions) + ai.skipped_duplicates + ai.skipped_limit
                 = Cardinality(NonBlank(draft.ai.items, Len(draft.ai.items)))
      <4>1. CASE draft.use_ai
        <5>1. ai = AISuggestions(draft.ai, existing, count, slots)
          BY <4>1
        <5> HIDE DEF ai, count
        <5> QED
          BY <2>5, <3>2, <4>1, <5>1, AISuggestionsFit
      <4>2. CASE ~ draft.use_ai
        <5>1. ai = NoSuggestions
          BY <4>2
        <5>2. NoSuggestions.suggestions = <<>>
          BY DEF NoSuggestions
        <5>3. SourceFits(NoSuggestions, B, existing, count, slots)
          <6> HIDE DEF count
          <6>1. 0 \in Nat
            OBVIOUS
          <6> QED
            BY <3>2, <6>1, NothingFits
        <5> HIDE DEF ai
        <5> QED
          BY <4>2, <5>1, <5>2, <5>3
      <4> QED
        BY <2>2, <4>1, <4>2
    <3> DEFINE first == ai.suggestions
               second == paa.suggestions
               m == Len(first)
               n == Len(second)
    <3> HIDE DEF ai
    <3>4. /\ first \in Seq(B) /\ m \in Nat /\ IsInjective(first)
          /\ Range(first) \cap (existing \cup {Blank}) = {}
          /\ m <= count /\ m <= slots
          /\ ai.skipped_duplicates \in Nat /\ ai.skipped_limit \in Nat
      BY <3>3, LenProperties DEF SourceFits, Accumulator
    <3> HIDE DEF m
    <3>5. Cardinality(seen) = size + m
      <4>1. IsFiniteSet(Range(first)) /\ Cardinality(Range(first)) = m
        BY <3>4, SizeOfRange DEF m
      <4>2. existing \cap Range(first) = {}
        BY <3>4
      <4>3. Cardinality(existing \cap Range(first)) = 0
        BY <4>2, FS_EmptySet, Zenon
      <4>4. Cardinality(existing \cup Range(first)) =
              Cardinality(existing) + Cardinality(Range(first)) - Cardinality(existing \cap Range(first))
        BY <2>4, <4>1, FS_Union
      <4> HIDE DEF first
      <4> QED
        BY <2>4, <3>4, <4>1, <4>3, <4>4 DEF size, first
    <3>6. room = slots - m /\ room \in Nat
      BY <2>2, <2>4, <3>2, <3>4, <3>5
    <3> HIDE DEF room, seen
    <3>7. /\ SourceFits(paa, B, seen, count, room)
          /\ ~ draft.use_paa => paa = NoSuggestions
      <4>1. CASE draft.use_paa
        <5>1. paa = PAASuggestions(draft.paa, seen, count, room)
          BY <4>1
        <5> HIDE DEF paa, count
        <5>2. SourceFits(PAASuggestions(draft.paa, seen, count, room), B, seen, count, room)
          BY <2>5, <3>2, <3>6, PAASuggestionsFit
        <5> QED
          BY <4>1, <5>1, <5>2
      <4>2. CASE ~ draft.use_paa
        <5>1. paa = NoSuggestions
          BY <4>2
        <5>2. SourceFits(NoSuggestions, B, seen, count, room)
          <6> HIDE DEF count
          <6>1. 0 \in Nat
            OBVIOUS
          <6> QED
            BY <3>2, <3>6, <6>1, NothingFits
        <5> HIDE DEF paa
        <5> QED
          BY <5>1, <5>2
      <4> QED
        BY <2>2, <4>1, <4>2
    <3> HIDE DEF paa
    <3>8. /\ second \in Seq(B) /\ n \in Nat /\ IsInjective(second)
          /\ Range(second) \cap (seen \cup {Blank}) = {}
          /\ n <= count /\ n <= room
      BY <3>7, LenProperties DEF SourceFits, Accumulator
    <3>9. Range(first) \cap Range(second) = {} /\ Range(second) \cap (existing \cup {Blank}) = {}
      BY <3>8 DEF seen
    <3>10. /\ result.suggestions = first \o second
           /\ result.skipped_duplicates = ai.skipped_duplicates + paa.skipped_duplicates
           /\ result.skipped_limit = ai.skipped_limit + paa.skipped_limit
      <4> HIDE DEF result
      <4> QED
        BY <3>1 DEF Merged
    <3> HIDE DEF n, first, second, result
    <3>11. /\ Len(first \o second) = m + n
           /\ Range(first \o second) = Range(first) \cup Range(second)
           /\ IsInjective(first \o second)
      BY <3>4, <3>8, <3>9, JoinedIsInjective DEF m, n
    <3>12. Range(result.suggestions) \cap (existing \cup {Blank}) = {}
      <4>1. Range(result.suggestions) = Range(first) \cup Range(second)
        BY <3>10, <3>11
      <4> QED
        BY <3>4, <3>9, <4>1
    <3>13. size + Len(result.suggestions) <= MaxSeedQueryCount
      BY <2>2, <2>4, <3>2, <3>4, <3>6, <3>8, <3>10, <3>11
    <3>14. m + n <= count * (IF both THEN 2 ELSE 1)
      <4>1. CASE both
        BY <3>2, <3>4, <3>8, <4>1
      <4>2. CASE ~ both
        <5>1. ~ draft.use_ai => m = 0
          BY <3>3 DEF m, first
        <5>2. ~ draft.use_paa => n = 0
          BY <3>7 DEF n, second, NoSuggestions
        <5> QED
          BY <2>2, <3>2, <3>4, <3>8, <4>2, <5>1, <5>2
      <4> QED
        BY <4>1, <4>2
    <3>15. ASSUME draft.use_ai, ~ draft.use_paa, ~ draft.ai.failed
           PROVE  Len(result.suggestions) + result.skipped_duplicates + result.skipped_limit
                    = Cardinality(offered)
      <4>1. NonBlank(draft.ai.items, Len(draft.ai.items)) = offered
        BY <2>5, LenProperties DEF NonBlank
      <4>2. n = 0 /\ paa.skipped_duplicates = 0 /\ paa.skipped_limit = 0
        BY <3>7, <3>15 DEF n, second, NoSuggestions
      <4>3. m + ai.skipped_duplicates + ai.skipped_limit
              = Cardinality(NonBlank(draft.ai.items, Len(draft.ai.items)))
        BY <3>3, <3>15 DEF m, first
      <4>4. Cardinality(NonBlank(draft.ai.items, Len(draft.ai.items))) = Cardinality(offered)
        BY <4>1, Zenon
      <4> HIDE DEF offered
      <4> QED
        BY <3>4, <3>10, <3>11, <4>2, <4>3, <4>4
    <3>16. IsInjective(result.suggestions) /\ Len(result.suggestions) = m + n
      BY <3>10, <3>11
    <3> HIDE DEF offered, both, draft, count
    <3> QED
      BY <3>12, <3>13, <3>14, <3>15, <3>16 DEF count
  <2> QED
    BY <2>6, <2>7
<1> QED
  BY <1>1, RulesInvariant, PTL

-----------------------------------------------------------------------------
(* The summary of the runs: coverage, tone and usage.                      *)

\* The runs by outcome, and by query type.
SuccessfulRows(rows) == {i \in DOMAIN rows : Succeeded(rows[i])}
EndedRows(rows) == {i \in DOMAIN rows : rows[i].status # "pending"}
VisibleRows(rows) == {i \in SuccessfulRows(rows) : VisibleBrand(rows[i])}
FailedRows(rows) == EndedRows(rows) \ SuccessfulRows(rows)

TypeOf(rows) == [i \in DOMAIN rows |-> rows[i].query_type]
Types(rows) == {rows[i].query_type : i \in EndedRows(rows)}

OfType(rows, S, t) == Class(S, TypeOf(rows), t)

\* The runs of a report are finitely many.
LEMMA RowsAreFinite ==
  ASSUME NEW rows, IsReport(rows)
  PROVE  /\ Len(rows) \in Nat /\ DOMAIN rows = 1 .. Len(rows)
         /\ IsFiniteSet(DOMAIN rows) /\ Cardinality(DOMAIN rows) = Len(rows)
         /\ \A S \in SUBSET DOMAIN rows : IsFiniteSet(S) /\ Cardinality(S) \in Nat
<1> DEFINE n == Len(rows)
<1>1. n \in Nat /\ DOMAIN rows = 1 .. n
  BY LenProperties DEF IsReport
<1> HIDE DEF n
<1>2. IsFiniteSet(DOMAIN rows) /\ Cardinality(DOMAIN rows) = n
  <2>1. IsFiniteSet(1 .. n) /\ Cardinality(1 .. n) = n
    BY <1>1, FS_Interval
  <2> QED
    BY <1>1, <2>1, Zenon
<1>3. ASSUME NEW S \in SUBSET DOMAIN rows PROVE IsFiniteSet(S) /\ Cardinality(S) \in Nat
  <2>1. IsFiniteSet(S)
    BY <1>2, FS_Subset
  <2> QED
    BY <2>1, FS_CardinalityType
<1> QED
  BY <1>1, <1>2, <1>3 DEF n

\* What the coverage holds of a query type.
LEMMA CoverageFields ==
  ASSUME NEW rows, IsReport(rows)
  PROVE  /\ DOMAIN QueryTypeCoverage(rows) = Types(rows)
         /\ \A t \in Types(rows) :
              LET c == QueryTypeCoverage(rows)[t]
              IN  /\ c.processed_runs = Cardinality(OfType(rows, SuccessfulRows(rows), t))
                  /\ c.failed_runs = Cardinality(OfType(rows, FailedRows(rows), t))
                  /\ c.brand_found_count = Cardinality(OfType(rows, VisibleRows(rows), t))
                  /\ c.average_score = QueryScore(rows, OfType(rows, SuccessfulRows(rows), t))
<1> DEFINE ended == RowsOf(rows, LAMBDA row : row.status # "pending")
           indices(t) == {i \in ended : rows[i].query_type = t}
<1>1. ended = EndedRows(rows)
  BY DEF RowsOf, EndedRows
<1>2. QueryTypeCoverage(rows) = [t \in Types(rows) |-> CoverageOf(rows, indices(t))]
  BY <1>1 DEF QueryTypeCoverage, Types
<1>3. ASSUME NEW t \in Types(rows)
      PROVE  LET c == QueryTypeCoverage(rows)[t]
             IN  /\ c.processed_runs = Cardinality(OfType(rows, SuccessfulRows(rows), t))
                 /\ c.failed_runs = Cardinality(OfType(rows, FailedRows(rows), t))
                 /\ c.brand_found_count = Cardinality(OfType(rows, VisibleRows(rows), t))
                 /\ c.average_score = QueryScore(rows, OfType(rows, SuccessfulRows(rows), t))
  <2> DEFINE I == indices(t)
             S == SuccessfulOfType(rows, I)
             V == {i \in S : VisibleBrand(rows[i])}
  <2>1. QueryTypeCoverage(rows)[t] = CoverageOf(rows, I)
    <3> HIDE DEF indices
    <3> QED
      BY <1>2
  <2>2. I \subseteq DOMAIN rows /\ S \subseteq I
    BY <1>1 DEF EndedRows, SuccessfulOfType
  <2>3. S = OfType(rows, SuccessfulRows(rows), t)
    BY <1>1 DEF OfType, Class, TypeOf, SuccessfulRows, SuccessfulOfType, EndedRows, Succeeded
  <2>4. I \ S = OfType(rows, FailedRows(rows), t)
    BY <1>1 DEF OfType, Class, TypeOf, SuccessfulRows, FailedRows, SuccessfulOfType, EndedRows, Succeeded
  <2>5. V = OfType(rows, VisibleRows(rows), t)
    BY <2>3 DEF OfType, Class, TypeOf, VisibleRows, SuccessfulRows
  <2> HIDE DEF I
  <2>6. Cardinality(I \ S) = Cardinality(I) - Cardinality(S)
    <3>1. IsFiniteSet(I)
      BY <2>2, RowsAreFinite
    <3> HIDE DEF S
    <3> QED
      BY <2>2, <3>1, PartsOfASet
  <2>7. /\ CoverageOf(rows, I).processed_runs = Cardinality(S)
        /\ CoverageOf(rows, I).failed_runs = Cardinality(I) - Cardinality(S)
        /\ CoverageOf(rows, I).brand_found_count = Cardinality(V)
        /\ CoverageOf(rows, I).average_score = QueryScore(rows, S)
    BY DEF CoverageOf
  <2>8. /\ Cardinality(S) = Cardinality(OfType(rows, SuccessfulRows(rows), t))
        /\ Cardinality(I \ S) = Cardinality(OfType(rows, FailedRows(rows), t))
        /\ Cardinality(V) = Cardinality(OfType(rows, VisibleRows(rows), t))
        /\ QueryScore(rows, S) = QueryScore(rows, OfType(rows, SuccessfulRows(rows), t))
    <3> HIDE DEF S, V
    <3> QED
      BY <2>3, <2>4, <2>5, Zenon
  <2> HIDE DEF S, V
  <2> QED
    BY <2>1, <2>6, <2>7, <2>8
<1> QED
  BY <1>2, <1>3

\* the runs of all types are the runs
LEMMA RunsOfTypes ==
  ASSUME NEW rows, IsReport(rows), NEW S \in SUBSET EndedRows(rows), NEW sizes,
         \A t \in Types(rows) : sizes[t] = Cardinality(OfType(rows, S, t))
  PROVE  SumFunctionOnSet(sizes, Types(rows)) = Cardinality(S)
<1>1. IsFiniteSet(S) /\ IsFiniteSet(EndedRows(rows))
  <2>1. S \subseteq DOMAIN rows /\ EndedRows(rows) \subseteq DOMAIN rows
    BY DEF EndedRows
  <2> QED
    BY <2>1, RowsAreFinite
<1>2. IsFiniteSet(Types(rows))
  <2>1. IsFiniteSet({TypeOf(rows)[i] : i \in EndedRows(rows)})
    BY <1>1, FiniteImage
  <2>2. {TypeOf(rows)[i] : i \in EndedRows(rows)} = Types(rows)
    BY DEF Types, TypeOf, EndedRows
  <2> QED
    BY <2>1, <2>2
<1>3. \A i \in S : TypeOf(rows)[i] \in Types(rows)
  BY DEF TypeOf, Types, EndedRows
<1> QED
  BY <1>1, <1>2, <1>3, ElementsOfClasses DEF OfType

\* The coverage by query type adds up to the runs that ended.
LEMMA CoverageAddsUp ==
  ASSUME NEW rows, IsReport(rows)
  PROVE  LET coverage == QueryTypeCoverage(rows)
             pending == Cardinality(RowsOf(rows, LAMBDA row : row.status = "pending"))
             summary == AuditSummary(rows)
         IN  /\ SumFunction([t \in DOMAIN coverage |-> coverage[t].processed_runs]) = summary.successful_runs
             /\ SumFunction([t \in DOMAIN coverage |-> coverage[t].failed_runs]) = summary.failed_runs - pending
             /\ SumFunction([t \in DOMAIN coverage |-> coverage[t].brand_found_count]) = summary.visible_runs
             /\ Cardinality(Diagnosed(rows)) = summary.failed_runs - pending
<1> DEFINE coverage == QueryTypeCoverage(rows)
           waiting == RowsOf(rows, LAMBDA row : row.status = "pending")
           summary == AuditSummary(rows)
           processed == [t \in DOMAIN coverage |-> coverage[t].processed_runs]
           failed == [t \in DOMAIN coverage |-> coverage[t].failed_runs]
           found == [t \in DOMAIN coverage |-> coverage[t].brand_found_count]
           D == DOMAIN rows
<1>1. /\ IsFiniteSet(D) /\ Cardinality(D) = Len(rows) /\ Len(rows) \in Nat
      /\ \A S \in SUBSET D : IsFiniteSet(S) /\ Cardinality(S) \in Nat
  BY RowsAreFinite
<1>2. /\ DOMAIN coverage = Types(rows)
      /\ \A t \in Types(rows) :
           /\ coverage[t].processed_runs = Cardinality(OfType(rows, SuccessfulRows(rows), t))
           /\ coverage[t].failed_runs = Cardinality(OfType(rows, FailedRows(rows), t))
           /\ coverage[t].brand_found_count = Cardinality(OfType(rows, VisibleRows(rows), t))
  BY CoverageFields, Zenon
<1>3. /\ SuccessfulRows(rows) \in SUBSET EndedRows(rows) /\ FailedRows(rows) \in SUBSET EndedRows(rows)
      /\ VisibleRows(rows) \in SUBSET EndedRows(rows)
      /\ EndedRows(rows) \in SUBSET D /\ SuccessfulRows(rows) \in SUBSET D /\ waiting \in SUBSET D
  BY DEF SuccessfulRows, EndedRows, VisibleRows, FailedRows, Succeeded, RowsOf
<1>4. RowsOf(rows, Succeeded) = SuccessfulRows(rows) /\ EndedRows(rows) = D \ waiting
      /\ Diagnosed(rows) = FailedRows(rows)
  BY DEF RowsOf, SuccessfulRows, EndedRows, Diagnosed, FailedRows, Succeeded
<1>5. /\ summary.successful_runs = Cardinality(SuccessfulRows(rows))
      /\ summary.failed_runs = Len(rows) - Cardinality(SuccessfulRows(rows))
      /\ summary.visible_runs = Cardinality(VisibleRows(rows))
  <2> DEFINE S == RowsOf(rows, Succeeded)
  <2>1. /\ summary.successful_runs = Cardinality(S)
        /\ summary.failed_runs = Len(rows) - Cardinality(S)
        /\ summary.visible_runs = Cardinality({i \in S : VisibleBrand(rows[i])})
    BY DEF AuditSummary
  <2> HIDE DEF S, summary
  <2>2. {i \in S : VisibleBrand(rows[i])} = VisibleRows(rows)
    BY <1>4 DEF S, VisibleRows
  <2>3. Cardinality({i \in S : VisibleBrand(rows[i])}) = Cardinality(VisibleRows(rows))
        /\ Cardinality(S) = Cardinality(SuccessfulRows(rows))
    BY <1>4, <2>2, Zenon DEF S
  <2> QED
    BY <2>1, <2>3
<1> HIDE DEF coverage, waiting, summary, D
<1>6. SumFunction(processed) = Cardinality(SuccessfulRows(rows))
  <2>1. \A t \in Types(rows) : processed[t] = Cardinality(OfType(rows, SuccessfulRows(rows), t))
    BY <1>2
  <2>2. DOMAIN processed = Types(rows)
    BY <1>2
  <2> HIDE DEF processed
  <2>3. SumFunctionOnSet(processed, Types(rows)) = Cardinality(SuccessfulRows(rows))
    BY <1>3, <2>1, RunsOfTypes
  <2> QED
    BY <2>2, <2>3, Zenon DEF SumFunction
<1>7. SumFunction(failed) = Cardinality(FailedRows(rows))
  <2>1. \A t \in Types(rows) : failed[t] = Cardinality(OfType(rows, FailedRows(rows), t))
    BY <1>2
  <2>2. DOMAIN failed = Types(rows)
    BY <1>2
  <2> HIDE DEF failed
  <2>3. SumFunctionOnSet(failed, Types(rows)) = Cardinality(FailedRows(rows))
    BY <1>3, <2>1, RunsOfTypes
  <2> QED
    BY <2>2, <2>3, Zenon DEF SumFunction
<1>8. SumFunction(found) = Cardinality(VisibleRows(rows))
  <2>1. \A t \in Types(rows) : found[t] = Cardinality(OfType(rows, VisibleRows(rows), t))
    BY <1>2
  <2>2. DOMAIN found = Types(rows)
    BY <1>2
  <2> HIDE DEF found
  <2>3. SumFunctionOnSet(found, Types(rows)) = Cardinality(VisibleRows(rows))
    BY <1>3, <2>1, RunsOfTypes
  <2> QED
    BY <2>2, <2>3, Zenon DEF SumFunction
<1>9. Cardinality(FailedRows(rows)) = Len(rows) - Cardinality(SuccessfulRows(rows)) - Cardinality(waiting)
  <2>1. Cardinality(FailedRows(rows)) = Cardinality(EndedRows(rows)) - Cardinality(SuccessfulRows(rows))
    <3>1. IsFiniteSet(EndedRows(rows)) /\ SuccessfulRows(rows) \subseteq EndedRows(rows)
      BY <1>1, <1>3
    <3> QED
      BY <3>1, PartsOfASet DEF FailedRows
  <2>2. Cardinality(D \ waiting) = Cardinality(D) - Cardinality(waiting)
    BY <1>1, <1>3, PartsOfASet
  <2>3. Cardinality(EndedRows(rows)) = Cardinality(D \ waiting)
    BY <1>4, Zenon
  <2>4. /\ Cardinality(EndedRows(rows)) \in Nat /\ Cardinality(SuccessfulRows(rows)) \in Nat
        /\ Cardinality(waiting) \in Nat
    BY <1>1, <1>3
  <2> QED
    BY <1>1, <2>1, <2>2, <2>3, <2>4
<1>10. Cardinality(Diagnosed(rows)) = Cardinality(FailedRows(rows))
  BY <1>4, Zenon
<1> HIDE DEF processed, failed, found
<1>11. /\ SumFunction(processed) = summary.successful_runs
       /\ SumFunction(failed) = summary.failed_runs - Cardinality(waiting)
       /\ SumFunction(found) = summary.visible_runs
       /\ Cardinality(Diagnosed(rows)) = summary.failed_runs - Cardinality(waiting)
  BY <1>5, <1>6, <1>7, <1>8, <1>9, <1>10
<1> QED
  BY <1>11, Zenon DEF processed, failed, found, coverage, summary, waiting

Tones == {"positive", "neutral", "negative", "unknown"}

\* Every run has a tone that ToneCounts counts.
LEMMA TonesAreKnown ==
  ASSUME NEW rows, IsReport(rows), NEW i \in DOMAIN rows
  PROVE  ToneOf(rows[i]) \in Tones
<1> DEFINE sentiment == rows[i].parsed.sentiment
           score == ComponentMetrics(rows[i].parsed).sentiment
<1>1. sentiment \in Int
  BY DEF IsReport
<1>2. score = IF sentiment = NoNumber THEN 0 ELSE Clamped((sentiment + 100) \div 2)
  BY DEF ComponentMetrics
<1> HIDE DEF sentiment, score
<1>3. score \in Int
  BY <1>1, <1>2 DEF Clamped
<1>4. ToneLabel(score) \in Tones
  BY <1>3 DEF ToneLabel, Tones
<1> QED
  BY <1>4 DEF ToneOf, Tones, score

\* Every run has one tone.
LEMMA TonesAddUp ==
  ASSUME NEW rows, IsReport(rows)
  PROVE  SumFunction(ToneCounts(rows)) = Len(rows)
<1> DEFINE D == DOMAIN rows
           tone == [i \in D |-> ToneOf(rows[i])]
           counts == ToneCounts(rows)
<1>1. IsFiniteSet(D) /\ Cardinality(D) = Len(rows)
  BY RowsAreFinite
<1>2. \A i \in D : tone[i] \in Tones
  BY TonesAreKnown
<1>3. IsFiniteSet(Tones)
  <2>1. /\ IsFiniteSet({"positive"}) /\ IsFiniteSet({"neutral"})
        /\ IsFiniteSet({"negative"}) /\ IsFiniteSet({"unknown"})
    BY FS_Singleton
  <2>2. IsFiniteSet(({"positive"} \cup {"neutral"}) \cup ({"negative"} \cup {"unknown"}))
    BY <2>1, FS_Union
  <2>3. Tones = ({"positive"} \cup {"neutral"}) \cup ({"negative"} \cup {"unknown"})
    BY DEF Tones
  <2> QED
    BY <2>2, <2>3
<1>4. DOMAIN counts = Tones
  BY DEF ToneCounts, Tones
<1>5. ASSUME NEW t \in Tones PROVE counts[t] = Cardinality(Class(D, tone, t))
  <2>1. counts[t] = Cardinality(RowsOf(rows, LAMBDA row : ToneOf(row) = t))
    BY DEF ToneCounts, Tones
  <2>2. RowsOf(rows, LAMBDA row : ToneOf(row) = t) = Class(D, tone, t)
    BY DEF RowsOf, Class
  <2> QED
    BY <2>1, <2>2, Zenon
<1> HIDE DEF D, tone, counts
<1>6. SumFunctionOnSet(counts, Tones) = Cardinality(D)
  BY <1>1, <1>2, <1>3, <1>5, ElementsOfClasses
<1>7. SumFunction(counts) = SumFunctionOnSet(counts, Tones)
  BY <1>4, Zenon DEF SumFunction
<1> QED
  BY <1>1, <1>6, <1>7 DEF counts

\* The tokens of each run.
TotalOf(rows) == [i \in DOMAIN rows |-> UsageTotals(rows[i].usage).total]

\* The tokens of runs are the sum of the tokens of each.
LEMMA TotalsAreNumbers ==
  ASSUME NEW rows, IsReport(rows)
  PROVE  /\ \A i \in DOMAIN rows : TotalOf(rows)[i] \in Int
         /\ \A S \in SUBSET DOMAIN rows : UsageSum(rows, S).total = SumFunctionOnSet(TotalOf(rows), S)
<1>1. ASSUME NEW i \in DOMAIN rows PROVE TotalOf(rows)[i] \in Int
  <2> DEFINE usage == rows[i].usage
  <2>1. usage.input \in Nat /\ usage.output \in Nat /\ usage.total \in Nat
    BY DEF IsReport
  <2>2. UsageTotals(usage).total \in {usage.total, usage.input + usage.output}
        \/ UsageTotals(usage) = usage
    BY DEF UsageTotals
  <2> HIDE DEF usage
  <2>3. UsageTotals(usage).total \in Int
    BY <2>1, <2>2
  <2> QED
    BY <2>3 DEF TotalOf, usage
<1>2. ASSUME NEW S \in SUBSET DOMAIN rows
      PROVE  UsageSum(rows, S).total = SumFunctionOnSet(TotalOf(rows), S)
  <2> DEFINE g == [i \in S |-> UsageTotals(rows[i].usage).total]
  <2>1. UsageSum(rows, S).total = SumFunction(g)
    BY DEF UsageSum
  <2>2. DOMAIN g = S /\ \A i \in S : g[i] = TotalOf(rows)[i]
    BY DEF TotalOf
  <2> HIDE DEF g
  <2>3. IsFiniteSet(S)
    BY RowsAreFinite
  <2>4. SumFunction(g) = SumFunctionOnSet(TotalOf(rows), S)
    BY <1>1, <2>2, <2>3, SumOfFunction
  <2> QED
    BY <2>1, <2>4
<1> QED
  BY <1>1, <1>2

\* The usage by target adds up to that of the audit.
LEMMA UsageAddsUp ==
  ASSUME NEW rows, IsReport(rows)
  PROVE  LET usage == UsageByTarget(rows)
         IN  SumFunction([k \in DOMAIN usage |-> usage[k].total]) = UsageSum(rows, DOMAIN rows).total
<1> DEFINE usage == UsageByTarget(rows)
           D == DOMAIN rows
           key == [i \in D |-> UsageKey(rows[i])]
           K == {key[i] : i \in D}
           totals == [k \in DOMAIN usage |-> usage[k].total]
<1>1. IsFiniteSet(D) /\ \A S \in SUBSET D : IsFiniteSet(S)
  BY RowsAreFinite
<1>2. IsFiniteSet(K)
  <2> HIDE DEF D, key
  <2> QED
    BY <1>1, FiniteImage
<1>3. usage = [k \in K |-> UsageSum(rows, RowsOf(rows, LAMBDA row : UsageKey(row) = k))]
  BY DEF UsageByTarget
<1>4. ASSUME NEW k \in K PROVE totals[k] = SumFunctionOnSet(TotalOf(rows), Class(D, key, k))
  <2> DEFINE S == RowsOf(rows, LAMBDA row : UsageKey(row) = k)
  <2>1. usage[k] = UsageSum(rows, S) /\ totals[k] = usage[k].total
    <3> HIDE DEF usage, K
    <3> QED
      BY <1>3
  <2>2. S = Class(D, key, k) /\ S \in SUBSET DOMAIN rows
    BY DEF RowsOf, Class
  <2> HIDE DEF S, totals, usage, key, K, D
  <2>3. UsageSum(rows, S).total = SumFunctionOnSet(TotalOf(rows), S)
    BY <2>2, TotalsAreNumbers
  <2> QED
    BY <2>1, <2>2, <2>3, Zenon
<1>5. DOMAIN totals = K
  <2> HIDE DEF usage, K
  <2> QED
    BY <1>3
<1>6. \A i \in D : key[i] \in K
  OBVIOUS
<1>7. \A i \in D : TotalOf(rows)[i] \in Int
  BY TotalsAreNumbers
<1>8. UsageSum(rows, D).total = SumFunctionOnSet(TotalOf(rows), D)
  BY TotalsAreNumbers
<1> HIDE DEF usage, D, key, K, totals
<1>9. SumFunctionOnSet(totals, K) = SumFunctionOnSet(TotalOf(rows), D)
  BY <1>1, <1>2, <1>4, <1>6, <1>7, SumOverClasses
<1>10. SumFunction(totals) = SumFunctionOnSet(totals, K)
  BY <1>5, Zenon DEF SumFunction
<1>11. SumFunction(totals) = UsageSum(rows, D).total
  BY <1>8, <1>9, <1>10
<1> QED
  BY <1>11, Zenon DEF totals, usage, D

-----------------------------------------------------------------------------
(* The scores of an audit, of its query types and of its queries.          *)

\* The weighted mean of parts lies between the means of the parts, also rounded.
LEMMA RoundedMean ==
  ASSUME NEW K, IsFiniteSet(K), K # {}, NEW a, NEW n, NEW w,
         \A t \in K : a[t] \in Int /\ n[t] \in Nat \ {0} /\ w[t] \in Nat \ {0},
         NEW wa, NEW wn, \A t \in K : wa[t] = w[t] * a[t] /\ wn[t] = w[t] * n[t]
  PROVE  LET mean == Rounded(SumFunctionOnSet(wa, K), SumFunctionOnSet(wn, K))
         IN  /\ mean \in Int
             /\ \A q \in Int : (\A t \in K : q <= Rounded(a[t], n[t])) => q <= mean
             /\ \A q \in Int : (\A t \in K : Rounded(a[t], n[t]) <= q) => mean <= q
<1> DEFINE WA == SumFunctionOnSet(wa, K)
           WN == SumFunctionOnSet(wn, K)
           zero == [t \in K |-> 0 * wn[t]]
           twice == [t \in K |-> 2 * wa[t]]
           right == [t \in K |-> twice[t] + wn[t]]
<1>1. \A t \in K : wa[t] \in Int /\ wn[t] \in Nat \ {0} /\ zero[t] \in Int /\ zero[t] < wn[t]
  <2> TAKE t \in K
  <2> DEFINE A == a[t]
             N == n[t]
             W == w[t]
  <2>1. A \in Int /\ N \in Nat \ {0} /\ W \in Nat \ {0}
    OBVIOUS
  <2> HIDE DEF A, N, W
  <2>2. W * A \in Int /\ W * 0 < W * N /\ W * 0 = 0 /\ W * N \in Int
    BY <2>1, MultiplyBoth
  <2>3. wa[t] = W * A /\ wn[t] = W * N /\ zero[t] = 0 * (W * N)
    BY DEF A, N, W
  <2> HIDE DEF zero
  <2> QED
    BY <2>2, <2>3
<1>2. WA \in Int /\ WN \in Int
  BY <1>1, SumStep
<1>3. SumFunctionOnSet(zero, K) = 0 * WN
  <2>1. \A t \in K : wn[t] \in Int /\ zero[t] = 0 * wn[t]
    BY <1>1
  <2> HIDE DEF zero
  <2> QED
    BY <2>1, SumOfMultiples
<1>4. WN \in Nat \ {0}
  <2>1. \A t \in K : zero[t] \in Int /\ wn[t] \in Int /\ zero[t] < wn[t]
    BY <1>1
  <2> HIDE DEF zero
  <2>2. SumFunctionOnSet(zero, K) < SumFunctionOnSet(wn, K)
    BY <2>1, SumsCompared
  <2> QED
    BY <1>2, <1>3, <2>2
<1>5. SumFunctionOnSet(twice, K) = 2 * WA
  <2>1. \A t \in K : wa[t] \in Int /\ twice[t] = 2 * wa[t]
    BY <1>1
  <2> HIDE DEF twice
  <2> QED
    BY <2>1, SumOfMultiples
<1>6. SumFunctionOnSet(right, K) = 2 * WA + WN
  <2>1. \A t \in K : twice[t] \in Int /\ wn[t] \in Int /\ right[t] = twice[t] + wn[t]
    BY <1>1
  <2> HIDE DEF twice, right
  <2>2. SumFunctionOnSet(right, K) = SumFunctionOnSet(twice, K) + SumFunctionOnSet(wn, K)
    BY <2>1, SumOfSums
  <2> QED
    BY <1>5, <2>2
<1>7. ASSUME NEW t \in K
      PROVE  /\ right[t] \in Int
             /\ Rounded(a[t], n[t]) \in Int
             /\ \A q \in Int : q <= Rounded(a[t], n[t]) => (2 * q) * wn[t] <= right[t]
             /\ \A q \in Int : ~ (q <= Rounded(a[t], n[t])) => right[t] < (2 * q) * wn[t]
  <2> DEFINE A == a[t]
             N == n[t]
             W == w[t]
             sum == 2 * A + N
  <2>1. A \in Int /\ N \in Nat \ {0} /\ W \in Nat \ {0}
    BY <1>7
  <2> HIDE DEF A, N, W
  <2>2. /\ Rounded(A, N) \in Int
        /\ \A q \in Int : q <= Rounded(A, N) <=> 2 * (q * N) <= 2 * A + N
    BY <2>1, RoundedIs
  <2>3. right[t] = W * sum
    <3>1. right[t] = 2 * (W * A) + W * N
      BY DEF A, N, W
    <3>2. W * sum = 2 * (W * A) + W * N
      BY <2>1
    <3> QED
      BY <3>1, <3>2
  <2>4. sum \in Int /\ right[t] \in Int
    <3>1. sum \in Int
      BY <2>1
    <3> HIDE DEF sum, right
    <3>2. W * sum \in Int
      BY <2>1, <3>1
    <3> QED
      BY <2>3, <3>1, <3>2
  <2>5. ASSUME NEW q \in Int
        PROVE  /\ 2 * (q * N) <= sum => (2 * q) * wn[t] <= W * sum
               /\ sum < 2 * (q * N) => W * sum < (2 * q) * wn[t]
    <3> DEFINE p == 2 * (q * N)
    <3>1. p \in Int
      BY <2>1
    <3>2. W * p = (2 * q) * (W * N)
      BY <2>1
    <3>3. wn[t] = W * N
      BY DEF N, W
    <3> HIDE DEF p, sum
    <3>4. /\ p <= sum => W * p <= W * sum
          /\ sum < p => W * sum < W * p
      BY <2>1, <2>4, <3>1, MultiplyBoth
    <3> QED
      BY <3>2, <3>3, <3>4 DEF p
  <2>6. ASSUME NEW q \in Int
        PROVE  /\ q <= Rounded(A, N) => (2 * q) * wn[t] <= W * sum
               /\ ~ (q <= Rounded(A, N)) => W * sum < (2 * q) * wn[t]
    <3> DEFINE p == 2 * (q * N)
               L == (2 * q) * wn[t]
               R == W * sum
               low == q <= Rounded(A, N)
    <3>1. p \in Int
      BY <2>1
    <3>2. /\ p <= sum => L <= R
          /\ sum < p => R < L
      BY <2>5
    <3>3. low <=> p <= sum
      BY <2>2
    <3> HIDE DEF p, L, R, sum, low
    <3>4. /\ low => L <= R
          /\ ~ low => R < L
      BY <2>4, <3>1, <3>2, <3>3
    <3> QED
      BY <3>4 DEF L, R, low
  <2> HIDE DEF right, sum
  <2> QED
    BY <2>2, <2>3, <2>4, <2>6 DEF A, N
<1>8. ASSUME NEW q \in Int
      PROVE  /\ (\A t \in K : q <= Rounded(a[t], n[t])) => 2 * (q * WN) <= 2 * WA + WN
             /\ (\A t \in K : ~ (q <= Rounded(a[t], n[t]))) => 2 * WA + WN < 2 * (q * WN)
  <2> DEFINE p == 2 * q
             left == [t \in K |-> p * wn[t]]
  <2>1. p \in Int
    OBVIOUS
  <2>2. \A t \in K : wn[t] \in Int /\ left[t] = p * wn[t]
    BY <1>1
  <2>3. \A t \in K : left[t] \in Int
    <3> TAKE t \in K
    <3> HIDE DEF p
    <3>1. wn[t] \in Int
      BY <1>1
    <3>2. p * wn[t] \in Int
      BY <2>1, <3>1
    <3> QED
      BY <3>2
  <2>4. /\ \A t \in K : right[t] \in Int
        /\ (\A t \in K : q <= Rounded(a[t], n[t])) => \A t \in K : left[t] <= right[t]
        /\ (\A t \in K : ~ (q <= Rounded(a[t], n[t]))) => \A t \in K : right[t] < left[t]
    <3> HIDE DEF right
    <3> QED
      BY <1>7
  <2> HIDE DEF p, left, right
  <2>5. SumFunctionOnSet(left, K) = p * WN
    BY <2>1, <2>2, SumOfMultiples
  <2>6. /\ (\A t \in K : left[t] <= right[t]) => SumFunctionOnSet(left, K) <= SumFunctionOnSet(right, K)
        /\ (\A t \in K : right[t] < left[t]) => SumFunctionOnSet(right, K) < SumFunctionOnSet(left, K)
    BY <2>3, <2>4, SumsCompared
  <2>7. p * WN = 2 * (q * WN)
    BY <1>2 DEF p
  <2> HIDE DEF WN, WA
  <2> QED
    BY <1>6, <2>4, <2>5, <2>6, <2>7
<1> DEFINE mean == Rounded(WA, WN)
<1> HIDE DEF WA, WN
<1>9. mean \in Int /\ \A q \in Int : q <= mean <=> 2 * (q * WN) <= 2 * WA + WN
  BY <1>2, <1>4, RoundedIs
<1> HIDE DEF mean
<1>10. ASSUME NEW q \in Int, \A t \in K : q <= Rounded(a[t], n[t]) PROVE q <= mean
  BY <1>8, <1>9, <1>10
<1>11. ASSUME NEW q \in Int, \A t \in K : Rounded(a[t], n[t]) <= q PROVE mean <= q
  <2> DEFINE p == q + 1
  <2>1. p \in Int
    OBVIOUS
  <2>2. \A t \in K : ~ (p <= Rounded(a[t], n[t]))
    BY <1>7, <1>11
  <2> HIDE DEF p
  <2>3. 2 * WA + WN < 2 * (p * WN)
    BY <1>8, <2>1, <2>2
  <2>4. ~ (p <= mean)
    <3> DEFINE L == 2 * (p * WN)
               R == 2 * WA + WN
    <3>1. R < L /\ L \in Int /\ R \in Int
      BY <1>2, <2>1, <2>3
    <3>2. p <= mean <=> L <= R
      BY <1>9, <2>1
    <3> HIDE DEF L, R
    <3> QED
      BY <3>1, <3>2
  <2> QED
    BY <1>9, <2>4 DEF p
<1> QED
  BY <1>9, <1>10, <1>11 DEF mean, WA, WN

\* The score and the weight of each run.
ScoreOf(rows) == [i \in DOMAIN rows |-> FinalScoreOf(rows[i])]
WeightOf(rows) == [i \in DOMAIN rows |-> QueryTypeWeight(rows[i].query_type)]
WeightedScoreOf(rows) == [i \in DOMAIN rows |-> ScoreOf(rows)[i] * WeightOf(rows)[i]]

\* The successful runs of a type, and the types that have some.
SuccessesOf(rows, t) == OfType(rows, SuccessfulRows(rows), t)
ScoredTypes(rows) == {t \in Types(rows) : SuccessesOf(rows, t) # {}}

\* The score of a run is a number.
LEMMA ScoresAreNumbers ==
  ASSUME NEW rows, IsReport(rows), NEW i \in DOMAIN rows
  PROVE  FinalScoreOf(rows[i]) \in Int
<1> DEFINE parsed == rows[i].parsed
           c == ComponentMetrics(parsed)
<1>1. /\ parsed.prominence \in Int /\ parsed.sentiment \in Int
      /\ parsed.recommendation \in Int /\ parsed.source_quality \in Int
  BY DEF IsReport
<1> HIDE DEF parsed
<1>2. \A x \in Int : Clamped(x) \in Int /\ Component(x) \in Int
  BY DEF Clamped, Component
<1>3. /\ c.visibility = IF parsed.visible THEN 100 ELSE 0
      /\ c.prominence = Component(parsed.prominence)
      /\ c.sentiment = IF parsed.sentiment = NoNumber THEN 0
                       ELSE Clamped((parsed.sentiment + 100) \div 2)
      /\ c.recommendation = Component(parsed.recommendation)
      /\ c.source_quality = Component(parsed.source_quality)
  BY DEF ComponentMetrics
<1> HIDE DEF c
<1>4. /\ c.visibility \in Int /\ c.prominence \in Int /\ c.sentiment \in Int
      /\ c.recommendation \in Int /\ c.source_quality \in Int
  <2>1. (parsed.sentiment + 100) \div 2 \in Int
    BY <1>1
  <2> QED
    BY <1>1, <1>2, <1>3, <2>1
<1>5. FinalScore(c) \in Int
  BY <1>4 DEF FinalScore
<1>6. Score(parsed) \in Int
  BY <1>5 DEF Score, c
<1> QED
  BY <1>6 DEF FinalScoreOf, parsed

\* Every query type, known or not, has a positive weight.
LEMMA WeightsAreNumbers ==
  ASSUME NEW t
  PROVE  QueryTypeWeight(t) \in Nat \ {0}
BY DEF QueryTypeWeight

\* The average of successful runs is the rounded mean of their scores.
LEMMA ScoreOfSuccesses ==
  ASSUME NEW rows, IsReport(rows), NEW S \in SUBSET SuccessfulRows(rows), S # {}
  PROVE  /\ SumFunctionOnSet(ScoreOf(rows), S) \in Int /\ Cardinality(S) \in Nat \ {0}
         /\ QueryScore(rows, S) = Rounded(SumFunctionOnSet(ScoreOf(rows), S), Cardinality(S))
<1> DEFINE f == [i \in S |-> FinalScoreOf(rows[i])]
           n == Cardinality(S)
<1>1. IsFiniteSet(S) /\ n \in Nat \ {0}
  <2>1. S \subseteq DOMAIN rows
    BY DEF SuccessfulRows
  <2>2. IsFiniteSet(S) /\ n \in Nat
    BY <2>1, RowsAreFinite
  <2> QED
    BY <2>2, FS_EmptySet
<1>2. {i \in S : Succeeded(rows[i])} = S
  BY DEF SuccessfulRows
<1>3. QueryScore(rows, S) = Rounded(SumFunction(f), n)
  BY <1>2, Zenon DEF QueryScore
<1>4. \A i \in S : ScoreOf(rows)[i] \in Int /\ f[i] = ScoreOf(rows)[i]
  BY ScoresAreNumbers DEF ScoreOf, SuccessfulRows
<1>5. DOMAIN f = S
  OBVIOUS
<1> HIDE DEF f
<1>6. SumFunction(f) = SumFunctionOnSet(ScoreOf(rows), S) /\ SumFunction(f) \in Int
  BY <1>1, <1>4, <1>5, SumOfFunction
<1> QED
  BY <1>1, <1>3, <1>6

\* The weighted score of an audit is a rounded mean with the weights of the types.
LEMMA WeightedScoreOfSuccesses ==
  ASSUME NEW rows, IsReport(rows), SuccessfulRows(rows) # {}
  PROVE  /\ \A i \in SuccessfulRows(rows) :
              WeightedScoreOf(rows)[i] \in Int /\ WeightOf(rows)[i] \in Int
         /\ WeightedVisibilityScore(rows)
              = Rounded(SumFunctionOnSet(WeightedScoreOf(rows), SuccessfulRows(rows)),
                        SumFunctionOnSet(WeightOf(rows), SuccessfulRows(rows)))
<1> DEFINE S == SuccessfulRows(rows)
           f == [i \in S |-> FinalScoreOf(rows[i]) * QueryTypeWeight(rows[i].query_type)]
           g == [i \in S |-> QueryTypeWeight(rows[i].query_type)]
<1>1. RowsOf(rows, Succeeded) = S
  BY DEF RowsOf, SuccessfulRows
<1>2. IsFiniteSet(S) /\ S \subseteq DOMAIN rows
  <2>1. S \subseteq DOMAIN rows
    BY DEF SuccessfulRows
  <2> QED
    BY <2>1, RowsAreFinite
<1> HIDE DEF S
<1>3. WeightedVisibilityScore(rows) = Rounded(SumFunction(f), SumFunction(g))
  BY <1>1, Zenon DEF WeightedVisibilityScore, S
<1>4. ASSUME NEW i \in S
      PROVE  /\ f[i] = WeightedScoreOf(rows)[i] /\ g[i] = WeightOf(rows)[i]
             /\ WeightedScoreOf(rows)[i] \in Int /\ WeightOf(rows)[i] \in Int
  <2> DEFINE x == FinalScoreOf(rows[i])
             y == QueryTypeWeight(rows[i].query_type)
  <2>1. i \in DOMAIN rows
    BY <1>2
  <2>2. x \in Int /\ y \in Int
    BY <2>1, ScoresAreNumbers, WeightsAreNumbers
  <2>3. f[i] = x * y /\ g[i] = y
    OBVIOUS
  <2>4. WeightedScoreOf(rows)[i] = x * y /\ WeightOf(rows)[i] = y
    BY <2>1 DEF WeightedScoreOf, WeightOf, ScoreOf
  <2> HIDE DEF x, y, f, g
  <2>5. x * y \in Int
    BY <2>2
  <2> QED
    BY <2>2, <2>3, <2>4, <2>5
<1>5. DOMAIN f = S /\ DOMAIN g = S
  OBVIOUS
<1> HIDE DEF f, g
<1>6. SumFunction(f) = SumFunctionOnSet(WeightedScoreOf(rows), S)
  BY <1>2, <1>4, <1>5, SumOfFunction
<1>7. SumFunction(g) = SumFunctionOnSet(WeightOf(rows), S)
  BY <1>2, <1>4, <1>5, SumOfFunction
<1> QED
  BY <1>3, <1>4, <1>6, <1>7 DEF S

\* The weighted score lies between the averages of the query types.
LEMMA WeightedScoreIsBetween ==
  ASSUME NEW rows, IsReport(rows), ScoredTypes(rows) # {}
  PROVE  LET averages == {QueryScore(rows, SuccessesOf(rows, t)) : t \in ScoredTypes(rows)}
         IN  /\ WeightedVisibilityScore(rows) >= Min(averages)
             /\ WeightedVisibilityScore(rows) <= Max(averages)
<1> DEFINE K == ScoredTypes(rows)
           S == SuccessfulRows(rows)
           key == TypeOf(rows)
           a == [t \in K |-> SumFunctionOnSet(ScoreOf(rows), SuccessesOf(rows, t))]
           n == [t \in K |-> Cardinality(SuccessesOf(rows, t))]
           w == [t \in K |-> QueryTypeWeight(t)]
           wa == [t \in K |-> SumFunctionOnSet(WeightedScoreOf(rows), SuccessesOf(rows, t))]
           wn == [t \in K |-> SumFunctionOnSet(WeightOf(rows), SuccessesOf(rows, t))]
           averages == {QueryScore(rows, SuccessesOf(rows, t)) : t \in K}
           mean == WeightedVisibilityScore(rows)
<1>1. /\ S # {} /\ IsFiniteSet(S) /\ S \subseteq DOMAIN rows
      /\ \A t \in K : /\ SuccessesOf(rows, t) = Class(S, key, t) /\ SuccessesOf(rows, t) \in SUBSET S
                      /\ SuccessesOf(rows, t) # {} /\ IsFiniteSet(SuccessesOf(rows, t))
  <2>1. S \subseteq DOMAIN rows
    BY DEF SuccessfulRows
  <2>2. IsFiniteSet(S)
    BY <2>1, RowsAreFinite
  <2>3. \A t \in K : /\ SuccessesOf(rows, t) = Class(S, key, t) /\ SuccessesOf(rows, t) \in SUBSET S
                     /\ SuccessesOf(rows, t) # {}
    BY DEF ScoredTypes, SuccessesOf, OfType, Class
  <2>4. \A t \in K : IsFiniteSet(SuccessesOf(rows, t))
    BY <2>2, <2>3, FS_Subset
  <2> QED
    BY <2>1, <2>2, <2>3, <2>4
<1>2. \A i \in S : key[i] \in K
  <2> TAKE i \in S
  <2>1. i \in DOMAIN rows /\ key[i] = rows[i].query_type /\ i \in EndedRows(rows)
    BY DEF SuccessfulRows, EndedRows, TypeOf, Succeeded
  <2>2. key[i] \in Types(rows)
    BY <2>1 DEF Types
  <2>3. i \in SuccessesOf(rows, key[i])
    BY DEF SuccessesOf, OfType, Class
  <2> QED
    BY <2>2, <2>3 DEF ScoredTypes
<1>3. IsFiniteSet(K) /\ K # {}
  <2>1. IsFiniteSet({key[i] : i \in S})
    BY <1>1, FiniteImage
  <2>2. K \subseteq {key[i] : i \in S}
    BY <1>1 DEF Class
  <2> QED
    BY <2>1, <2>2, FS_Subset
<1>4. \A t \in K : /\ a[t] \in Int /\ n[t] \in Nat \ {0}
                   /\ QueryScore(rows, SuccessesOf(rows, t)) = Rounded(a[t], n[t])
  <2> TAKE t \in K
  <2>1. SuccessesOf(rows, t) \in SUBSET SuccessfulRows(rows) /\ SuccessesOf(rows, t) # {}
    BY <1>1
  <2>2. a[t] = SumFunctionOnSet(ScoreOf(rows), SuccessesOf(rows, t))
        /\ n[t] = Cardinality(SuccessesOf(rows, t))
    OBVIOUS
  <2> HIDE DEF a, n
  <2> QED
    BY <2>1, <2>2, ScoreOfSuccesses
<1>5. \A t \in K : w[t] \in Nat \ {0} /\ w[t] = QueryTypeWeight(t)
  BY WeightsAreNumbers
<1>6. ASSUME NEW t \in K PROVE wa[t] = w[t] * a[t] /\ wn[t] = w[t] * n[t]
  <2> DEFINE C == SuccessesOf(rows, t)
             W == w[t]
             one == [i \in C |-> 1]
  <2>1. IsFiniteSet(C) /\ C \subseteq DOMAIN rows /\ \A i \in C : rows[i].query_type = t
    BY <1>1 DEF Class, TypeOf
  <2>2. W \in Int /\ W = QueryTypeWeight(t)
    BY <1>5
  <2>3. wa[t] = SumFunctionOnSet(WeightedScoreOf(rows), C) /\ a[t] = SumFunctionOnSet(ScoreOf(rows), C)
        /\ wn[t] = SumFunctionOnSet(WeightOf(rows), C) /\ n[t] = Cardinality(C)
    OBVIOUS
  <2> HIDE DEF C, W, wa, wn, a, n, w
  <2>4. \A i \in C : /\ ScoreOf(rows)[i] \in Int /\ one[i] = 1 /\ one[i] \in Int
                     /\ WeightOf(rows)[i] = W * one[i]
                     /\ WeightedScoreOf(rows)[i] = W * ScoreOf(rows)[i]
    <3> TAKE i \in C
    <3>1. i \in DOMAIN rows /\ rows[i].query_type = t
      BY <2>1
    <3>2. ScoreOf(rows)[i] \in Int
      BY <3>1, ScoresAreNumbers DEF ScoreOf
    <3>3. WeightOf(rows)[i] = W
      BY <2>2, <3>1 DEF WeightOf
    <3>4. WeightedScoreOf(rows)[i] = ScoreOf(rows)[i] * W
      BY <3>1, <3>3 DEF WeightedScoreOf
    <3> QED
      BY <2>2, <3>2, <3>3, <3>4
  <2> HIDE DEF one
  <2>5. SumFunctionOnSet(WeightedScoreOf(rows), C) = W * SumFunctionOnSet(ScoreOf(rows), C)
    BY <2>1, <2>2, <2>4, SumOfMultiples
  <2>6. SumFunctionOnSet(WeightOf(rows), C) = W * SumFunctionOnSet(one, C)
    BY <2>1, <2>2, <2>4, SumOfMultiples
  <2>7. SumFunctionOnSet(one, C) = Cardinality(C)
    BY <2>1, <2>4, SumOfOnes
  <2> QED
    BY <2>3, <2>5, <2>6, <2>7, Zenon DEF W
<1>7. mean = Rounded(SumFunctionOnSet(WeightedScoreOf(rows), S), SumFunctionOnSet(WeightOf(rows), S))
      /\ \A i \in S : WeightedScoreOf(rows)[i] \in Int /\ WeightOf(rows)[i] \in Int
  BY <1>1, WeightedScoreOfSuccesses
<1>8. \A t \in K : /\ wa[t] = SumFunctionOnSet(WeightedScoreOf(rows), Class(S, key, t))
                   /\ wn[t] = SumFunctionOnSet(WeightOf(rows), Class(S, key, t))
  <2> TAKE t \in K
  <2>1. SuccessesOf(rows, t) = Class(S, key, t)
    BY <1>1
  <2>2. wa[t] = SumFunctionOnSet(WeightedScoreOf(rows), SuccessesOf(rows, t))
        /\ wn[t] = SumFunctionOnSet(WeightOf(rows), SuccessesOf(rows, t))
    OBVIOUS
  <2> HIDE DEF wa, wn, S, key
  <2> QED
    BY <2>1, <2>2, Zenon
<1>9. \A t \in K : QueryScore(rows, SuccessesOf(rows, t)) \in averages
  OBVIOUS
<1>10. \A x \in averages : \E t \in K : x = QueryScore(rows, SuccessesOf(rows, t))
  OBVIOUS
<1>11. IsFiniteSet(averages)
  <2> DEFINE score == [t \in K |-> QueryScore(rows, SuccessesOf(rows, t))]
  <2>1. IsFiniteSet({score[t] : t \in K})
    BY <1>3, FiniteImage
  <2>2. {score[t] : t \in K} = averages
    OBVIOUS
  <2> QED
    BY <2>1, <2>2
<1> HIDE DEF K, S, key, a, n, w, wa, wn, averages, mean
<1>12. SumFunctionOnSet(wa, K) = SumFunctionOnSet(WeightedScoreOf(rows), S)
  <2> DEFINE f == WeightedScoreOf(rows)
  <2>1. \A i \in S : f[i] \in Int
    BY <1>7
  <2>2. \A t \in K : wa[t] = SumFunctionOnSet(f, Class(S, key, t))
    BY <1>8
  <2> HIDE DEF f
  <2>3. SumFunctionOnSet(wa, K) = SumFunctionOnSet(f, S)
    BY <1>1, <1>2, <1>3, <2>1, <2>2, SumOverClasses
  <2> QED
    BY <2>3 DEF f
<1>13. SumFunctionOnSet(wn, K) = SumFunctionOnSet(WeightOf(rows), S)
  <2> DEFINE f == WeightOf(rows)
  <2>1. \A i \in S : f[i] \in Int
    BY <1>7
  <2>2. \A t \in K : wn[t] = SumFunctionOnSet(f, Class(S, key, t))
    BY <1>8
  <2> HIDE DEF f
  <2>3. SumFunctionOnSet(wn, K) = SumFunctionOnSet(f, S)
    BY <1>1, <1>2, <1>3, <2>1, <2>2, SumOverClasses
  <2> QED
    BY <2>3 DEF f
<1>14. mean = Rounded(SumFunctionOnSet(wa, K), SumFunctionOnSet(wn, K))
  BY <1>7, <1>12, <1>13, Zenon
<1>15. /\ \A q \in Int : (\A t \in K : q <= Rounded(a[t], n[t])) => q <= mean
       /\ \A q \in Int : (\A t \in K : Rounded(a[t], n[t]) <= q) => mean <= q
       /\ mean \in Int
  BY <1>3, <1>4, <1>5, <1>6, <1>14, RoundedMean
<1>16. \A t \in K : Rounded(a[t], n[t]) \in Int
  BY <1>4, RoundedIs
<1>17. averages \subseteq Int /\ averages # {}
  BY <1>3, <1>4, <1>9, <1>10, <1>16
<1>18. /\ Min(averages) \in averages /\ \A x \in averages : Min(averages) <= x
       /\ Max(averages) \in averages /\ \A x \in averages : x <= Max(averages)
  BY <1>11, <1>17, FiniteBounds
<1>19. /\ \A t \in K : Min(averages) <= Rounded(a[t], n[t])
       /\ \A t \in K : Rounded(a[t], n[t]) <= Max(averages)
       /\ Min(averages) \in Int /\ Max(averages) \in Int
  BY <1>4, <1>9, <1>17, <1>18
<1>20. Min(averages) <= mean /\ mean <= Max(averages)
  BY <1>15, <1>19
<1>21. mean >= Min(averages) /\ mean <= Max(averages)
  BY <1>15, <1>19, <1>20
<1> QED
  BY <1>21 DEF mean, averages, K

\* A query whose runs are all successful and score well is not critical.
LEMMA GoodQueriesAreNotCritical ==
  ASSUME NEW rows, IsReport(rows),
         \A i \in DOMAIN rows : Succeeded(rows[i]) /\ FinalScoreOf(rows[i]) >= CriticalScoreThreshold,
         \A i \in DOMAIN rows : FinalScoreOf(rows[i]) \in Int
  PROVE  AuditSummary(rows).critical_query_count = 0
<1>1. ASSUME NEW query \in {rows[i].query : i \in DOMAIN rows} PROVE Criticality(rows, query) = "none"
  <2> DEFINE I == RowsOf(rows, LAMBDA row : row.query = query)
             score == QueryScore(rows, I)
             f == [i \in I |-> FinalScoreOf(rows[i])]
             g == [i \in I |-> CriticalScoreThreshold]
             one == [i \in I |-> 1]
             n == Cardinality(I)
  <2>1. I \in SUBSET DOMAIN rows /\ I # {}
    BY DEF RowsOf
  <2>2. IsFiniteSet(I) /\ n \in Nat \ {0}
    <3>1. IsFiniteSet(I) /\ n \in Nat
      BY <2>1, RowsAreFinite
    <3> HIDE DEF I
    <3> QED
      BY <2>1, <3>1, FS_EmptySet
  <2>3. {i \in I : Succeeded(rows[i])} = I
    BY <2>1
  <2>4. score = Rounded(SumFunction(f), n)
    <3> HIDE DEF I
    <3> QED
      BY <2>1, <2>3, Zenon DEF QueryScore
  <2> HIDE DEF I
  <2>16. \A i \in I : FinalScoreOf(rows[i]) \in Int /\ FinalScoreOf(rows[i]) >= 3000
    BY <2>1 DEF CriticalScoreThreshold
  <2>5. \A i \in I : VisibleBrand(rows[i])
    <3> TAKE i \in I
    <3>1. FinalScoreOf(rows[i]) >= 3000
      BY <2>16
    <3>2. ~ VisibleBrand(rows[i]) => FinalScoreOf(rows[i]) = 0
      BY DEF FinalScoreOf, VisibleBrand, Score
    <3> QED
      BY <3>1, <3>2
  <2>6. \A i \in I : f[i] \in Int /\ f[i] >= 3000 /\ g[i] = 3000 * one[i] /\ one[i] = 1 /\ g[i] \in Int
    BY <2>16 DEF CriticalScoreThreshold
  <2>7. DOMAIN f = I
    OBVIOUS
  <2> HIDE DEF f, g, one
  <2>8. SumFunctionOnSet(one, I) = n
    BY <2>2, <2>6, SumOfOnes
  <2>9. SumFunctionOnSet(g, I) = 3000 * SumFunctionOnSet(one, I)
    <3>1. \A i \in I : one[i] \in Int /\ g[i] = 3000 * one[i]
      BY <2>6
    <3> QED
      BY <2>2, <3>1, SumOfMultiples
  <2>10. SumFunctionOnSet(g, I) <= SumFunctionOnSet(f, I)
    BY <2>2, <2>6, SumsCompared
  <2>11. SumFunction(f) \in Int /\ SumFunction(f) = SumFunctionOnSet(f, I)
    BY <2>2, <2>6, <2>7, SumOfFunction
  <2>12. 3000 * n <= SumFunction(f)
    BY <2>8, <2>9, <2>10, <2>11
  <2> HIDE DEF n, score
  <2>13. score \in Int /\ 3000 <= score
    <3>1. /\ Rounded(SumFunction(f), n) \in Int
          /\ \A q \in Int : q <= Rounded(SumFunction(f), n) <=> 2 * (q * n) <= 2 * SumFunction(f) + n
      BY <2>2, <2>11, RoundedIs
    <3>2. 2 * (3000 * n) <= 2 * SumFunction(f) + n
      BY <2>2, <2>11, <2>12
    <3> QED
      BY <2>4, <3>1, <3>2
  <2>14. score # NoScore /\ ~ (score < CriticalScoreThreshold)
    BY <2>13 DEF NoScore, CriticalScoreThreshold
  <2>15. /\ ~ \A i \in I : ~ VisibleBrand(rows[i])
         /\ ~ \E i \in I : VisibleBrand(rows[i]) /\ score = NoScore
         /\ ~ (/\ \E i \in I : VisibleBrand(rows[i])
               /\ score # NoScore /\ score < CriticalScoreThreshold)
    BY <2>1, <2>5, <2>14
  <2> QED
    BY <2>15, Zenon DEF Criticality, I, score
<1>2. CriticalQueries(rows) = {}
  BY <1>1 DEF CriticalQueries
<1>3. AuditSummary(rows).critical_query_count = Cardinality(CriticalQueries(rows))
  BY DEF AuditSummary
<1>4. Cardinality(CriticalQueries(rows)) = 0
  BY <1>2, FS_EmptySet, Zenon
<1> QED
  BY <1>3, <1>4

\* Whatever the runs of an audit are, the breakdowns by query type, tone and target
\* add up to the totals of the summary, every failed run has its diagnostic, the
\* weighted score lies between the averages of the types, and a query whose runs all
\* succeed and score well is not critical.
THEOREM BreakdownsAlwaysAddUp == Spec => []BreakdownsAddUp
<1>1. IInv => BreakdownsAddUp
  <2> DEFINE rows == question.of
             summary == AuditSummary(rows)
             coverage == QueryTypeCoverage(rows)
             usage == UsageByTarget(rows)
             pending == Cardinality(RowsOf(rows, LAMBDA row : row.status = "pending"))
             scored == {t \in DOMAIN coverage : coverage[t].processed_runs > 0}
             averages == {coverage[t].average_score : t \in scored}
  <2> SUFFICES ASSUME IInv, answer.kind = "report"
               PROVE  BreakdownsAddUp
    BY Zenon DEF BreakdownsAddUp
  <2>1. rows \in Reports /\ answer = ReportAnswer(rows)
    BY DEF IInv, QuestionIsKnown, AnswerFitsQuestion
  <2>2. IsReport(rows)
    BY <2>1, ReportsAssumption DEF ReportsAssumption
  <2>3. /\ answer.summary = summary /\ answer.coverage = coverage /\ answer.usage = usage
        /\ answer.tone = ToneCounts(rows) /\ answer.diagnosed = Diagnosed(rows)
    BY <2>1 DEF ReportAnswer
  <2>4. /\ SumFunction([t \in DOMAIN coverage |-> coverage[t].processed_runs]) = summary.successful_runs
        /\ SumFunction([t \in DOMAIN coverage |-> coverage[t].failed_runs]) = summary.failed_runs - pending
        /\ SumFunction([t \in DOMAIN coverage |-> coverage[t].brand_found_count]) = summary.visible_runs
        /\ Cardinality(Diagnosed(rows)) = summary.failed_runs - pending
    BY <2>2, CoverageAddsUp, Zenon
  <2>5. SumFunction(ToneCounts(rows)) = summary.total_runs
    <3>1. summary.total_runs = Len(rows)
      BY DEF AuditSummary
    <3> QED
      BY <2>2, <3>1, TonesAddUp
  <2>6. SumFunction([k \in DOMAIN usage |-> usage[k].total]) = UsageSum(rows, DOMAIN rows).total
    BY <2>2, UsageAddsUp, Zenon
  <2>7. ASSUME scored # {}
        PROVE  summary.weighted_score >= Min(averages) /\ summary.weighted_score <= Max(averages)
    <3>1. /\ DOMAIN coverage = Types(rows)
          /\ \A t \in Types(rows) :
               /\ coverage[t].processed_runs = Cardinality(SuccessesOf(rows, t))
               /\ coverage[t].average_score = QueryScore(rows, SuccessesOf(rows, t))
      BY <2>2, CoverageFields, Zenon DEF SuccessesOf
    <3>2. \A t \in Types(rows) : Cardinality(SuccessesOf(rows, t)) > 0 <=> SuccessesOf(rows, t) # {}
      <4> TAKE t \in Types(rows)
      <4> DEFINE S == SuccessesOf(rows, t)
      <4>1. S \in SUBSET DOMAIN rows
        BY DEF SuccessesOf, OfType, Class, SuccessfulRows
      <4>2. IsFiniteSet(S) /\ Cardinality(S) \in Nat
        BY <2>2, <4>1, RowsAreFinite
      <4> HIDE DEF S
      <4>3. Cardinality(S) > 0 <=> S # {}
        BY <4>2, FS_EmptySet
      <4> QED
        BY <4>3 DEF S
    <3>3. scored = ScoredTypes(rows)
      <4> HIDE DEF coverage
      <4> QED
        BY <3>1, <3>2 DEF ScoredTypes
    <3>4. averages = {QueryScore(rows, SuccessesOf(rows, t)) : t \in ScoredTypes(rows)}
      <4> HIDE DEF coverage, scored
      <4>1. \A t \in ScoredTypes(rows) : coverage[t].average_score = QueryScore(rows, SuccessesOf(rows, t))
        BY <3>1 DEF ScoredTypes
      <4> QED
        BY <3>3, <4>1
    <3>5. summary.weighted_score = WeightedVisibilityScore(rows)
      BY DEF AuditSummary
    <3> HIDE DEF averages, scored, summary
    <3>6. /\ WeightedVisibilityScore(rows) >= Min({QueryScore(rows, SuccessesOf(rows, t)) : t \in ScoredTypes(rows)})
          /\ WeightedVisibilityScore(rows) <= Max({QueryScore(rows, SuccessesOf(rows, t)) : t \in ScoredTypes(rows)})
      BY <2>2, <2>7, <3>3, WeightedScoreIsBetween, Zenon
    <3> QED
      BY <3>4, <3>5, <3>6, Zenon
  <2>8. (\A i \in DOMAIN rows : /\ Succeeded(rows[i])
                                /\ FinalScoreOf(rows[i]) >= CriticalScoreThreshold)
          => summary.critical_query_count = 0
    <3>1. \A i \in DOMAIN rows : FinalScoreOf(rows[i]) \in Int
      BY <2>2, ScoresAreNumbers
    <3> QED
      BY <2>2, <3>1, GoodQueriesAreNotCritical
  <2> DEFINE Fits(s, c, u, tone, diagnosed) ==
               LET types == {t \in DOMAIN c : c[t].processed_runs > 0}
               IN  /\ SumFunction([t \in DOMAIN c |-> c[t].processed_runs]) = s.successful_runs
                   /\ SumFunction([t \in DOMAIN c |-> c[t].failed_runs]) = s.failed_runs - pending
                   /\ SumFunction([t \in DOMAIN c |-> c[t].brand_found_count]) = s.visible_runs
                   /\ Cardinality(diagnosed) = s.failed_runs - pending
                   /\ SumFunction(tone) = s.total_runs
                   /\ SumFunction([k \in DOMAIN u |-> u[k].total]) = UsageSum(rows, DOMAIN rows).total
                   /\ types # {} =>
                        /\ s.weighted_score >= Min({c[t].average_score : t \in types})
                        /\ s.weighted_score <= Max({c[t].average_score : t \in types})
                   /\ (\A i \in DOMAIN rows : /\ Succeeded(rows[i])
                                              /\ FinalScoreOf(rows[i]) >= CriticalScoreThreshold)
                        => s.critical_query_count = 0
  <2>9. Fits(summary, coverage, usage, ToneCounts(rows), Diagnosed(rows))
    <3> HIDE DEF rows, summary, coverage, usage, pending
    <3> QED
      BY <2>4, <2>5, <2>6, <2>7, <2>8, Zenon
  <2>10. Fits(answer.summary, answer.coverage, answer.usage, answer.tone, answer.diagnosed)
           => BreakdownsAddUp
    BY Zenon DEF BreakdownsAddUp
  <2> HIDE DEF Fits, rows, summary, coverage, usage
  <2> QED
    BY <2>3, <2>9, <2>10, Zenon
<1> QED
  BY <1>1, RulesInvariant, PTL

-----------------------------------------------------------------------------
(* The comparison of two audits.                                           *)

\* The changes between two sets of items sum up to the counts of either.
LEMMA CountsByKey ==
  ASSUME NEW items, NEW n, AddUpTo(items, n), NEW K, IsFiniteSet(K), ItemKeys(items) \subseteq K,
         NEW changed, \A k \in K : changed[k] = Max({0, ItemCount(items, k)})
  PROVE  /\ SumFunctionOnSet(changed, K) = n
         /\ \A k \in K : /\ ItemCount(items, k) = NoCount <=> k \notin ItemKeys(items)
                        /\ ItemCount(items, k) \in Nat \cup {NoCount}
<1> DEFINE counts == [item \in items |-> item.count]
           keys == [item \in items |-> item.key]
<1>1. /\ IsFiniteSet(items) /\ \A item \in items : counts[item] \in Nat /\ counts[item] = item.count
      /\ SumFunctionOnSet(counts, items) = n
  BY DEF AddUpTo
<1>2. \A item \in items : keys[item] = item.key
  OBVIOUS
<1> HIDE DEF counts, keys
<1>3. \A item \in items : keys[item] \in K
  BY <1>2 DEF ItemKeys
<1>4. ASSUME NEW k \in K
      PROVE  /\ SumFunctionOnSet(counts, Class(items, keys, k)) \in Nat
             /\ k \in ItemKeys(items) => ItemCount(items, k) = SumFunctionOnSet(counts, Class(items, keys, k))
             /\ k \notin ItemKeys(items) => /\ ItemCount(items, k) = -1
                                            /\ SumFunctionOnSet(counts, Class(items, keys, k)) = 0
  <2> DEFINE C == Class(items, keys, k)
             f == [item \in C |-> item.count]
  <2>1. C = {item \in items : item.key = k} /\ C \subseteq items
    BY <1>2 DEF Class
  <2>2. IsFiniteSet(C)
    BY <1>1, <2>1, FS_Subset
  <2>3. \A item \in C : counts[item] \in Nat /\ counts[item] \in Int /\ f[item] = counts[item]
    BY <1>1, <2>1
  <2>4. DOMAIN f = C
    OBVIOUS
  <2> HIDE DEF C
  <2>5. CountOfKey(items, k) = SumFunction(f)
    BY <2>1, Zenon DEF CountOfKey
  <2> HIDE DEF f
  <2>6. SumFunctionOnSet(counts, C) \in Nat
    BY <2>2, <2>3, SumOfNaturals
  <2>7. SumFunction(f) = SumFunctionOnSet(counts, C)
    BY <2>2, <2>3, <2>4, SumOfFunction
  <2>8. k \in ItemKeys(items) => ItemCount(items, k) = SumFunctionOnSet(counts, C)
    BY <2>5, <2>7 DEF ItemCount
  <2>9. k \notin ItemKeys(items) => ItemCount(items, k) = -1
    BY DEF ItemCount, NoCount
  <2>10. k \notin ItemKeys(items) => C = {}
    BY <2>1 DEF ItemKeys
  <2>11. C = {} => SumFunctionOnSet(counts, C) = 0
    BY <2>2, <2>3, SumStep
  <2> QED
    BY <2>6, <2>8, <2>9, <2>10, <2>11 DEF C
<1>5. ASSUME NEW k \in K PROVE changed[k] = SumFunctionOnSet(counts, Class(items, keys, k))
  <2> DEFINE c == ItemCount(items, k)
             s == SumFunctionOnSet(counts, Class(items, keys, k))
  <2>1. s \in Nat /\ changed[k] = Max({0, c}) /\ (c = s \/ (c = -1 /\ s = 0))
    BY <1>4
  <2> SUFFICES changed[k] = s
    BY DEF s
  <2> HIDE DEF c, s
  <2>2. CASE c = s
    <3>1. Max({0, s}) = s
      <4>1. 0 \in Nat
        OBVIOUS
      <4> QED
        BY <2>1, <4>1, MaxOfTwo
    <3> QED
      BY <2>1, <2>2, <3>1
  <2>3. CASE c = -1 /\ s = 0
    <3>1. Max({0, -1}) = 0
      <4>1. \A x \in {0, -1} : (\A y \in {0, -1} : x >= y) => x = 0
        OBVIOUS
      <4>2. \A y \in {0, -1} : 0 >= y
        OBVIOUS
      <4> QED
        BY <4>1, <4>2 DEF Max
    <3> QED
      BY <2>1, <2>3, <3>1
  <2> QED
    BY <2>1, <2>2, <2>3
<1>6. SumFunctionOnSet(changed, K) = SumFunctionOnSet(counts, items)
  <2>1. \A item \in items : counts[item] \in Int
    BY <1>1
  <2> QED
    BY <1>1, <1>3, <1>5, <2>1, SumOverClasses
<1>7. ASSUME NEW k \in K
      PROVE  /\ ItemCount(items, k) = NoCount <=> k \notin ItemKeys(items)
             /\ ItemCount(items, k) \in Nat \cup {NoCount}
  BY <1>4 DEF NoCount
<1> QED
  BY <1>1, <1>6, <1>7

\* Counted changes sum up to m now and to n before.
Explained(changes, m, n) ==
    /\ SumFunction([k \in DOMAIN changes |-> Max({0, changes[k].current})]) = m
    /\ SumFunction([k \in DOMAIN changes |-> Max({0, changes[k].previous})]) = n

\* Changes show as added what was not there, as removed what is not there.
ShowsNews(changes, current, previous) ==
    \A k \in DOMAIN changes :
       /\ changes[k].status = "added" <=> k \notin ItemKeys(previous)
       /\ changes[k].status = "removed" <=> k \notin ItemKeys(current)

\* The changes between two sets of items sum up to the counts of either, and show
\* what came and went.
LEMMA ChangesAddUp ==
  ASSUME NEW current, NEW m, AddUpTo(current, m), NEW previous, NEW n, AddUpTo(previous, n)
  PROVE  /\ Explained(DiffCountedItems(current, previous), m, n)
         /\ ShowsNews(DiffCountedItems(current, previous), current, previous)
<1> DEFINE changes == DiffCountedItems(current, previous)
           K == ItemKeys(current) \cup ItemKeys(previous)
           now == [k \in DOMAIN changes |-> Max({0, changes[k].current})]
           before == [k \in DOMAIN changes |-> Max({0, changes[k].previous})]
<1>1. IsFiniteSet(K)
  <2> DEFINE f == [item \in current |-> item.key]
             g == [item \in previous |-> item.key]
  <2>1. IsFiniteSet(current) /\ IsFiniteSet(previous)
    BY DEF AddUpTo
  <2>2. IsFiniteSet({f[item] : item \in current}) /\ IsFiniteSet({g[item] : item \in previous})
    <3> HIDE DEF f, g
    <3> QED
      BY <2>1, FiniteImage
  <2>3. ItemKeys(current) = {f[item] : item \in current} /\ ItemKeys(previous) = {g[item] : item \in previous}
    BY DEF ItemKeys
  <2> QED
    BY <2>2, <2>3, FS_Union
<1>2. /\ DOMAIN changes = K
      /\ \A k \in K : /\ changes[k].current = ItemCount(current, k)
                      /\ changes[k].previous = ItemCount(previous, k)
                      /\ changes[k].status = ChangeStatus(ItemCount(current, k), ItemCount(previous, k))
  BY DEF DiffCountedItems
<1> HIDE DEF changes
<1>3. /\ \A k \in K : now[k] = Max({0, ItemCount(current, k)}) /\ before[k] = Max({0, ItemCount(previous, k)})
      /\ DOMAIN now = K /\ DOMAIN before = K
  BY <1>2
<1>4. ItemKeys(current) \subseteq K /\ ItemKeys(previous) \subseteq K
  OBVIOUS
<1>5. ASSUME NEW k \in K PROVE k \in ItemKeys(current) \/ k \in ItemKeys(previous)
  OBVIOUS
<1> HIDE DEF K, now, before
<1>6. /\ SumFunctionOnSet(now, K) = m
      /\ \A k \in K : /\ ItemCount(current, k) = NoCount <=> k \notin ItemKeys(current)
                      /\ ItemCount(current, k) \in Nat \cup {NoCount}
  BY <1>1, <1>3, <1>4, CountsByKey
<1>7. /\ SumFunctionOnSet(before, K) = n
      /\ \A k \in K : /\ ItemCount(previous, k) = NoCount <=> k \notin ItemKeys(previous)
                      /\ ItemCount(previous, k) \in Nat \cup {NoCount}
  BY <1>1, <1>3, <1>4, CountsByKey
<1>8. SumFunction(now) = m /\ SumFunction(before) = n
  <2>1. SumFunction(now) = SumFunctionOnSet(now, K) /\ SumFunction(before) = SumFunctionOnSet(before, K)
    BY <1>3, Zenon DEF SumFunction
  <2> QED
    BY <1>6, <1>7, <2>1
<1>9. ASSUME NEW k \in K
      PROVE  /\ (changes[k].status = "added") <=> k \notin ItemKeys(previous)
             /\ (changes[k].status = "removed") <=> k \notin ItemKeys(current)
  <2> DEFINE c == ItemCount(current, k)
             p == ItemCount(previous, k)
  <2>1. changes[k].status = ChangeStatus(c, p)
    BY <1>2
  <2>2. /\ c = NoCount <=> k \notin ItemKeys(current)
        /\ p = NoCount <=> k \notin ItemKeys(previous)
        /\ c \in Nat \cup {NoCount} /\ p \in Nat \cup {NoCount}
    BY <1>6, <1>7
  <2> HIDE DEF c, p
  <2>3. /\ ChangeStatus(c, p) = "added" <=> p = NoCount
        /\ ChangeStatus(c, p) = "removed" <=> p # NoCount /\ c = NoCount
    BY <2>2 DEF ChangeStatus, NoCount
  <2> QED
    BY <1>5, <2>1, <2>2, <2>3
<1>10. Explained(changes, m, n)
  BY <1>8, Zenon DEF Explained, now, before
<1>11. ShowsNews(changes, current, previous)
  BY <1>2, <1>9 DEF ShowsNews
<1> QED
  BY <1>10, <1>11 DEF changes

\* What occurs in lists, counted item by item, is what the lists hold.
LEMMA ListsAddUp ==
  ASSUME NEW I, IsFiniteSet(I), NEW lists, \A i \in I : lists[i] \in Seq(Range(lists[i]))
  PROVE  AddUpTo({[id    |-> x, key |-> x,
                   count |-> SumFunction([i \in I |-> Occurrences(lists[i], x)])] :
                      x \in UNION {Range(lists[i]) : i \in I}},
                 SumFunction([i \in I |-> Len(lists[i])]))
<1> DEFINE X == UNION {Range(lists[i]) : i \in I}
           occurs(i, x) == Occurrences(lists[i], x)
           row == [i \in I |-> [x \in X |-> occurs(i, x)]]
           column == [x \in X |-> [i \in I |-> occurs(i, x)]]
           total == [i \in I |-> Len(lists[i])]
           count == [x \in X |-> SumFunction([i \in I |-> occurs(i, x)])]
           name == [x \in X |-> x]
<1>1. ASSUME NEW i \in I
      PROVE  /\ Len(lists[i]) \in Nat /\ IsFiniteSet(DOMAIN lists[i])
             /\ Cardinality(DOMAIN lists[i]) = Len(lists[i]) /\ IsFiniteSet(Range(lists[i]))
             /\ Range(lists[i]) \subseteq X
  <2> DEFINE list == lists[i]
             n == Len(list)
  <2>1. list \in Seq(Range(list))
    OBVIOUS
  <2>2. Range(list) \subseteq X
    OBVIOUS
  <2> HIDE DEF list, X
  <2>3. n \in Nat /\ DOMAIN list = 1 .. n
    BY <2>1, LenProperties
  <2> HIDE DEF n
  <2>4. IsFiniteSet(1 .. n) /\ Cardinality(1 .. n) = n
    BY <2>3, FS_Interval
  <2>5. IsFiniteSet(Range(list))
    BY <2>1, SizeOfRange
  <2>6. IsFiniteSet(DOMAIN list) /\ Cardinality(DOMAIN list) = n
    BY <2>3, <2>4, Zenon
  <2> QED
    BY <2>2, <2>3, <2>5, <2>6 DEF list, n
<1>2. IsFiniteSet(X)
  <2> DEFINE range == [i \in I |-> Range(lists[i])]
  <2>1. IsFiniteSet({range[i] : i \in I})
    BY FiniteImage
  <2>2. {range[i] : i \in I} = {Range(lists[i]) : i \in I}
    OBVIOUS
  <2>3. \A T \in {Range(lists[i]) : i \in I} : IsFiniteSet(T)
    BY <1>1
  <2> QED
    BY <2>1, <2>2, <2>3, FS_UNION
<1>3. \A i \in I, x \in X : occurs(i, x) = Cardinality(Class(DOMAIN lists[i], lists[i], x))
  BY Zenon DEF Occurrences, Class
<1>4. \A i \in I, x \in X : occurs(i, x) \in Nat
  <2> TAKE i \in I, x \in X
  <2> DEFINE C == Class(DOMAIN lists[i], lists[i], x)
  <2>1. C \subseteq DOMAIN lists[i] /\ occurs(i, x) = Cardinality(C)
    BY <1>3 DEF Class
  <2>2. Cardinality(C) \in Nat
    BY <1>1, <2>1, FS_Subset, FS_CardinalityType
  <2> QED
    BY <2>1, <2>2
<1> HIDE DEF occurs
<1>5. /\ \A i \in I, x \in X : row[i][x] = occurs(i, x) /\ column[x][i] = occurs(i, x)
      /\ \A i \in I : total[i] = Len(lists[i]) /\ DOMAIN row[i] = X
      /\ \A x \in X : count[x] = SumFunction(column[x]) /\ DOMAIN column[x] = I /\ name[x] = x
      /\ DOMAIN total = I
  OBVIOUS
<1>6. {[id |-> x, key |-> name[x], count |-> count[x]] : x \in X}
        = {[id |-> x, key |-> x, count |-> SumFunction([i \in I |-> occurs(i, x)])] : x \in X}
  <2>1. \A x \in X : name[x] = x /\ count[x] = SumFunction([i \in I |-> occurs(i, x)])
    OBVIOUS
  <2> HIDE DEF name, count
  <2> QED
    BY <2>1
<1> HIDE DEF X, row, column, total, count, name
<1>7. ASSUME NEW i \in I PROVE total[i] = SumFunctionOnSet(row[i], X)
  <2> DEFINE list == lists[i]
             sizes == row[i]
             D == DOMAIN list
  <2>1. \A x \in X : sizes[x] = Cardinality(Class(D, list, x))
    BY <1>3, <1>5
  <2>2. \A j \in D : list[j] \in X
    BY <1>1 DEF Range
  <2>3. IsFiniteSet(D) /\ Cardinality(D) = Len(list)
    BY <1>1
  <2> HIDE DEF list, sizes, D
  <2>4. SumFunctionOnSet(sizes, X) = Cardinality(D)
    BY <1>2, <2>1, <2>2, <2>3, ElementsOfClasses
  <2> QED
    BY <1>5, <2>3, <2>4 DEF list, sizes
<1>8. \A x \in X : count[x] = SumFunctionOnSet(column[x], I)
  BY <1>5, Zenon DEF SumFunction
<1>9. AddUpTo({[id |-> x, key |-> name[x], count |-> count[x]] : x \in X}, SumFunctionOnSet(total, I))
  <2>1. \A i \in I, x \in X : row[i][x] \in Int /\ column[x][i] = row[i][x]
    BY <1>4, <1>5
  <2>2. SumsOfTable(I, X, row, column, total, count)
    BY <1>2, <1>7, <1>8, <2>1 DEF SumsOfTable
  <2>3. \A x \in X : count[x] \in Nat
    <3> TAKE x \in X
    <3> DEFINE f == column[x]
    <3>1. \A i \in I : f[i] \in Nat
      BY <1>4, <1>5
    <3> HIDE DEF f
    <3>2. SumFunctionOnSet(f, I) \in Nat
      BY <3>1, SumOfNaturals
    <3> QED
      BY <1>8, <3>2 DEF f
  <2> QED
    BY <2>2, <2>3, ItemsAddUp
<1>10. SumFunction(total) = SumFunctionOnSet(total, I)
  BY <1>5, Zenon DEF SumFunction
<1>11. AddUpTo({[id |-> x, key |-> x, count |-> SumFunction([i \in I |-> occurs(i, x)])] : x \in X},
               SumFunction(total))
  BY <1>6, <1>9, <1>10, Zenon
<1> QED
  BY <1>11, Zenon DEF occurs, total, X

\* Source domains, counted by name, are what the answers hold.
LEMMA SourcesAddUp ==
  ASSUME NEW rows, IsReport(rows)
  PROVE  AddUpTo(SourceDomains(rows), SumFunction([i \in RowsOf(rows, IsProcessed) |-> Len(rows[i].parsed.sources)]))
<1> DEFINE I == RowsOf(rows, IsProcessed)
           lists == [i \in I |-> rows[i].parsed.sources]
           size(i) == Len(rows[i].parsed.sources)
           found(i, x) == Occurrences(rows[i].parsed.sources, x)
           X == UNION {Range(lists[i]) : i \in I}
           Y == UNION {Range(rows[i].parsed.sources) : i \in I}
<1>1. IsFiniteSet(I) /\ I \subseteq DOMAIN rows
  <2>1. I \subseteq DOMAIN rows
    BY DEF CollectedFrom, RowsOf
  <2> QED
    BY <2>1, RowsAreFinite
<1>2. \A i \in I : lists[i] = rows[i].parsed.sources /\ lists[i] \in Seq(Range(lists[i]))
  BY <1>1 DEF IsReport
<1>3. SourceDomains(rows) = {[id |-> x, key |-> x, count |-> SumFunction([i \in I |-> found(i, x)])] : x \in Y}
  BY Zenon DEF SourceDomains, CountsOf
<1>4. AddUpTo({[id |-> x, key |-> x, count |-> SumFunction([i \in I |-> Occurrences(lists[i], x)])] : x \in X},
              SumFunction([i \in I |-> Len(lists[i])]))
  <2> HIDE DEF I, lists
  <2> QED
    BY <1>1, <1>2, ListsAddUp, Zenon
<1>5. /\ \A i \in I : Len(lists[i]) = size(i)
      /\ \A i \in I : \A x \in X : Occurrences(lists[i], x) = found(i, x)
      /\ X = Y
  <2>1. {Range(lists[i]) : i \in I} = {Range(rows[i].parsed.sources) : i \in I}
    BY <1>2
  <2> HIDE DEF lists, I
  <2>2. X = Y
    BY <2>1, Zenon
  <2> QED
    BY <1>2, <2>2, Zenon
<1> HIDE DEF I, lists, size, found, X, Y
<1>6. [i \in I |-> Len(lists[i])] = [i \in I |-> size(i)]
  BY <1>5
<1>7. \A x \in X : SumFunction([i \in I |-> Occurrences(lists[i], x)]) = SumFunction([i \in I |-> found(i, x)])
  <2> TAKE x \in X
  <2>1. [i \in I |-> Occurrences(lists[i], x)] = [i \in I |-> found(i, x)]
    BY <1>5
  <2> QED
    BY <2>1, Zenon
<1>8. {[id |-> x, key |-> x, count |-> SumFunction([i \in I |-> Occurrences(lists[i], x)])] : x \in X}
        = SourceDomains(rows)
  <2> DEFINE counted(x) == SumFunction([i \in I |-> Occurrences(lists[i], x)])
             sum(x) == SumFunction([i \in I |-> found(i, x)])
  <2>1. \A x \in X : counted(x) = sum(x)
    BY <1>7
  <2> HIDE DEF counted, sum
  <2>2. {[id |-> x, key |-> x, count |-> counted(x)] : x \in X}
          = {[id |-> x, key |-> x, count |-> sum(x)] : x \in X}
    BY <2>1
  <2> QED
    BY <1>3, <1>5, <2>2, Zenon DEF counted, sum
<1>9. AddUpTo(SourceDomains(rows), SumFunction([i \in I |-> size(i)]))
  BY <1>4, <1>6, <1>8, Zenon
<1> QED
  BY <1>9, Zenon DEF I, size

\* Concepts, counted by name, are what the answers hold.
LEMMA ConceptsAddUp ==
  ASSUME NEW rows, IsReport(rows)
  PROVE  AddUpTo(Concepts(rows), SumFunction([i \in CollectedFrom(rows) |-> Len(rows[i].parsed.concepts)]))
<1> DEFINE I == CollectedFrom(rows)
           lists == [i \in I |-> rows[i].parsed.concepts]
           size(i) == Len(rows[i].parsed.concepts)
           found(i, x) == Occurrences(rows[i].parsed.concepts, x)
           X == UNION {Range(lists[i]) : i \in I}
           Y == UNION {Range(rows[i].parsed.concepts) : i \in I}
<1>1. IsFiniteSet(I) /\ I \subseteq DOMAIN rows
  <2>1. I \subseteq DOMAIN rows
    BY DEF CollectedFrom, RowsOf
  <2> QED
    BY <2>1, RowsAreFinite
<1>2. \A i \in I : lists[i] = rows[i].parsed.concepts /\ lists[i] \in Seq(Range(lists[i]))
  BY <1>1 DEF IsReport
<1>3. Concepts(rows) = {[id |-> x, key |-> x, count |-> SumFunction([i \in I |-> found(i, x)])] : x \in Y}
  BY Zenon DEF Concepts, CountsOf
<1>4. AddUpTo({[id |-> x, key |-> x, count |-> SumFunction([i \in I |-> Occurrences(lists[i], x)])] : x \in X},
              SumFunction([i \in I |-> Len(lists[i])]))
  <2> HIDE DEF I, lists
  <2> QED
    BY <1>1, <1>2, ListsAddUp, Zenon
<1>5. /\ \A i \in I : Len(lists[i]) = size(i)
      /\ \A i \in I : \A x \in X : Occurrences(lists[i], x) = found(i, x)
      /\ X = Y
  <2>1. {Range(lists[i]) : i \in I} = {Range(rows[i].parsed.concepts) : i \in I}
    BY <1>2
  <2> HIDE DEF lists, I
  <2>2. X = Y
    BY <2>1, Zenon
  <2> QED
    BY <1>2, <2>2, Zenon
<1> HIDE DEF I, lists, size, found, X, Y
<1>6. [i \in I |-> Len(lists[i])] = [i \in I |-> size(i)]
  BY <1>5
<1>7. \A x \in X : SumFunction([i \in I |-> Occurrences(lists[i], x)]) = SumFunction([i \in I |-> found(i, x)])
  <2> TAKE x \in X
  <2>1. [i \in I |-> Occurrences(lists[i], x)] = [i \in I |-> found(i, x)]
    BY <1>5
  <2> QED
    BY <2>1, Zenon
<1>8. {[id |-> x, key |-> x, count |-> SumFunction([i \in I |-> Occurrences(lists[i], x)])] : x \in X}
        = Concepts(rows)
  <2> DEFINE counted(x) == SumFunction([i \in I |-> Occurrences(lists[i], x)])
             sum(x) == SumFunction([i \in I |-> found(i, x)])
  <2>1. \A x \in X : counted(x) = sum(x)
    BY <1>7
  <2> HIDE DEF counted, sum
  <2>2. {[id |-> x, key |-> x, count |-> counted(x)] : x \in X}
          = {[id |-> x, key |-> x, count |-> sum(x)] : x \in X}
    BY <2>1
  <2> QED
    BY <1>3, <1>5, <2>2, Zenon DEF counted, sum
<1>9. AddUpTo(Concepts(rows), SumFunction([i \in I |-> size(i)]))
  BY <1>4, <1>6, <1>8, Zenon
<1> QED
  BY <1>9, Zenon DEF I, size

\* The competitors that an answer names.
CandidatesOf(rows) == [i \in CollectedFrom(rows) |-> rows[i].parsed.candidates]

\* Competitors, counted by candidate, are what the answers name.
LEMMA CompetitorsAddUp ==
  ASSUME NEW rows, IsReport(rows)
  PROVE  AddUpTo(Competitors(rows),
                 SumFunction([i \in CollectedFrom(rows) |-> Cardinality(rows[i].parsed.candidates)]))
<1> DEFINE I == CollectedFrom(rows)
           candidates == CandidatesOf(rows)
           X == UNION {candidates[i] : i \in I}
           occurs(i, x) == IF x \in candidates[i] THEN 1 ELSE 0
           row == [i \in I |-> [x \in X |-> occurs(i, x)]]
           column == [x \in X |-> [i \in I |-> occurs(i, x)]]
           total == [i \in I |-> Cardinality(rows[i].parsed.candidates)]
           count == [x \in X |-> Cardinality({i \in I : x \in candidates[i]})]
           name == [x \in X |-> x.name]
<1>1. IsFiniteSet(I) /\ I \subseteq DOMAIN rows
  <2>1. I \subseteq DOMAIN rows
    BY DEF CollectedFrom, RowsOf
  <2> QED
    BY <2>1, RowsAreFinite
<1>2. \A i \in I : candidates[i] = rows[i].parsed.candidates /\ IsFiniteSet(candidates[i])
  BY <1>1 DEF CandidatesOf, IsReport
<1>3. IsFiniteSet(X)
  <2>1. IsFiniteSet({candidates[i] : i \in I})
    BY <1>1, FiniteImage
  <2>2. \A T \in {candidates[i] : i \in I} : IsFiniteSet(T)
    BY <1>2
  <2> QED
    BY <2>1, <2>2, FS_UNION
<1>4. Competitors(rows) = {[id |-> x, key |-> name[x], count |-> count[x]] : x \in X}
  <2> DEFINE found(x) == Cardinality({i \in I : x \in rows[i].parsed.candidates})
             Y == UNION {rows[i].parsed.candidates : i \in I}
  <2>1. Y = X
    <3>1. {rows[i].parsed.candidates : i \in I} = {candidates[i] : i \in I}
      BY <1>2
    <3> QED
      BY <3>1, Zenon
  <2>2. \A x \in X : found(x) = count[x] /\ name[x] = x.name
    <3> TAKE x \in X
    <3>1. {i \in I : x \in rows[i].parsed.candidates} = {i \in I : x \in candidates[i]}
      BY <1>2
    <3>2. count[x] = Cardinality({i \in I : x \in candidates[i]}) /\ name[x] = x.name
      OBVIOUS
    <3> QED
      BY <3>1, <3>2, Zenon
  <2>3. Competitors(rows) = {[id |-> x, key |-> x.name, count |-> found(x)] : x \in Y}
    BY Zenon DEF Competitors
  <2> HIDE DEF found, name, count, X, Y
  <2> QED
    BY <2>1, <2>2, <2>3
<1>5. \A i \in I, x \in X : row[i][x] \in Int /\ column[x][i] = row[i][x]
  OBVIOUS
<1>6. /\ \A i \in I : \A x \in X : row[i][x] = IF x \in candidates[i] THEN 1 ELSE 0
      /\ \A x \in X : \A i \in I : column[x][i] = IF i \in {j \in I : x \in candidates[j]} THEN 1 ELSE 0
      /\ \A x \in X : count[x] = Cardinality({i \in I : x \in candidates[i]})
      /\ DOMAIN total = I
  OBVIOUS
<1>7. \A i \in I : total[i] = Cardinality(candidates[i]) /\ candidates[i] \subseteq X
  <2> TAKE i \in I
  <2>1. total[i] = Cardinality(rows[i].parsed.candidates)
    OBVIOUS
  <2>2. candidates[i] \subseteq X
    OBVIOUS
  <2> HIDE DEF total, candidates, X, I
  <2> QED
    BY <1>2, <2>1, <2>2, Zenon
<1> HIDE DEF I, candidates, X, row, column, total, count, name
<1>8. \A i \in I : total[i] = SumFunctionOnSet(row[i], X)
  <2> TAKE i \in I
  <2> DEFINE f == row[i]
             T == candidates[i]
  <2>1. T \subseteq X /\ \A x \in X : f[x] = IF x \in T THEN 1 ELSE 0
    BY <1>6, <1>7
  <2> HIDE DEF f, T
  <2>2. SumFunctionOnSet(f, X) = Cardinality(T)
    BY <1>3, <2>1, SumOfMembers
  <2> QED
    BY <1>7, <2>2 DEF f, T
<1>9. \A x \in X : count[x] = SumFunctionOnSet(column[x], I) /\ count[x] \in Nat
  <2> TAKE x \in X
  <2> DEFINE f == column[x]
             T == {i \in I : x \in candidates[i]}
  <2>1. T \subseteq I /\ (\A i \in I : f[i] = IF i \in T THEN 1 ELSE 0) /\ count[x] = Cardinality(T)
    BY <1>6
  <2> HIDE DEF f, T
  <2>2. SumFunctionOnSet(f, I) = Cardinality(T)
    BY <1>1, <2>1, SumOfMembers
  <2>3. Cardinality(T) \in Nat
    BY <1>1, <2>1, FS_Subset, FS_CardinalityType
  <2> QED
    BY <2>1, <2>2, <2>3 DEF f
<1>10. SumsOfTable(I, X, row, column, total, count)
  BY <1>1, <1>3, <1>5, <1>8, <1>9 DEF SumsOfTable
<1>11. AddUpTo({[id |-> x, key |-> name[x], count |-> count[x]] : x \in X}, SumFunctionOnSet(total, I))
  BY <1>9, <1>10, ItemsAddUp
<1>12. SumFunction(total) = SumFunctionOnSet(total, I)
  BY <1>6, Zenon DEF SumFunction
<1>13. AddUpTo(Competitors(rows), SumFunction(total))
  BY <1>4, <1>11, <1>12, Zenon
<1> QED
  BY <1>13, Zenon DEF total, I

\* Whatever two audits hold, the changes of sources, concepts and competitors sum up
\* to the mentions in the answers of either, show as added or removed what only one
\* of them names, and an audit offered for comparison is not called a stranger.
THEOREM ChangesAlwaysExplainTheTotals == Spec => []ChangesExplainTheTotals
<1>1. IInv => ChangesExplainTheTotals
  <2> DEFINE pair == question.of
             comparison == Comparison(Snapshot(pair.current), Snapshot(pair.previous),
                                      pair.current_brand, pair.previous_brand)
             offered == IsComparisonCandidate(pair.current_brand, pair.previous_brand)
             Mentions(rows) == SumFunction([i \in RowsOf(rows, IsProcessed) |-> Len(rows[i].parsed.sources)])
             Themes(rows) == SumFunction([i \in RowsOf(rows, IsCollected) |-> Len(rows[i].parsed.concepts)])
             Rivals(rows) ==
               SumFunction([i \in RowsOf(rows, IsCollected) |-> Cardinality(rows[i].parsed.candidates)])
             NamedIn(rows, name) ==
               \E i \in CollectedFrom(rows) : \E c \in rows[i].parsed.candidates : c.name = name
             Fits(c, o) ==
               /\ Explained(c.sources, Mentions(pair.current), Mentions(pair.previous))
               /\ Explained(c.concepts, Themes(pair.current), Themes(pair.previous))
               /\ Explained(c.competitors, Rivals(pair.current), Rivals(pair.previous))
               /\ \A name \in DOMAIN c.competitors :
                     /\ (c.competitors[name].status = "added") = ~ NamedIn(pair.previous, name)
                     /\ (c.competitors[name].status = "removed") = ~ NamedIn(pair.current, name)
               /\ o => ~ c.warns_of_strangers
  <2> SUFFICES ASSUME IInv, answer.kind = "comparison" PROVE ChangesExplainTheTotals
    BY Zenon DEF ChangesExplainTheTotals
  <2>1. pair \in Comparisons /\ answer = ComparisonAnswer(pair)
    BY DEF IInv, QuestionIsKnown, AnswerFitsQuestion
  <2>2. IsReport(pair.current) /\ IsReport(pair.previous)
    BY <2>1, ReportsAssumption DEF ReportsAssumption
  <2>3. answer.comparison = comparison /\ answer.offered = offered
    BY <2>1 DEF ComparisonAnswer
  <2>4. /\ comparison.sources = DiffCountedItems(SourceDomains(pair.current), SourceDomains(pair.previous))
        /\ comparison.concepts = DiffCountedItems(Concepts(pair.current), Concepts(pair.previous))
        /\ comparison.competitors = DiffCountedItems(Competitors(pair.current), Competitors(pair.previous))
        /\ comparison.warns_of_strangers =
             (~ SameLongitudinalGroup(pair.current_brand, pair.previous_brand)
                /\ pair.current_brand.id # pair.previous_brand.id)
    BY DEF Comparison, Snapshot
  <2>5. ASSUME NEW rows, IsReport(rows)
        PROVE  /\ AddUpTo(SourceDomains(rows), Mentions(rows))
               /\ AddUpTo(Concepts(rows), Themes(rows))
               /\ AddUpTo(Competitors(rows), Rivals(rows))
    BY <2>5, SourcesAddUp, ConceptsAddUp, CompetitorsAddUp, Zenon DEF CollectedFrom
  <2>6. ASSUME NEW rows PROVE \A name : name \in ItemKeys(Competitors(rows)) <=> NamedIn(rows, name)
    <3> TAKE name
    <3>1. name \in ItemKeys(Competitors(rows)) <=> \E item \in Competitors(rows) : item.key = name
      BY DEF ItemKeys
    <3>2. (\E item \in Competitors(rows) : item.key = name)
            <=> \E c \in UNION {rows[i].parsed.candidates : i \in CollectedFrom(rows)} : c.name = name
      <4> DEFINE count(c) == Cardinality({i \in CollectedFrom(rows) : c \in rows[i].parsed.candidates})
                 U == UNION {rows[i].parsed.candidates : i \in CollectedFrom(rows)}
      <4>1. Competitors(rows) = {[id |-> c, key |-> c.name, count |-> count(c)] : c \in U}
        BY Zenon DEF Competitors
      <4> HIDE DEF count, U
      <4>2. ASSUME NEW c \in U
            PROVE  \E item \in Competitors(rows) : item.key = c.name
        <5> DEFINE item == [id |-> c, key |-> c.name, count |-> count(c)]
        <5>1. item \in Competitors(rows)
          BY <4>1
        <5>2. item.key = c.name
          OBVIOUS
        <5> QED
          BY <5>1, <5>2
      <4>3. ASSUME NEW item \in Competitors(rows)
            PROVE  \E c \in U : c.name = item.key
        <5>1. PICK c \in U : item = [id |-> c, key |-> c.name, count |-> count(c)]
          BY <4>1
        <5>2. item.key = c.name
          BY <5>1
        <5> QED
          BY <5>2
      <4>4. (\E item \in Competitors(rows) : item.key = name) <=> \E c \in U : c.name = name
        BY <4>2, <4>3
      <4> QED
        BY <4>4 DEF U
    <3>3. (\E c \in UNION {rows[i].parsed.candidates : i \in CollectedFrom(rows)} : c.name = name)
            <=> NamedIn(rows, name)
      OBVIOUS
    <3> QED
      BY <3>1, <3>2, <3>3
  <2> HIDE DEF Mentions, Themes, Rivals, NamedIn, comparison
  <2>7. /\ Explained(comparison.sources, Mentions(pair.current), Mentions(pair.previous))
        /\ Explained(comparison.concepts, Themes(pair.current), Themes(pair.previous))
        /\ Explained(comparison.competitors, Rivals(pair.current), Rivals(pair.previous))
        /\ \A name \in DOMAIN comparison.competitors :
             /\ comparison.competitors[name].status = "added" <=> ~ NamedIn(pair.previous, name)
             /\ comparison.competitors[name].status = "removed" <=> ~ NamedIn(pair.current, name)
    <3>1. ASSUME NEW current, NEW m, AddUpTo(current, m), NEW previous, NEW n, AddUpTo(previous, n)
          PROVE  /\ Explained(DiffCountedItems(current, previous), m, n)
                 /\ ShowsNews(DiffCountedItems(current, previous), current, previous)
      BY <3>1, ChangesAddUp
    <3>2. Explained(comparison.sources, Mentions(pair.current), Mentions(pair.previous))
      BY <2>2, <2>4, <2>5, <3>1
    <3>3. Explained(comparison.concepts, Themes(pair.current), Themes(pair.previous))
      BY <2>2, <2>4, <2>5, <3>1
    <3>4. /\ Explained(comparison.competitors, Rivals(pair.current), Rivals(pair.previous))
          /\ ShowsNews(comparison.competitors, Competitors(pair.current), Competitors(pair.previous))
      BY <2>2, <2>4, <2>5, <3>1
    <3>5. \A name \in DOMAIN comparison.competitors :
            /\ comparison.competitors[name].status = "added" <=> ~ NamedIn(pair.previous, name)
            /\ comparison.competitors[name].status = "removed" <=> ~ NamedIn(pair.current, name)
      BY <2>6, <3>4 DEF ShowsNews
    <3> QED
      BY <3>2, <3>3, <3>4, <3>5
  <2>8. offered => ~ comparison.warns_of_strangers
    BY <2>4 DEF IsComparisonCandidate
  <2>9. Fits(comparison, offered)
    <3>1. \A name : NamedIn(pair.previous, name) \in BOOLEAN /\ NamedIn(pair.current, name) \in BOOLEAN
      BY DEF NamedIn
    <3>2. \A name \in DOMAIN comparison.competitors :
            /\ (comparison.competitors[name].status = "added") = ~ NamedIn(pair.previous, name)
            /\ (comparison.competitors[name].status = "removed") = ~ NamedIn(pair.current, name)
      BY <2>7, <3>1
    <3> HIDE DEF offered, pair
    <3> QED
      BY <2>7, <2>8, <3>2
  <2>10. Fits(answer.comparison, answer.offered) => ChangesExplainTheTotals
    BY Zenon DEF ChangesExplainTheTotals, Explained, Mentions, Themes, Rivals, NamedIn
  <2> HIDE DEF Fits, comparison, offered
  <2> QED
    BY <2>3, <2>9, <2>10, Zenon
<1> QED
  BY <1>1, RulesInvariant, PTL
=============================================================================
