---------------------------- MODULE ProviderRules ----------------------------
(***************************************************************************)
(* How one question reaches a provider: the pilot policy of an audit, the  *)
(* adapter the factory builds, the model the adapter calls, and the        *)
(* ProviderResponse that the worker stores.                                *)
(*                                                                         *)
(* An answer is "text", "blank" or absent; an error is its code.  A reply  *)
(* stands for everything a server and its SDK may return or raise.         *)
(***************************************************************************)
EXTENDS Integers, FiniteSets

CONSTANTS
    PrefixedModels,     \* model ids of the form provider/model
    PlainModels         \* other model ids

NoModel == "no model"

ASSUME ModelsAssumption ==
    /\ PrefixedModels \cap PlainModels = {}
    /\ NoModel \notin PrefixedModels \cup PlainModels

ModelId == PrefixedModels \cup PlainModels

Level == {"L1", "L2"}

-----------------------------------------------------------------------------
(* provider_errors.py, provider_adapter.py.                                *)

NoError == "no error"

ProviderErrorCode ==
    {"PROVIDER_DISABLED", "NO_API_KEY", "INVALID_API_KEY", "INVALID_MODEL", "UNSUPPORTED_L2",
     "TIMEOUT", "RATE_LIMIT", "EMPTY_RESPONSE", "INVALID_RESPONSE", "PROVIDER_UNAVAILABLE",
     "PROVIDER_REQUEST_FAILED", "CONFIGURATION_ERROR", "UNKNOWN_PROVIDER_ERROR"}

\* mutant: a failed request is not worth a retry
WithoutFailedRequests(code) == code \in {"TIMEOUT", "RATE_LIMIT", "PROVIDER_UNAVAILABLE"}

\* the field retryable of the error that the code's constructor makes
IsRetryable(code) ==
    code \in {"TIMEOUT", "RATE_LIMIT", "PROVIDER_UNAVAILABLE", "PROVIDER_REQUEST_FAILED"}

LegacyCode ==
    [MISSING_API_KEY        |-> "NO_API_KEY",
     UNSUPPORTED_SCDL_LEVEL |-> "UNSUPPORTED_L2",
     RATE_LIMITED           |-> "RATE_LIMIT",
     SDK_NOT_INSTALLED      |-> "CONFIGURATION_ERROR",
     MOCK_INVALID_MODE      |-> "CONFIGURATION_ERROR",
     MOCK_INTERNAL_ERROR    |-> "UNKNOWN_PROVIDER_ERROR",
     PROVIDER_EXCEPTION     |-> "UNKNOWN_PROVIDER_ERROR",
     PROVIDER_ERROR         |-> "PROVIDER_REQUEST_FAILED",
     MOCK_ERROR             |-> "PROVIDER_REQUEST_FAILED"]

NormalizedCode(code) ==
    CASE code \in ProviderErrorCode -> code
      [] code \in DOMAIN LegacyCode -> LegacyCode[code]
      [] OTHER                      -> "PROVIDER_REQUEST_FAILED"

ProviderStatus == {"success", "error", "timeout", "rate_limited"}

\* raw_answer; citations without an answer exist only before normalisation
Response == [status: ProviderStatus, answer: {"text", "blank", "none"},
             cited: BOOLEAN, error: ProviderErrorCode \cup {NoError}]

\* what ProviderResponse.__post_init__ insists on
IsLegalResponse(response) ==
    /\ response \in Response
    /\ (response.status = "success") = (response.error = NoError)

Success(cited) == [status |-> "success", answer |-> "text", cited |-> cited, error |-> NoError]

WithError(status, code) == [status |-> status, answer |-> "none", cited |-> FALSE, error |-> code]

\* normalize_provider_response
Normalized(response) ==
    CASE response.status = "success" /\ response.answer = "text"  -> response
      [] response.status = "success" /\ response.answer = "none"  -> WithError("error", "INVALID_RESPONSE")
      [] response.status = "success" /\ response.answer = "blank" -> WithError("error", "EMPTY_RESPONSE")
      [] response.status = "timeout"      -> WithError("timeout", "TIMEOUT")
      [] response.status = "rate_limited" -> WithError("rate_limited", "RATE_LIMIT")
      [] response.status = "error"        -> WithError("error", NormalizedCode(response.error))

-----------------------------------------------------------------------------
(* The adapters.  A target has the level and the model_id of an audit       *)
(* target; env is what the process finds in its environment: api_key, sdk,  *)
(* web_search, the allowed and the configured models, and mock_mode.        *)

Reply == {"text", "blank", "no_text", "nothing", "timeout", "status_429", "status_401",
          "status_400", "status_500", "disconnected", "garbage"}

OpenAIError ==
    [text |-> NoError, blank |-> "EMPTY_RESPONSE", no_text |-> "INVALID_RESPONSE",
     nothing |-> "INVALID_RESPONSE", timeout |-> "TIMEOUT", status_429 |-> "RATE_LIMIT",
     status_401 |-> "PROVIDER_REQUEST_FAILED", status_400 |-> "PROVIDER_REQUEST_FAILED",
     status_500 |-> "PROVIDER_REQUEST_FAILED", disconnected |-> "PROVIDER_REQUEST_FAILED",
     garbage |-> "UNKNOWN_PROVIDER_ERROR"]

\* a list of parts without text is joined to an empty answer
OpenRouterError ==
    [OpenAIError EXCEPT !.no_text = "EMPTY_RESPONSE",
                        !.status_401 = "INVALID_API_KEY",
                        !.status_400 = "INVALID_MODEL"]

AnthropicError ==
    [OpenAIError EXCEPT !.status_401 = "INVALID_API_KEY",
                        !.status_400 = "INVALID_MODEL",
                        !.disconnected = "UNKNOWN_PROVIDER_ERROR"]

\* mutant: a rate limit is an error like another
RateLimitIsError(code) ==
    CASE code = NoError   -> "success"
      [] code = "TIMEOUT" -> "timeout"
      [] OTHER            -> "error"

\* _map_error_status, _status_for_error, _status_for_error_dict
StatusOfCode(code) ==
    CASE code = NoError      -> "success"
      [] code = "TIMEOUT"    -> "timeout"
      [] code = "RATE_LIMIT" -> "rate_limited"
      [] OTHER               -> "error"

\* the response to a call that was made
Answered(code, cited) ==
    IF code = NoError THEN Success(cited) ELSE WithError(StatusOfCode(code), code)

NotCalled(code) == [response |-> WithError("error", code), model |-> NoModel]

Called(code, cited, model) == [response |-> Answered(code, cited), model |-> model]

MockError ==
    [success |-> NoError, empty |-> "EMPTY_RESPONSE", error |-> "PROVIDER_REQUEST_FAILED",
     invalid_response |-> "INVALID_RESPONSE", timeout |-> "TIMEOUT",
     rate_limited |-> "RATE_LIMIT", unsupported_l2 |-> "UNSUPPORTED_L2"]

\* the factory builds the mock in mode "success"
MockQuery(mode) == [response |-> Answered(MockError[mode], TRUE), model |-> NoModel]

\* config.model_for_scdl_level: the worker passes model_id, the adapter looks for model
OpenAIQuery(target, env, reply) ==
    CASE ~ env.api_key            -> NotCalled("NO_API_KEY")
      [] env.api_key /\ ~ env.sdk -> NotCalled("CONFIGURATION_ERROR")
      [] OTHER -> Called(OpenAIError[reply], TRUE, env.configured)

AnthropicQuery(target, env, reply) ==
    CASE target.level # "L1" -> NotCalled("UNSUPPORTED_L2")
      [] target.level = "L1" /\ ~ env.api_key -> NotCalled("NO_API_KEY")
      [] target.level = "L1" /\ env.api_key /\ ~ env.sdk -> NotCalled("CONFIGURATION_ERROR")
      [] OTHER -> Called(AnthropicError[reply], FALSE, env.configured)

\* requested_model_id or config.model_for_scdl_level(level)
SelectedModel(target, env) ==
    IF target.model_id # NoModel THEN target.model_id ELSE env.configured

\* the refusal of select_openrouter_model
ModelPolicyError(model, env) ==
    CASE model = NoModel   -> "CONFIGURATION_ERROR"
      [] model # NoModel /\ env.allowed = {} -> "CONFIGURATION_ERROR"
      [] model # NoModel /\ env.allowed # {} /\ model \notin PrefixedModels \cap env.allowed
           -> "INVALID_MODEL"
      [] OTHER -> NoError

OpenRouterQuery(target, env, reply) ==
    LET model == SelectedModel(target, env)
        refusal == ModelPolicyError(model, env)
    IN  CASE target.level = "L2" /\ ~ env.web_search -> NotCalled("CONFIGURATION_ERROR")
          [] (target.level = "L1" \/ env.web_search) /\ refusal # NoError -> NotCalled(refusal)
          [] (target.level = "L1" \/ env.web_search) /\ refusal = NoError /\ ~ env.api_key
               -> NotCalled("NO_API_KEY")
          [] OTHER -> Called(OpenRouterError[reply], target.level = "L2", model)

Adapter == {"mock", "openai", "anthropic", "openrouter"}

Query(adapter, target, env, reply) ==
    CASE adapter = "mock"       -> MockQuery(env.mock_mode)
      [] adapter = "openai"     -> OpenAIQuery(target, env, reply)
      [] adapter = "anthropic"  -> AnthropicQuery(target, env, reply)
      [] adapter = "openrouter" -> OpenRouterQuery(target, env, reply)

-----------------------------------------------------------------------------
(* pilot_config.py, provider_factory.py.                                   *)

SupportedExecutionProviders == {"mock", "openai", "openrouter", "anthropic", "gemini"}

OpenRouterGatewayProviders == {"openrouter", "openai", "anthropic", "gemini"}

ProviderMode == {"mock", "openai", "openrouter", "anthropic"}

\* the providers a real provider mode executes
ProvidersOfMode(mode) ==
    IF mode = "openrouter" THEN OpenRouterGatewayProviders ELSE {mode}

WithinPilotCaps(audit, config) ==
    LET provider_count == Cardinality(audit.providers)
    IN  /\ config.provider_mode = "openrouter" => provider_count = 1
        /\ provider_count <= config.max_providers
        /\ audit.query_count <= config.max_queries
        /\ audit.runs_per_query <= config.max_runs_per_query
        /\ audit.query_count * provider_count * audit.runs_per_query <= config.max_total_runs

\* validate_audit_against_pilot_config does not raise
PolicyAccepts(audit, config) ==
    /\ audit.providers # {}
    /\ audit.providers \subseteq SupportedExecutionProviders
    /\ \/ audit.providers = {"mock"}
       \/ /\ config.provider_mode # "mock"
          /\ audit.providers \subseteq ProvidersOfMode(config.provider_mode)
          /\ config.real_provider_enabled
          /\ WithinPilotCaps(audit, config)

\* mutant: gemini is forgotten in the list of providers routed through the gateway
RoutedWithoutGemini(provider, config) ==
    config.provider_mode = "openrouter" /\ provider \in OpenRouterGatewayProviders \ {"gemini"}

IsRouted(provider, config) ==
    config.provider_mode = "openrouter" /\ provider \in OpenRouterGatewayProviders

\* the adapter build_provider_adapter chooses; "refused" is PilotPolicyError
AdapterOf(provider, config) ==
    CASE provider = "mock"           -> "mock"
      [] IsRouted(provider, config)  -> IF config.real_provider_enabled THEN "openrouter" ELSE "refused"
      [] /\ provider \in {"openai", "anthropic"}
         /\ config.provider_mode = provider
         /\ config.real_provider_enabled -> provider
      [] OTHER -> "refused"

\* validate_*_config_for_pilot: the mode's API key is there
HasCredentials(adapter, keys) == adapter = "mock" \/ adapter \in keys

BuildProviderAdapter(provider, config, keys) ==
    LET adapter == AdapterOf(provider, config)
    IN  IF adapter \in Adapter /\ ~ HasCredentials(adapter, keys) THEN "refused" ELSE adapter
=============================================================================
