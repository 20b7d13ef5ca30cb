----------------------------- MODULE ModelRouting -----------------------------
(***************************************************************************)
(* The two language-model clients.  LitellmRouter picks a model for the    *)
(* task and asks the fallback model once after a transient failure;        *)
(* AnthropicProvider asks one model up to three times.  What a model       *)
(* answers a request is the environment's choice.                          *)
(***************************************************************************)
EXTENDS Naturals, Sequences

Unset == ""   \* a model that is not configured

TaskTypes == {"primary", "default", "structured", "creative", "fallback",
              "reasoning", "safety", "fast", "embedding"}

(* How a request to a model can end.                                       *)
Answers == {"text", "rate_limit", "unavailable", "connection", "auth", "bad_request"}

-----------------------------------------------------------------------------
(* LitellmRouter *)

(* initialize: a key that is absent from the configuration is the primary  *)
(* model; overrides maps task types to models.                             *)
Router(primary, fallback, fast) ==
  [primary |-> primary, fallback |-> fallback, fast |-> fast,
   reasoning |-> primary, safety |-> primary, embedding |-> primary]

Or(model, default) == IF model = Unset THEN default ELSE model

(* _resolve: the model of a task type.                                     *)
Resolve(router, overrides, task) ==
  CASE task \in DOMAIN overrides -> overrides[task]
    [] task \notin DOMAIN overrides /\ task \in {"fallback", "reasoning", "safety", "fast", "embedding"}
         -> Or(router[task], router.primary)
    [] OTHER -> router.primary

(* The model complete asks when the first fails, if there is one.          *)
Second(router, model) == {router.fallback} \ {Unset, model}

Transient == {"rate_limit", "unavailable", "connection"}

(* _call_with_fallback: the models it asks, in order, when they would give *)
(* these answers.                                                          *)
Asked(router, model, answer) ==
  <<model>> \o (IF answer[model] \in Transient /\ Second(router, model) # {}
                THEN <<router.fallback>> ELSE <<>>)

(* complete returns a text, or raises.                                     *)
Completes(router, model, answer) ==
  LET asked == Asked(router, model, answer) IN answer[asked[Len(asked)]] = "text"

-----------------------------------------------------------------------------
(* The configurations the factory gives a router *)

Keys == {"openrouter", "openai", "neither"}

(* _component_config and _deliberation_config.                             *)
ConfiguredModels(key, settings) ==
  IF key = "openai" THEN [primary |-> "gpt-4o", fallback |-> "gpt-4o-mini"]
  ELSE [primary |-> settings.primary, fallback |-> settings.fallback]

ComponentRouter(key, settings) ==
  LET models == ConfiguredModels(key, settings)
  IN  Router(models.primary, models.fallback, models.fallback)

(* _create_generation_client: the model by the first key that is set.      *)
GenerationRouter(anthropic, key, settings) ==
  Router(IF anthropic \/ key = "neither" THEN settings.generator
         ELSE IF key = "openrouter" THEN settings.primary ELSE "gpt-4o",
         settings.fallback,
         IF anthropic \/ key = "neither" THEN settings.generator
         ELSE IF key = "openrouter" THEN settings.primary ELSE "gpt-4o")

-----------------------------------------------------------------------------
(* AnthropicProvider *)

MaxAttempts == 3
Retried == {"rate_limit", "unavailable"}

(* _call_with_retry: how many requests it makes when the i-th would be     *)
(* answered answer[i]: it stops at the first that is not worth a retry.    *)
Attempts(answer) ==
  CHOOSE n \in 1..MaxAttempts :
    /\ \A i \in 1..(n - 1) : answer[i] \in Retried
    /\ n = MaxAttempts \/ answer[n] \notin Retried

ProviderCompletes(answer) == answer[Attempts(answer)] = "text"
=============================================================================
