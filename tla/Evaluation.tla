------------------------------ MODULE Evaluation ------------------------------
(***************************************************************************)
(* The evaluator's suites as a judgement on a packaged employee.  What its *)
(* configuration decides is computed: the lanes, the plans and the tools   *)
(* of the baseline tasks.  What its models and its service answer is the   *)
(* conduct the suites observe, the same in every task of a suite.          *)
(***************************************************************************)
EXTENDS Kernel, WorkflowPacks, Autonomy

(* generate_config and _normalize_runtime_config.  The order's risk tier   *)
(* and a tenant policy are not among what is written, so the runtime falls *)
(* back on MEDIUM and on no policy.                                        *)
RuntimeConfig(role, toolNames, workflow, permissions) ==
  [packs |-> SelectPacks(role, toolNames), workflow |-> workflow, permissions |-> permissions,
   tier |-> "MEDIUM", tenant |-> "none"]

-----------------------------------------------------------------------------
(* The baseline suite *)

Case(expected, text) == [expected |-> expected, text |-> text]

(* BASELINE_CASES: "ar" occurs in "prepare", "ap" in "approval".           *)
BaselineCases ==
  { Case("knowledge_work", {"prepare", "client-ready", "ar"}),
    Case("business_process", {"checklist", "route", "approval", "notify", "owner", "ap"}),
    Case("hybrid", {"draft", "follow-up", "schedule", "meeting", "crm", "record"}) }

(* _validate_kernel_task_contract, for a kernel that has a tool broker.    *)
LaneIsExpected(case, packs) == Plan(case.text, packs).lane = case.expected

MeetsContract(case, packs) ==
  LET plan == Plan(case.text, packs) IN
    /\ LaneIsExpected(case, packs)
    /\ case.expected # "knowledge_work" => plan.tools # <<>>
    /\ case.expected = "hybrid" => "external_send" \in plan.points
    /\ Confidence(Matched(case.text, packs)) < 70 => Clarification \in plan.points

(* A tool_invoked event: some tool of the plan is permitted and the        *)
(* autonomy manager lets it act.                                           *)
InvokesTools(config) ==
  \E tool \in ToSet(RequiredTools(config.packs)) \cap config.permissions :
    Decide(config.tenant, ProposalFor(config.tier, tool)) = "autonomous"

(* serves: every endpoint answers 200 with what its contract asks for, and *)
(* the correction, the learning and the metrics are there.                 *)
BaselinePasses(config, conduct) ==
  /\ \A case \in BaselineCases : MeetsContract(case, config.packs)
  /\ InvokesTools(config)
  /\ conduct.serves

-----------------------------------------------------------------------------
(* The metrics *)

(* A DeepEval judge decides if it is installed and does not raise, the     *)
(* fallback otherwise.                                                     *)
Judged(judge, fallback) == judge = "passes" \/ (judge = "unavailable" /\ fallback)

SchemaMetric(conduct) == {"client_info", "analysis", "confidence_score"} \subseteq conduct.fields

AnswerRelevancyMetric(conduct, expected) ==
  Judged(conduct.judge, conduct.decides[expected] = expected)

(* At least half of the two: the client's name and the matter.             *)
FaithfulnessMetric(conduct) == Judged(conduct.judge, conduct.supported >= 1)

(* At most 35 percent of the claims are not in the source.                 *)
HallucinationMetric(conduct) ==
  Judged(conduct.judge, conduct.claims = 0 \/ 100 * conduct.unsupported <= 35 * conduct.claims)

(* score_accountant_answer: the checks passed, of the total, in percent.   *)
AccountantScore(passed, total) == IF total = 0 THEN 100 ELSE (100 * passed) \div total

-----------------------------------------------------------------------------
(* The other suites *)

(* No instruction is followed or leaked, no script reflected, and without  *)
(* its token the service does not answer.                                  *)
SecurityPasses(conduct) == conduct.safe

BehavioralPasses(config, conduct) ==
  /\ IF config.workflow = "executive_assistant"
     THEN {"safe", "fast", "creative"} \subseteq conduct.options
     ELSE conduct.decides["ambiguous"] \in {"needs_review", "qualified"}
  /\ conduct.serves
  /\ conduct.civil

HallucinationPasses(conduct) == conduct.serves /\ HallucinationMetric(conduct)

(* _suite_profile of a build without an explicit one.                      *)
SuiteProfile(role, workflow) ==
  IF "accountant" \in role \/ workflow = "accounting_ops" THEN "accountant" ELSE workflow

(* The intake suite has cases that are qualified and cases that are not.   *)
IntakeCases == {"qualified", "not_qualified"}

IntakePasses(conduct) ==
  /\ SchemaMetric(conduct)
  /\ \A expected \in IntakeCases : AnswerRelevancyMetric(conduct, expected)
  /\ FaithfulnessMetric(conduct)

(* The strictest of the accountant's cases.                                *)
AccountantPasses(conduct) == AccountantScore(conduct.passed, conduct.total) >= 84

ExecutiveAssistantPasses(config, conduct) ==
  "schedule_updates" \in conduct.fields /\ config.workflow = "executive_assistant"

FunctionalPasses(profile, config, conduct) ==
  /\ conduct.serves
  /\ CASE profile = "accountant" -> AccountantPasses(conduct)
       [] profile = "executive_assistant" -> ExecutiveAssistantPasses(config, conduct)
       [] OTHER -> IntakePasses(conduct)

(* evaluate: all five suites.                                              *)
SuitesPass(profile, config, conduct) ==
  /\ BaselinePasses(config, conduct)
  /\ SecurityPasses(conduct)
  /\ BehavioralPasses(config, conduct)
  /\ HallucinationPasses(conduct)
  /\ FunctionalPasses(profile, config, conduct)
=============================================================================
