------------------------------- MODULE Architect -------------------------------
(***************************************************************************)
(* design_employee: the library components that serve a requirements       *)
(* document, the custom code for the tools no component serves, and the    *)
(* blueprint made of both.                                                 *)
(***************************************************************************)
EXTENDS Naturals, Sequences, FiniteSets

CONSTANT
  Words   \* the tool names a client may ask for, each with the keywords in it

Tools == DOMAIN Words

(* TOOL_MAP, in the order its keywords are tried.                          *)
Keywords == <<"email", "calendar", "messaging", "slack", "teams", "crm", "search">>

ToolMap ==
  [email |-> "email_tool", calendar |-> "calendar_tool", messaging |-> "messaging_tool",
   slack |-> "messaging_tool", teams |-> "messaging_tool", crm |-> "crm_tool",
   search |-> "search_tool"]

ASSUME WordsAssumption == \A t \in Tools : Words[t] \subseteq DOMAIN ToolMap

EmployeeTypes == {"legal_intake_associate", "executive_assistant", "accountant"}

Common ==
  {"litellm_router", "draft_generator", "email_tool", "operational_memory", "working_memory",
   "context_assembler", "org_context", "confidence_scorer", "audit_system",
   "input_protection", "verification_layer"}

Office == Common \cup {"workflow_executor", "communication_manager", "calendar_tool", "autonomy_manager"}

Baseline ==
  [legal_intake_associate |-> Common \cup {"text_processor", "document_analyzer"},
   executive_assistant |-> Office \cup {"scheduler_manager", "messaging_tool", "crm_tool"},
   accountant |-> Office \cup {"document_analyzer", "data_analyzer", "file_storage_tool",
                               "approval_manager"}]

(* What the workflow of each type cannot do without.                       *)
Indispensable ==
  [legal_intake_associate |-> {"text_processor", "document_analyzer", "draft_generator"},
   executive_assistant |-> {"workflow_executor", "communication_manager", "scheduler_manager"},
   accountant |-> {"workflow_executor", "communication_manager", "data_analyzer",
                   "approval_manager"}]

ToolComponents ==
  {"email_tool", "calendar_tool", "messaging_tool", "crm_tool", "search_tool",
   "file_storage_tool", "custom_api_tool"}

(* The library: every component has status production.                     *)
Library == UNION {Baseline[e] : e \in EmployeeTypes} \cup ToolComponents
           \cup {"explainability", "adversarial_review", "compliance_rules"}

-----------------------------------------------------------------------------
(* select_components.  A requirement is [type, risk, tools].               *)

Named(tool) == {ToolMap[k] : k \in Words[tool]}

QualityBase(risk) ==
  {"autonomy_manager", "explainability"}
    \cup IF risk \in {"high", "critical"}
         THEN {"adversarial_review", "approval_manager", "compliance_rules"} ELSE {}

(* The rule-based selection.                                               *)
SelectedByRules(req) ==
  Baseline[req.type] \cup UNION {Named(t) : t \in req.tools} \cup QualityBase(req.risk)

(* _validate_selected_components raises ArchitectError otherwise.          *)
Validated(req, components, unknownAllowed) ==
  /\ \A t \in req.tools : IF Words[t] = {} THEN unknownAllowed
                          ELSE Named(t) \cap components # {}
  /\ Indispensable[req.type] \subseteq components

(* A model's own list is checked, with every tool known.                   *)
Proposed(req, proposed) == {c \in {proposed} : Validated(req, c, FALSE)}

(* The selection ends with one of these lists or, if there is none, in an  *)
(* error.  Only a model that does not answer makes it fall back on the     *)
(* rules, not a list that is rejected.                                     *)
Selections(req, proposed) ==
  IF proposed = {} THEN {c \in {SelectedByRules(req)} : Validated(req, c, TRUE)}
  ELSE Proposed(req, proposed)

-----------------------------------------------------------------------------
(* identify_gaps *)

(* The component of the first keyword in the tool's name.                  *)
FirstMatch(tool) ==
  {ToolMap[Keywords[i]] :
     i \in {i \in DOMAIN Keywords :
              /\ Keywords[i] \in Words[tool]
              /\ \A j \in 1..(i - 1) : Keywords[j] \notin Words[tool]}}

(* Mutation of Gaps: a tool without a keyword is skipped.                  *)
Gaps_Matched(req, components) ==
  {t \in req.tools : FirstMatch(t) # {} /\ FirstMatch(t) \cap components \cap ToolComponents = {}}

(* _identify_gaps_fallback: the tools that get a custom code spec.         *)
Gaps(req, components) ==
  {t \in req.tools : FirstMatch(t) \cap components \cap ToolComponents = {}}

-----------------------------------------------------------------------------
(* assemble_blueprint *)

WorkflowOf ==
  [legal_intake_associate |-> "legal_intake", executive_assistant |-> "executive_assistant",
   accountant |-> "accounting_ops"]

(* The autonomy profile, in percent.                                       *)
AutonomyProfile(risk) ==
  [auto_approve |-> IF risk = "critical" THEN 95 ELSE 85, escalate |-> 60, block |-> 40,
   irreversible_needs_human |-> TRUE, always_human |-> risk = "critical"]

Blueprint(req, components, gaps, by) ==
  [components |-> components, specs |-> gaps, gaps_by |-> by, workflow |-> WorkflowOf[req.type],
   tool_permissions |-> components \cap ToolComponents,
   autonomy |-> AutonomyProfile(req.risk)]

(* identify_gaps asks a model first, which may name any specs; without an  *)
(* API key its failure leaves the rules, with one it is the stage's.       *)
GapsFound(req, components, key, answered) ==
  IF answered THEN [gaps : SUBSET req.tools, by : {"model"}]
  ELSE IF key THEN {} ELSE {[gaps |-> Gaps(req, components), by |-> "rules"]}

(* design_employee, for what its models answer: it raises if this is {}.   *)
Blueprints(req, proposed, key, answered) ==
  UNION {{Blueprint(req, c, g.gaps, g.by) : g \in GapsFound(req, c, key, answered)} :
           c \in Selections(req, proposed)}

-----------------------------------------------------------------------------
(* What a blueprint owes its client: every tool asked for is served by a   *)
(* permitted component or by custom code.                                  *)
Serves(blueprint, req) ==
  \A t \in req.tools :
    Named(t) \cap blueprint.tool_permissions # {} \/ t \in blueprint.specs
=============================================================================
