-------------------------------- MODULE Kernel --------------------------------
(***************************************************************************)
(* The deterministic part of an employee's kernel: how it classifies a     *)
(* task, what plan it makes of it with the packs it was given, and which   *)
(* action it asks of each tool.  A text is the set of the known terms that *)
(* occur in it; a pack is [lanes, hints, tools, asks].                     *)
(***************************************************************************)
EXTENDS Naturals, Sequences, FiniteSets, SequencesExt

KnowledgeTerms ==
  {"prepare", "draft", "summarize", "analyze", "brief", "memo", "report", "research",
   "recommend", "compare", "explain", "investor", "client-ready", "client update", "follow-up"}

ProcessTerms ==
  {"route", "notify", "schedule", "create", "mark", "reconcile", "checklist", "crm",
   "calendar", "send", "approve", "approval", "owner", "record"}

RiskyActions ==
  {"external_send", "post_journal_entry", "case_acceptance", "legal_advice", "file_tax_return"}

Clarification == "low_confidence_clarification"

Lanes == {"knowledge_work", "business_process", "hybrid"}

-----------------------------------------------------------------------------
(* classify_task *)

(* The packs' hints in the text that count for a lane they support.        *)
Hinted(text, packs, lane) ==
  UNION {p.hints \cap text : p \in {q \in ToSet(packs) : lane \in q.lanes}}

Matched(text, packs) ==
  [knowledge |-> (text \cap KnowledgeTerms) \cup Hinted(text, packs, "knowledge_work"),
   process |-> (text \cap ProcessTerms) \cup Hinted(text, packs, "business_process")]

Lane(matched) ==
  IF matched.process = {} THEN "knowledge_work"
  ELSE IF matched.knowledge = {} THEN "business_process" ELSE "hybrid"

(* 0.55 and 0.08 for each term, at most 0.95, in percent.                  *)
Confidence(matched) ==
  LET bonus == 8 * Cardinality(matched.knowledge \cup matched.process)
  IN  55 + IF bonus < 40 THEN bonus ELSE 40

-----------------------------------------------------------------------------
(* create_task_plan *)

(* Every pack's tools, each once, in the order of the packs.               *)
RequiredTools(packs) ==
  FoldLeft(LAMBDA tools, pack : tools \o SelectSeq(pack.tools, LAMBDA t : t \notin ToSet(tools)),
           <<>>, packs)

ApprovalPoints(packs, confidence) ==
  LET asked == {"external_send"} \cup UNION {p.asks : p \in ToSet(packs)} IN
    (asked \cap RiskyActions) \cup IF confidence < 70 THEN {Clarification} ELSE {}

(* approval_required of the lane that handles the plan.                    *)
ApprovalRequired(lane, points) ==
  \/ Clarification \in points
  \/ lane # "knowledge_work" /\ points # {}

Plan(text, packs) ==
  LET matched == Matched(text, packs)
      points == ApprovalPoints(packs, Confidence(matched))
  IN  [lane |-> Lane(matched), tools |-> RequiredTools(packs), points |-> points,
       asks |-> ApprovalRequired(Lane(matched), points)]

-----------------------------------------------------------------------------
(* _safe_tool_action: what the kernel asks of each tool.                   *)
SafeAction(tool) ==
  CASE tool = "email_tool" -> "check_inbox"
    [] tool = "messaging_tool" -> "history"
    [] tool = "calendar_tool" -> "list_events"
    [] tool = "crm_tool" -> "lookup_contact"
    [] tool = "custom_api_tool" -> "get"
    [] OTHER -> "provider_status"

ClassifyAction(tool, action) ==
  CASE <<tool, action>> \in {<<"email_tool", "send">>, <<"messaging_tool", "send">>} -> "irreversible"
    [] <<tool, action>> \in {<<"calendar_tool", "create_event">>, <<"crm_tool", "upsert_contact">>}
         -> "semi_reversible"
    [] OTHER -> "reversible"

(* The broker's proposal for a call of the kernel, which passes confidence *)
(* 0.9 and no recipients.                                                  *)
ProposalFor(tier, tool) ==
  [tier |-> tier, type |-> ClassifyAction(tool, SafeAction(tool)), confidence |-> 90,
   recipients |-> 0]
=============================================================================
