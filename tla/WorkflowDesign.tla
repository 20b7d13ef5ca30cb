--------------------------- MODULE WorkflowDesign ---------------------------
(***************************************************************************)
(* The workflow graphs of an employee: what the architect designs without  *)
(* a model, what the blueprint accepts from a model, and how the edges of  *)
(* a node are read.  adapter maps a node to its adapter; an edge carries a          *)
(* condition on the state of the run.                                      *)
(***************************************************************************)
EXTENDS Integers, Sequences, FiniteSets

Always == [op |-> "none", field |-> "", value |-> 0]
AtLeast(field, value) == [op |-> ">=", field |-> field, value |-> value]
Equals(field, value) == [op |-> "==", field |-> field, value |-> value]
Within(field, values) == [op |-> "in", field |-> field, value |-> values]
Has(field) == [op |-> "has", field |-> field, value |-> TRUE]

(* requires_human_approval == true                                         *)
Asked == Equals("asks", TRUE)

Edge(a, b, cond) == [from |-> a, to |-> b, cond |-> cond]
Chain(nodes) == [i \in 1..(Len(nodes) - 1) |-> Edge(nodes[i], nodes[i + 1], Always)]

Graph(adapter, edges, entry, terminals) ==
  [adapter |-> adapter, edges |-> edges, entry |-> entry, terminals |-> terminals]

Nodes(g) == DOMAIN g.adapter

-----------------------------------------------------------------------------
(* WorkflowGraphSpec.validate_graph *)

Follow(g, nodes) == {g.edges[i].to : i \in {j \in DOMAIN g.edges : g.edges[j].from \in nodes}}

Reachable(g) ==
  LET reach[i \in 0..Cardinality(Nodes(g))] ==
        IF i = 0 THEN {g.entry} ELSE reach[i - 1] \cup Follow(g, reach[i - 1])
  IN  reach[Cardinality(Nodes(g))]

Valid(g) ==
  /\ g.entry \in Nodes(g)
  /\ g.terminals # {} /\ g.terminals \subseteq Nodes(g)
  /\ \A i \in DOMAIN g.edges : {g.edges[i].from, g.edges[i].to} \subseteq Nodes(g)
  /\ Reachable(g) = Nodes(g)

-----------------------------------------------------------------------------
(* _design_fallback *)

ExecutiveGraph ==
  Graph([sanitize_input |-> "sanitize_input", plan_work |-> "executive_plan",
         coordinate_schedule |-> "executive_schedule", draft_response |-> "executive_draft",
         request_approval |-> "builtin_request_approval", deliver |-> "builtin_deliver",
         log_completion |-> "builtin_log_completion"],
        Chain(<<"sanitize_input", "plan_work", "coordinate_schedule", "draft_response">>)
          \o <<Edge("draft_response", "request_approval", Asked),
               Edge("draft_response", "deliver", Always)>>
          \o Chain(<<"request_approval", "deliver", "log_completion">>),
        "sanitize_input", {"log_completion"})

AccountantGraph ==
  Graph([sanitize_input |-> "sanitize_input", plan_close_work |-> "accounting_close_plan",
         reconcile_bank_feed |-> "bank_feed_gl_reconciliation",
         review_ap_ar_aging |-> "ap_ar_aging_review", explain_variances |-> "variance_analysis",
         update_close_checklist |-> "close_checklist", draft_statements |-> "statement_draft",
         request_finance_approval |-> "finance_approval_boundary", deliver |-> "builtin_deliver",
         log_completion |-> "builtin_log_completion"],
        Chain(<<"sanitize_input", "plan_close_work", "reconcile_bank_feed", "review_ap_ar_aging",
                "explain_variances", "update_close_checklist", "draft_statements",
                "request_finance_approval", "deliver", "log_completion">>),
        "sanitize_input", {"log_completion"})

LegalNodes ==
  [sanitize_input |-> "sanitize_input", extract_information |-> "legal_extract",
   analyze_intake |-> "legal_analyze", conflict_checker |-> "custom",
   score_confidence |-> "legal_confidence", flag_for_review |-> "builtin_flag_for_review",
   generate_brief |-> "legal_generate_brief", deliberate_output |-> "deliberation_review",
   escalate |-> "builtin_escalate", deliver |-> "builtin_deliver",
   log_completion |-> "builtin_log_completion"]

(* The first gap is checked before the score, a council after the brief.   *)
LegalGraph(gap, council) ==
  LET absent == (IF gap THEN {} ELSE {"conflict_checker"})
                  \cup (IF council THEN {} ELSE {"deliberate_output"})
      before == IF gap
                THEN <<"sanitize_input", "extract_information", "analyze_intake", "conflict_checker",
                       "score_confidence">>
                ELSE <<"sanitize_input", "extract_information", "analyze_intake", "score_confidence">>
      after == IF council
               THEN <<"generate_brief", "deliberate_output", "deliver", "log_completion">>
               ELSE <<"generate_brief", "deliver", "log_completion">>
  IN  Graph([n \in DOMAIN LegalNodes \ absent |-> LegalNodes[n]],
            Chain(before)
              \o <<Edge("score_confidence", "generate_brief", AtLeast("score", 85)),
                   Edge("score_confidence", "flag_for_review", AtLeast("score", 40)),
                   Edge("score_confidence", "escalate", Always),
                   Edge("flag_for_review", "generate_brief", Always)>>
              \o Chain(after) \o <<Edge("escalate", "deliver", Always)>>,
            "sanitize_input", {"log_completion"})

Fallbacks == {ExecutiveGraph, AccountantGraph} \cup {LegalGraph(gap, council) : gap, council \in BOOLEAN}

(* The fallback designs pass the validation of the blueprint.              *)
ASSUME FallbacksAreValid == \A g \in Fallbacks : Valid(g)

-----------------------------------------------------------------------------
(* Edges of a node *)

(* Edges are known by their place in the list.                             *)
From(g, n) == {i \in DOMAIN g.edges : g.edges[i].from = n}
Unconditional(g, n) == {i \in From(g, n) : g.edges[i].cond.op = "none"}
Conditional(g, n) == From(g, n) \ Unconditional(g, n)

First(places) == CHOOSE i \in places : \A j \in places : i <= j

(* condition_to_callable: a missing field is 0, "" or FALSE in the state.  *)
Holds(cond, st) ==
  CASE cond.op = ">=" -> st[cond.field] >= cond.value
    [] cond.op = "in" -> st[cond.field] \in cond.value
    [] cond.op \in {"==", "has"} -> st[cond.field] = cond.value

(* The first conditional edge that matches, else the first unconditional   *)
(* one: the node to go to, or none.                                        *)
FirstMatch(g, n, st) ==
  LET hits == {i \in Conditional(g, n) : Holds(g.edges[i].cond, st)}
      open == IF hits # {} THEN hits ELSE Unconditional(g, n)
  IN  IF open = {} THEN {} ELSE {g.edges[First(open)].to}
=============================================================================
