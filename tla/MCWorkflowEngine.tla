-------------------------- MODULE MCWorkflowEngine --------------------------
EXTENDS WorkflowEngine, TLC

(* Two nodes that plan side by side, one that is planned again while it    *)
(* asks for approval, one whose brief is redrafted until its council has     *)
(* approved it, one without a fallback, and one that is not valid.         *)
Designed ==
  LET adapters == "sanitize" :> "sanitize_input" @@ "plan" :> "executive_plan"
                    @@ "schedule" :> "executive_schedule" @@ "done" :> "builtin_log_completion"
      legal == "sanitize" :> "sanitize_input" @@ "plan" :> "executive_plan"
                    @@ "extract" :> "legal_extract" @@ "done" :> "builtin_log_completion"
      argued == "sanitize" :> "sanitize_input" @@ "review" :> "deliberation_review"
                  @@ "done" :> "builtin_log_completion"
  IN  { Graph(adapters, <<Edge("sanitize", "plan", Always), Edge("sanitize", "schedule", Always)>>
                          \o Chain(<<"plan", "done">>) \o Chain(<<"schedule", "done">>),
              "sanitize", {"done"}),
        Graph(legal, <<Edge("sanitize", "plan", Always), Edge("sanitize", "extract", Always)>>
                       \o Chain(<<"plan", "done">>) \o Chain(<<"extract", "done">>),
              "sanitize", {"done"}),
        Graph(adapters, Chain(<<"sanitize", "plan", "schedule">>)
                          \o <<Edge("schedule", "plan", Asked),
                               Edge("schedule", "done", Always)>>,
              "sanitize", {"done"}),
        Graph(argued, Chain(<<"sanitize", "review">>)
                        \o <<Edge("review", "review", Asked),
                             Edge("review", "done", Always)>>,
              "sanitize", {"done"}),
        Graph(legal, Chain(<<"sanitize", "extract", "plan">>)
                       \o <<Edge("plan", "done", Within("decision", {"qualified"})),
                               Edge("plan", "done", Has("brief"))>>,
              "sanitize", {"done"}),
        Graph(adapters, Chain(<<"sanitize", "plan", "done">>), "sanitize", {"done"}) }
=============================================================================
