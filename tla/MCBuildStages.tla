----------------------------- MODULE MCBuildStages -----------------------------
EXTENDS BuildStages

Vocabulary == [email |-> {"email"}, chat |-> {"teams", "crm"}, erp |-> {}, lims |-> {}]

Orders ==
  {[type |-> "legal_intake_associate", role |-> {"legal"}, risk |-> "high", tools |-> {"email", "erp"}],
   [type |-> "legal_intake_associate", role |-> {"legal"}, risk |-> "low", tools |-> {"chat"}],
   [type |-> "accountant", role |-> {"accounting", "accountant"}, risk |-> "critical",
    tools |-> {"lims"}]}

(* No list; one that serves legal intake; one with a tool that no file of  *)
(* the library implements; one that lacks what intake needs.               *)
Lists ==
  LET intake == Baseline["legal_intake_associate"] \cup {"messaging_tool"} IN
    {{}, intake, intake \cup {"fax_tool"}, intake \ {"text_processor"}}

(* An employee that does everything right, and one whose extraction is not *)
(* supported by the source.                                                *)
Faultless ==
  [serves |-> TRUE, safe |-> TRUE, civil |-> TRUE, judge |-> "unavailable",
   decides |-> [ambiguous |-> "needs_review", qualified |-> "qualified", not_qualified |-> "not_qualified"],
   options |-> {"safe", "fast", "creative"}, supported |-> 2, claims |-> 4, unsupported |-> 0,
   fields |-> {"client_info", "analysis", "confidence_score", "schedule_updates"},
   passed |-> 10, total |-> 10]

Observed == {Faultless, [Faultless EXCEPT !.supported = 0, !.unsupported = 2]}

Settings == [generator |-> "claude", primary |-> "claude", fallback |-> "gpt"]

Clients ==
  {[router |-> GenerationRouter(TRUE, "neither", Settings), key |-> TRUE],
   [router |-> GenerationRouter(FALSE, "openai", [Settings EXCEPT !.fallback = "gpt-4o"]),
    key |-> FALSE]}
=============================================================================
