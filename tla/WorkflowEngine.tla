--------------------------- MODULE WorkflowEngine ---------------------------
(***************************************************************************)
(* The workflow runner of an employee.  The same task is run twice: by the *)
(* compiled graph (process_task, behind the REST endpoint and the daily    *)
(* loop) and then by the streaming loop (process_task_streaming, behind    *)
(* the chat socket), which reads the edges itself.  A deliberation node    *)
(* waits for its council, which may argue several times.                   *)
(***************************************************************************)
EXTENDS WorkflowDesign

CONSTANTS
  ModelGraphs,     \* graphs a model may design
  Scores,          \* overall_score of a legal intake, in percent
  MaxReruns,       \* max_reruns of the council
  RecursionLimit,  \* supersteps of the compiled graph (25)
  StepBudget       \* nodes of the streaming loop (50)

ASSUME EngineAssumption ==
  /\ Scores \subseteq 0..100
  /\ MaxReruns \in Nat /\ RecursionLimit \in Nat /\ StepBudget \in Nat
  /\ \A g \in ModelGraphs : DOMAIN g.edges = 1..Len(g.edges)

VARIABLES
  graph,   \* the workflow of the employee
  given,   \* what the components will answer on this task
  run      \* the run of each engine

engineVars == <<graph, given, run>>

-----------------------------------------------------------------------------
Engines == {"graph", "stream"}

(* What a planning node answers: the executor's plan, or instead of it an  *)
(* accounting advice, by the model or as packaged, to be reviewed or not.  *)
Plans == {"plain", "asks", "advice", "advice_review"}

(* The answers that the routes and the approval depend on: the confidence  *)
(* score, the plan, and what a generated component returns.                *)
Answers == [score : Scores, plan : Plans, custom : {"nothing", "asks", "clears", "raises"}]

(* EmployeeState, cut to what guards, routes and properties read.          *)
NewState == [sanitized |-> FALSE, extracted |-> FALSE, analysed |-> FALSE, scored |-> FALSE, score |-> 0,
             brief |-> FALSE, output |-> {}, asks |-> FALSE, decision |-> "", council |-> "none",
             delivery |-> "", completed |-> FALSE]

(* A run is at some nodes with the state st; steps are the places it has   *)
(* been at, with the verdict of the council that sat there.                *)
RunAs(stage, at, st, steps) ==
  [stage |-> stage, at |-> at, st |-> st, steps |-> steps, verdict |-> "none", attempt |-> 0]

NewRun == RunAs("waiting", {}, NewState, <<>>)

(* An exception leaves nothing of the run.                                 *)
Failed == RunAs("failed", {}, NewState, <<>>)

Recommendation(score) ==
  IF score >= 85 THEN "proceed" ELSE IF score >= 40 THEN "review" ELSE "escalate"

(* Mutation of AsksAfter: the verdict is read the wrong way round.         *)
AsksAfter_Inverted(verdict) == verdict = "approved"

(* deliberation_review overwrites the flag with the verdict's.             *)
AsksAfter(verdict) == verdict # "approved"

-----------------------------------------------------------------------------
(* _run_component and _run_custom *)

(* What an adapter reads must have been written, or it raises.             *)
Ready(adapter, st) ==
  CASE adapter \in {"legal_extract", "executive_plan", "executive_schedule", "accounting_close_plan"} ->
         st.sanitized
    [] adapter = "legal_analyze" -> st.extracted
    [] adapter = "legal_confidence" -> st.extracted /\ st.analysed
    [] adapter = "legal_generate_brief" -> st.extracted /\ st.analysed /\ st.scored
    [] adapter \in {"executive_draft", "statement_draft"} -> "plan" \in st.output
    [] adapter = "custom" -> given.custom # "raises"
    [] OTHER -> TRUE

Legal(adapter, st) ==
  CASE adapter = "legal_extract" -> [st EXCEPT !.extracted = TRUE]
    [] adapter = "legal_analyze" -> [st EXCEPT !.analysed = TRUE, !.decision = "qualified"]
    [] adapter = "legal_confidence" ->
         [st EXCEPT !.scored = TRUE, !.score = given.score,
                    !.asks = Recommendation(given.score) # "proceed"]
    [] adapter = "legal_generate_brief" -> [st EXCEPT !.brief = TRUE]

(* An advisory answers instead of the plan and says itself whether it is   *)
(* to be reviewed.                                                         *)
Executive(adapter, st) ==
  CASE adapter = "executive_plan" ->
         [st EXCEPT !.output = {"plan"},
                    !.asks = given.plan \in {"asks", "advice_review"}]
    [] adapter = "executive_schedule" -> [st EXCEPT !.output = @ \cup {"schedule"}]
    [] adapter = "executive_draft" -> [st EXCEPT !.brief = TRUE]

Accounting(adapter, st) ==
  CASE adapter = "accounting_close_plan" ->
         [st EXCEPT !.output = {"plan"}, !.asks = given.plan # "advice"]
    [] adapter \in {"bank_feed_gl_reconciliation", "variance_analysis"} ->
         [st EXCEPT !.output = @ \cup {"metrics"}, !.asks = TRUE]
    [] adapter = "ap_ar_aging_review" -> [st EXCEPT !.output = @ \cup {"aging"}, !.asks = TRUE]
    [] adapter = "close_checklist" -> [st EXCEPT !.output = @ \cup {"checklist"}]
    [] adapter = "statement_draft" -> [st EXCEPT !.brief = TRUE, !.asks = TRUE]
    [] adapter = "finance_approval_boundary" -> [st EXCEPT !.asks = TRUE]

Builtin(adapter, st) ==
  CASE adapter = "builtin_flag_for_review" -> [st EXCEPT !.asks = TRUE, !.decision = "needs_review"]
    [] adapter = "builtin_escalate" -> [st EXCEPT !.asks = TRUE, !.decision = "escalated"]
    [] adapter = "builtin_request_approval" -> [st EXCEPT !.delivery = "awaiting_approval"]
    [] adapter = "builtin_deliver" -> [st EXCEPT !.delivery = "delivered"]
    [] adapter = "builtin_log_completion" -> [st EXCEPT !.completed = TRUE]
    [] adapter = "custom" ->
         [st EXCEPT !.asks = IF given.custom = "nothing" THEN @ ELSE given.custom = "asks"]

LegalAdapters == {"legal_extract", "legal_analyze", "legal_confidence", "legal_generate_brief"}
ExecutiveAdapters == {"executive_plan", "executive_schedule", "executive_draft"}
BuiltinAdapters == {"builtin_flag_for_review", "builtin_escalate", "builtin_request_approval",
                    "builtin_deliver", "builtin_log_completion", "custom"}

Effect(adapter, st, verdict) ==
  CASE adapter = "sanitize_input" -> [st EXCEPT !.sanitized = TRUE]
    [] adapter = "deliberation_review" -> [st EXCEPT !.council = verdict, !.asks = AsksAfter(verdict)]
    [] adapter \in LegalAdapters -> Legal(adapter, st)
    [] adapter \in ExecutiveAdapters -> Executive(adapter, st)
    [] adapter \in BuiltinAdapters -> Builtin(adapter, st)
    [] OTHER -> Accounting(adapter, st)

-----------------------------------------------------------------------------
RunEnded(e) == run[e].stage \in {"complete", "failed"}

Deliberates(e) == \E n \in run[e].at : graph.adapter[n] = "deliberation_review"

Change(e, r) == run' = [run EXCEPT ![e] = r] /\ UNCHANGED <<graph, given>>

EngineInit ==
  /\ graph \in Fallbacks \cup {g \in ModelGraphs : Valid(g)}
  /\ given \in Answers
  /\ run = [e \in Engines |-> NewRun]

(* _initial_state, at the entry of the graph.                              *)
Start(e) ==
  /\ run[e].stage = "waiting"
  /\ e = "stream" => RunEnded("graph")
  /\ Change(e, RunAs("running", {graph.entry}, NewState, <<>>))

-----------------------------------------------------------------------------
(* DeliberationCouncil.deliberate *)

Judged(e, verdict) == Change(e, [run[e] EXCEPT !.verdict = verdict])

Sitting(e) == run[e].stage = "running" /\ Deliberates(e) /\ run[e].verdict = "none"

(* The time is looked at before an attempt, never during it.               *)
TimeIsUp(e) == Sitting(e) /\ Judged(e, "rejected")

(* Mutation of Rerun: with no round left the count starts over.            *)
Rerun_StartsOver(e) ==
  /\ Sitting(e)
  /\ Change(e, [run[e] EXCEPT !.attempt = IF @ < MaxReruns THEN @ + 1 ELSE 0])

(* The supervisor wants another round and one is left.                     *)
Rerun(e) ==
  /\ Sitting(e) /\ run[e].attempt < MaxReruns
  /\ Change(e, [run[e] EXCEPT !.attempt = @ + 1])

(* The supervisor is content, or there are no more rounds: the adjudicator *)
(* has decided.                                                            *)
Adjudicate(e, verdict) == Sitting(e) /\ Judged(e, verdict)

(* AdversarialReview.evaluate turns an exception into a rejection.         *)
CouncilRaises(e) == Sitting(e) /\ Judged(e, "rejected")

-----------------------------------------------------------------------------
NodesMayRun(e) ==
  run[e].stage = "running" /\ run[e].at # {} /\ (Deliberates(e) => run[e].verdict # "none")

(* A place of a run: its nodes, the state that they read, the verdict.     *)
Place(e) == [at |-> run[e].at, st |-> run[e].st, verdict |-> run[e].verdict]

Result(p, n) == Effect(graph.adapter[n], p.st, p.verdict)
Delta(p, n) == {f \in DOMAIN NewState : Result(p, n)[f] # p.st[f]}

NodesReady(p) == \A n \in p.at : Ready(graph.adapter[n], p.st)

(* Two nodes of one superstep may not write the same key.                  *)
Conflict(p) ==
  \E m, n \in p.at : m # n /\ Delta(p, m) \cap Delta(p, n) # {}

Merged(p) ==
  [f \in DOMAIN NewState |->
     IF \E n \in p.at : f \in Delta(p, n)
     THEN Result(p, CHOOSE n \in p.at : f \in Delta(p, n))[f]
     ELSE p.st[f]]

(* build_graph: a node with conditional edges goes to one node, or raises; *)
(* a node without them goes to all its successors.                         *)
Stuck(p, n) == Conditional(graph, n) # {} /\ FirstMatch(graph, n, Result(p, n)) = {}

Successors(p, n) ==
  IF Conditional(graph, n) # {} THEN FirstMatch(graph, n, Result(p, n))
  ELSE {graph.edges[i].to : i \in Unconditional(graph, n)}

(* Mutation of NextNode: the fallback comes first.                         *)
NextNode_FallbackFirst(p, n) ==
  IF Unconditional(graph, n) # {} THEN {graph.edges[First(Unconditional(graph, n))].to}
  ELSE FirstMatch(graph, n, Result(p, n))

NextNode(p, n) == FirstMatch(graph, n, Result(p, n))

(* The run after its nodes have returned, with the nodes that come next.   *)
Advanced(e, next) ==
  RunAs(IF next = {} THEN "complete" ELSE "running", next, Merged(Place(e)),
        Append(run[e].steps, Place(e)))

(* One superstep of the compiled graph.                                    *)
Superstep ==
  LET e == "graph"  p == Place(e) IN
  /\ NodesMayRun(e)
  /\ IF \/ Len(run[e].steps) >= RecursionLimit
        \/ ~NodesReady(p) \/ Conflict(p) \/ \E n \in p.at : Stuck(p, n)
     THEN Change(e, Failed)
     ELSE Change(e, Advanced(e, UNION {Successors(p, n) : n \in p.at}))

OverBudget == Len(run["stream"].steps) >= StepBudget

(* One node of the streaming loop: without a next node it is complete,     *)
(* terminal or not.                                                        *)
StreamNode ==
  LET e == "stream"  p == Place(e) IN
  /\ NodesMayRun(e)
  /\ IF OverBudget \/ ~NodesReady(p) THEN Change(e, Failed)
     ELSE Change(e, Advanced(e, UNION {NextNode(p, n) : n \in p.at}))

(* The components, the model and the database may raise at any node.       *)
NodeRaises(e) == NodesMayRun(e) /\ Change(e, Failed)

Council(e) ==
  \/ TimeIsUp(e) \/ Rerun(e) \/ CouncilRaises(e)
  \/ \E verdict \in {"approved", "rejected"} : Adjudicate(e, verdict)

Step(e) ==
  \/ Start(e) \/ Council(e) \/ NodeRaises(e)
  \/ e = "graph" /\ Superstep
  \/ e = "stream" /\ StreamNode

EngineNext == \E e \in Engines : Step(e)

(* The coroutine of a run is always resumed.                               *)
EngineSpec == EngineInit /\ [][EngineNext]_engineVars /\ \A e \in Engines : WF_engineVars(Step(e))

-----------------------------------------------------------------------------
(* Graphs on which a node leads to one node at most, and a conditional one *)
(* has a fallback.                                                         *)
Plain(g) ==
  \A n \in Nodes(g) :
    /\ \A i, j \in Unconditional(g, n) : g.edges[i].to = g.edges[j].to
    /\ Conditional(g, n) # {} => Unconditional(g, n) # {}

SameVerdicts(p, q) == \A i \in DOMAIN p \cap DOMAIN q : p[i].verdict = q[i].verdict

(* What the REST endpoint completes the chat socket completes too, along   *)
(* the same nodes and through the same states, if the councils say the     *)
(* same and no node raises: on every graph with one successor at a time    *)
(* (dynamic_builder.py:49-63, 115-144).                                    *)
EnginesAgree ==
  Plain(graph) /\ (\A e \in Engines : run[e].stage = "complete")
    /\ SameVerdicts(run["graph"].steps, run["stream"].steps)
  => run["graph"].steps = run["stream"].steps /\ run["graph"].st = run["stream"].st

(* A designed workflow that completes with too low a score asks a human,   *)
(* unless its council has approved the brief, and one of the accountant    *)
(* always asks, whatever the nodes after the flag wrote                    *)
(* (dynamic_builder.py:226-231, 330-361).                                  *)
ReviewIsAsked ==
  \A e \in Engines : run[e].stage = "complete" /\ graph \in Fallbacks =>
    LET st == run[e].st IN
      /\ st.scored /\ st.score < 85 /\ st.council # "approved" => st.asks
      /\ st.council = "rejected" => st.asks
      /\ graph = AccountantGraph => st.asks

(* Both engines come to an end on every graph the blueprint accepts, the   *)
(* cyclic ones too (dynamic_builder.py:100-103, council.py:48-84).         *)
RunsEnd == \A e \in Engines : <>RunEnded(e)
=============================================================================
