------------------------------ MODULE ToolBroker ------------------------------
(***************************************************************************)
(* The kernel of an employee at work on several tasks at once: each is     *)
(* classified, planned, and its lane runs the plan's tools one by one      *)
(* through the tool broker, which asks the autonomy manager and writes the *)
(* audit trail before it lets the tool act.                                *)
(***************************************************************************)
EXTENDS Kernel, Autonomy, AuditSystem

CONSTANTS
  Texts,      \* the texts of tasks, as the kernel sees them
  Packs,      \* the employee's packs, in order
  Allowed,    \* tool_permissions of the employee
  Registered, \* tools among its components
  Employees,  \* the risk tier and tenant policy an employee may have
  MaxFaults   \* bound on exceptions of the audit log and of the tools

ASSUME BrokerAssumption ==
  /\ Employees \subseteq [tier : RiskTiers, tenant : TenantPolicies]
  /\ MaxFaults \in Nat

VARIABLES
  faults,     \* exceptions so far
  policy,     \* risk tier and tenant policy of the employee: [tier, tenant]
  pc,         \* where the kernel is on each task
  plan,       \* its plan: [lane, tools, points, asks]
  results,    \* the tool results of each task, in order: did the call succeed
  ran         \* history: the calls whose tool was invoked

brokerVars == <<faults, policy, pc, plan, results, ran>>
vars == <<storage, clock, rows, tx, overlapped, faults, policy, pc, plan, results, ran>>

Tasks == Writers
NoPlan == [lane |-> "knowledge_work", tools |-> <<>>, points |-> {}, asks |-> FALSE]

-----------------------------------------------------------------------------
(* The call a task is at *)

Index(t) == Len(results[t]) + 1
Tool(t) == plan[t].tools[Index(t)]

Mode(t) == Decide(policy.tenant, ProposalFor(policy.tier, Tool(t)))

Event(t, i, type, mode) == [task |-> t, call |-> i, type |-> type, mode |-> mode]

(* The event each stage of a call logs.                                    *)
EventType == [decide |-> "autonomy_decision",
              refuse |-> "tool_blocked_by_autonomy",
              announce |-> "tool_invoked"]

Logging == DOMAIN EventType

EventOf(t) == Event(t, Index(t), EventType[pc[t]], Mode(t))

Answer(t, ok) == /\ results' = [results EXCEPT ![t] = Append(@, ok)]
                 /\ pc' = [pc EXCEPT ![t] = "tool"]

(* What the call does once its event is logged: a refusal raises           *)
(* PermissionError, which the kernel turns into a failed result.           *)
Logged(t) ==
  CASE pc[t] = "decide" ->
         /\ pc' = [pc EXCEPT ![t] = IF Mode(t) = "autonomous" THEN "announce" ELSE "refuse"]
         /\ UNCHANGED results
    [] pc[t] = "refuse" -> Answer(t, FALSE)
    [] pc[t] = "announce" -> pc' = [pc EXCEPT ![t] = "invoke"] /\ UNCHANGED results

-----------------------------------------------------------------------------
Init ==
  /\ AuditInit
  /\ faults = 0
  /\ policy \in Employees
  /\ pc = [t \in Tasks |-> "idle"]
  /\ plan = [t \in Tasks |-> NoPlan]
  /\ results = [t \in Tasks |-> <<>>]
  /\ ran = {}

(* execute_task: only a lane that acts on systems runs tools.              *)
ExecuteTask(t, text) ==
  /\ pc[t] = "idle"
  /\ LET p == Plan(text, Packs) IN
       /\ plan' = [plan EXCEPT ![t] = p]
       /\ pc' = [pc EXCEPT ![t] = IF p.lane = "knowledge_work" THEN "done" ELSE "tool"]
  /\ UNCHANGED <<auditVars, faults, policy, results, ran>>

(* Mutation of Finish: it leaves a stage that no one reads.                *)
Finish_Misspelt(t) ==
  /\ pc[t] = "tool" /\ Index(t) > Len(plan[t].tools)
  /\ pc' = [pc EXCEPT ![t] = "finished"]
  /\ UNCHANGED <<auditVars, faults, policy, plan, results, ran>>

(* ToolBroker.execute up to the autonomy manager: the tool must be allowed *)
(* and registered, otherwise it raises and the kernel goes on.             *)
CallTool(t) ==
  /\ pc[t] = "tool" /\ Index(t) <= Len(plan[t].tools)
  /\ IF Tool(t) \in Allowed \cap Registered
     THEN pc' = [pc EXCEPT ![t] = "decide"] /\ UNCHANGED results
     ELSE Answer(t, FALSE)
  /\ UNCHANGED <<auditVars, faults, policy, plan, ran>>

Finish(t) ==
  /\ pc[t] = "tool" /\ Index(t) > Len(plan[t].tools)
  /\ pc' = [pc EXCEPT ![t] = "done"]
  /\ UNCHANGED <<auditVars, faults, policy, plan, results, ran>>

-----------------------------------------------------------------------------
(* log_event, called by the autonomy manager and by the broker *)

BeginLog(t) ==
  /\ pc[t] \in Logging
  /\ Begin(t)
  /\ UNCHANGED brokerVars

SelectLastEvent(t) == SelectLast(t) /\ UNCHANGED brokerVars

CommitLog(t) ==
  /\ Commit(t, EventOf(t))
  /\ Logged(t)
  /\ UNCHANGED <<faults, policy, plan, ran>>

Fault == faults < MaxFaults /\ faults' = faults + 1

(* Mutation of LogFails: an event that cannot be written is ignored.       *)
LogFails_Ignored(t) ==
  /\ Fault
  /\ Abort(t)
  /\ Logged(t)
  /\ UNCHANGED <<policy, plan, ran>>

(* An exception of log_event ends the call, and the kernel records it.     *)
LogFails(t) ==
  /\ Fault
  /\ Abort(t)
  /\ Answer(t, FALSE)
  /\ UNCHANGED <<policy, plan, ran>>

(* The refresh after the commit raises: the event is there all the same.   *)
RefreshFails(t) ==
  /\ Fault
  /\ Commit(t, EventOf(t))
  /\ Answer(t, FALSE)
  /\ UNCHANGED <<policy, plan, ran>>

LogAtOnce(t) ==
  /\ pc[t] \in Logging
  /\ LogInMemory(t, EventOf(t))
  /\ Logged(t)
  /\ UNCHANGED <<faults, policy, plan, ran>>

Invoke(t) ==
  /\ pc[t] = "invoke"
  /\ ran' = ran \cup {<<t, Index(t)>>}
  /\ Answer(t, TRUE)
  /\ UNCHANGED <<auditVars, faults, policy, plan>>

(* The tool raises, possibly after it has acted.                           *)
InvokeRaises(t) ==
  /\ Fault
  /\ pc[t] = "invoke"
  /\ ran' = ran \cup {<<t, Index(t)>>}
  /\ Answer(t, FALSE)
  /\ UNCHANGED <<auditVars, policy, plan>>

Step(t) ==
  \/ CallTool(t) \/ Finish(t)
  \/ BeginLog(t) \/ SelectLastEvent(t) \/ CommitLog(t) \/ LogFails(t) \/ RefreshFails(t)
  \/ LogAtOnce(t)
  \/ Invoke(t) \/ InvokeRaises(t)

Next ==
  \E t \in Tasks :
    \/ \E text \in Texts : ExecuteTask(t, text)
    \/ Step(t)

(* A task's coroutine is always resumed, the database and the tools answer *)
(* or raise.                                                               *)
Spec == Init /\ [][Next]_vars /\ \A t \in Tasks : WF_vars(Step(t))

-----------------------------------------------------------------------------
(* Every variable keeps its type.                                          *)
TypeOK ==
  /\ storage \in {"sql", "memory"}
  /\ clock \in Nat
  /\ rows \subseteq [at : 1..clock, prev : 0..clock,
                     event : [task : Tasks, call : Nat, type : {EventType[s] : s \in Logging}, mode : Modes]]
  /\ tx \in [Tasks -> [stage : Stages, at : 0..clock, prev : 0..clock]]
  /\ overlapped \in BOOLEAN
  /\ faults \in 0..MaxFaults
  /\ policy \in Employees
  /\ pc \in [Tasks -> {"idle", "tool", "invoke", "done"} \cup Logging]
  /\ DOMAIN plan = Tasks /\ \A t \in Tasks : plan[t].lane \in Lanes
  /\ results \in [Tasks -> Seq(BOOLEAN)]
  /\ ran \subseteq Tasks \X Nat

(* verify_chain fails only if two log_event transactions were open at      *)
(* once: one writer at a time always leaves a chain that verifies, however *)
(* its calls failed (audit_system.py:73).                                  *)
ForksNeedOverlap == overlapped \/ Verifies

(* No tool acts unless the trail already holds the autonomous decision and *)
(* then the invocation of that very call (tool_broker.py:101-111).         *)
NoUnrecordedRun ==
  \A c \in ran :
    \E d, v \in rows :
      /\ d.event = Event(c[1], c[2], "autonomy_decision", "autonomous")
      /\ v.event = Event(c[1], c[2], "tool_invoked", "autonomous")
      /\ d.at < v.at

(* The trail is append-only and every event hashes one that was there.     *)
Trail == INSTANCE AuditTrail WITH links <- {[id |-> r.at, prev |-> r.prev] : r \in rows}
ImplementsTrail == Trail!Spec
=============================================================================
