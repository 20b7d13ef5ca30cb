------------------------------- MODULE Autonomy -------------------------------
(***************************************************************************)
(* The autonomy manager of an employee: the rule matrix it loads from      *)
(* autonomy_matrix.yaml and the mode it decides for a proposed action.     *)
(* Confidences are percents; the first rule that matches decides.          *)
(***************************************************************************)
EXTENDS Integers, Sequences

ActionTypes == {"reversible", "semi_reversible", "irreversible"}
RiskTiers == {"LOW", "MEDIUM", "HIGH", "CRITICAL"}
TenantPolicies == {"none", "force_approval_all", "force_escalation"}
Modes == {"autonomous", "approval_required", "escalate"}

(* A proposed action in its context: AutonomyContext and ProposedAction.   *)
Proposals == [tier : RiskTiers, type : ActionTypes, confidence : Int, recipients : Nat]

-----------------------------------------------------------------------------
Uncapped == [capped |-> FALSE, percent |-> 0]
UpTo(percent) == [capped |-> TRUE, percent |-> percent]

Rule(tiers, types, cap, recipients, mode) ==
  [tiers |-> tiers, types |-> types, cap |-> cap, recipients |-> recipients, mode |-> mode]

Matrix ==
  << Rule({"CRITICAL"}, ActionTypes, Uncapped, 0, "escalate"),
     Rule({"HIGH"}, {"irreversible"}, Uncapped, 0, "approval_required"),
     Rule({"MEDIUM"}, {"irreversible"}, UpTo(85), 0, "approval_required"),
     Rule({"LOW"}, {"irreversible"}, UpTo(70), 0, "approval_required"),
     Rule({"HIGH"}, {"semi_reversible"}, UpTo(80), 0, "approval_required"),
     Rule({"MEDIUM"}, {"semi_reversible"}, UpTo(55), 0, "approval_required"),
     Rule({"HIGH"}, {"reversible"}, UpTo(75), 0, "approval_required"),
     Rule({"MEDIUM"}, {"reversible"}, UpTo(50), 0, "approval_required"),
     Rule(RiskTiers, ActionTypes, UpTo(90), 50, "approval_required"),
     Rule(RiskTiers, ActionTypes, Uncapped, 0, "autonomous") >>

Matches(rule, p) ==
  /\ p.tier \in rule.tiers
  /\ p.type \in rule.types
  /\ rule.cap.capped => p.confidence <= rule.cap.percent
  /\ p.recipients >= rule.recipients

Hits(p) == {i \in 1..Len(Matrix) : Matches(Matrix[i], p)}

(* The tenant's overrides come before the matrix.                          *)
Decide(tenant, p) ==
  CASE tenant = "force_approval_all" -> "approval_required"
    [] tenant = "force_escalation" -> "escalate"
    [] OTHER -> Matrix[CHOOSE i \in Hits(p) : \A j \in Hits(p) : i <= j].mode

-----------------------------------------------------------------------------
(* What the matrix should give *)

Severity == [m \in Modes |-> CASE m = "autonomous" -> 0
                               [] m = "approval_required" -> 1
                               [] m = "escalate" -> 2]
TierRank == [t \in RiskTiers |-> CASE t = "LOW" -> 0 [] t = "MEDIUM" -> 1
                                   [] t = "HIGH" -> 2 [] t = "CRITICAL" -> 3]
TypeRank == [t \in ActionTypes |-> CASE t = "reversible" -> 0
                                     [] t = "semi_reversible" -> 1
                                     [] t = "irreversible" -> 2]

(* q is at least as dangerous as p in every respect.                       *)
AtLeastAsRisky(q, p) ==
  /\ TierRank[q.tier] >= TierRank[p.tier]
  /\ TypeRank[q.type] >= TypeRank[p.type]
  /\ q.confidence <= p.confidence
  /\ q.recipients >= p.recipients
=============================================================================
