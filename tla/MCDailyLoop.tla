------------------------------ MODULE MCDailyLoop ------------------------------
EXTENDS DailyLoop

Kind(tools, managed, tier) == [tools |-> tools, managed |-> managed, tier |-> tier, tenant |-> "none"]

Kinds == {Kind({"email_tool", "crm_tool"}, FALSE, "MEDIUM"),
          Kind({"messaging_tool"}, TRUE, "LOW"),
          Kind({"email_tool", "messaging_tool"}, TRUE, "HIGH")}

(* Quiet after nine in the evening, the order that lifts it, and a portal  *)
(* rule for the whole afternoon.                                           *)
Book == {DirectCommand(5, "pm", FALSE), DirectCommand(5, "pm", TRUE),
         QuietRule("portal_rule", 12, TRUE, {"email"})}
=============================================================================
