--------------------------- MODULE MCAnalystSession ---------------------------
EXTENDS AnalystSession, TLC

CONSTANTS m0, m1, m2, m3, c1

Keywords == (m0 :> {"contract"}) @@ (m1 :> {"calendar"}) @@ (m2 :> {"slack"}) @@ (m3 :> {})

(* The last message is not the user's.                                     *)
GivenRoles == [m \in Calls |-> IF m = m3 THEN "assistant" ELSE "user"]

Read ==
  {[type |-> "executive_assistant", risk |-> "low", tools |-> {}],
   [type |-> "legal_intake_associate", risk |-> "low", tools |-> {"crm"}]}
=============================================================================
