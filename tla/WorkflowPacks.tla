----------------------------- MODULE WorkflowPacks -----------------------------
(***************************************************************************)
(* The built-in workflow packs and how config generation selects them.     *)
(* lanes are the lanes whose terms the hints count for, asks the           *)
(* autonomy_overrides that are not autonomous.                             *)
(***************************************************************************)
EXTENDS Sequences

Pack(lanes, hints, tools, asks) ==
  [lanes |-> lanes, hints |-> hints, tools |-> tools, asks |-> asks]

EveryLane == {"knowledge_work", "business_process", "hybrid"}

ExecutiveAssistantPack ==
  Pack(EveryLane, {"schedule", "meeting", "follow up", "follow-up", "briefing", "inbox"},
       <<"email_tool", "calendar_tool", "messaging_tool">>, {"external_send"})

OperationsCoordinatorPack ==
  Pack({"business_process", "hybrid"},
       {"checklist", "update record", "route", "status", "exception"},
       <<"email_tool", "messaging_tool">>, {"external_send"})

AccountingOpsPack ==
  Pack(EveryLane,
       {"invoice", "ap", "ar", "aging", "month-end", "close", "variance", "reconcile",
        "accounting", "general ledger", "bank feed"},
       <<"email_tool", "calendar_tool", "file_storage_tool">>,
       {"post_journal_entry", "send_external_financial_statement", "file_tax_return"})

LegalIntakePack ==
  Pack(EveryLane, {"intake", "conflict", "matter", "deadline", "attorney", "legal"},
       <<"email_tool", "calendar_tool">>, {"legal_advice", "case_acceptance"})

-----------------------------------------------------------------------------
(* select_pack_ids.  role is the kinds of words in the role title.         *)

RoleWords == {"accounting", "accountant", "legal", "operations"}

(* _normalize_tool_name of these is crm_tool or custom_api_tool; it knows  *)
(* whole names, not keywords.                                              *)
SystemNames == {"crm", "crm_tool", "custom_api", "custom_api_tool"}

SelectPacks(role, toolNames) ==
  <<IF "accounting" \in role THEN AccountingOpsPack ELSE ExecutiveAssistantPack>>
    \o (IF "legal" \in role THEN <<LegalIntakePack>> ELSE <<>>)
    \o (IF "operations" \in role \/ toolNames \cap SystemNames # {}
        THEN <<OperationsCoordinatorPack>> ELSE <<>>)
=============================================================================
