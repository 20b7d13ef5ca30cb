----------------------------- MODULE MCToolBroker -----------------------------
(* Two tasks of one employee, with the operations pack and its two tools.  *)
EXTENDS ToolBroker, WorkflowPacks

Operations == <<OperationsCoordinatorPack>>

(* Knowledge work, with and without a known term; a process, told from a   *)
(* term of the pack; both.                                                 *)
Asked == {{}, {"draft", "memo"}, {"status"}, {"draft", "send"}}

(* One employee of each kind of decision: the matrix lets the kernel's     *)
(* calls pass, the matrix stops them, the tenant stops them.               *)
Kinds == {[tier |-> "MEDIUM", tenant |-> "none"], [tier |-> "CRITICAL", tenant |-> "none"],
          [tier |-> "LOW", tenant |-> "force_approval_all"]}
=============================================================================
