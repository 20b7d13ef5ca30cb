-------------------------- MODULE TaskStateMachine --------------------------
(***************************************************************************)
(* What the employee runtime promises about the status of a task: the      *)
(* transition table of task_state_machine.py, plus the administrative      *)
(* write of a restart that deliberately bypasses it.  A task that was      *)
(* never created is "absent".                                              *)
(***************************************************************************)

CONSTANT Tasks
VARIABLE status

Transitions ==
  [ queued            |-> {"running"},
    running           |-> {"completed", "failed", "awaiting_approval", "interrupted"},
    awaiting_approval |-> {"running", "failed"},
    interrupted       |-> {"queued"},
    completed         |-> {},
    failed            |-> {"queued"} ]

Statuses == {"queued", "running", "awaiting_approval", "interrupted", "completed", "failed"}

(* Mutation of Inflight: a queued task does not count.                      *)
Inflight_NoQueued == {"running", "awaiting_approval"}

Inflight == {"queued", "running", "awaiting_approval"}

(* TaskStateMachine.validate: an absent row never gets this far.           *)
Legal(old, new) == old \in Statuses /\ new \in Transitions[old]

-----------------------------------------------------------------------------

Init == status = [t \in Tasks |-> "absent"]

Create(t) == /\ status[t] = "absent"
             /\ status' = [status EXCEPT ![t] = "queued"]

Move(t) == \E new \in Statuses :
             /\ Legal(status[t], new)
             /\ status' = [status EXCEPT ![t] = new]

(* The restart interrupts every task in flight and touches no other.       *)
Interrupted == [t \in Tasks |-> IF status[t] \in Inflight THEN "interrupted" ELSE status[t]]

Interrupt == status' = Interrupted

Next == Interrupt \/ \E t \in Tasks : Create(t) \/ Move(t)

Spec == Init /\ [][Next]_status

-----------------------------------------------------------------------------

(* A completed task is terminal: whatever is written afterwards, its       *)
(* status stays completed.                                                 *)
CompletedIsTerminal == [][\A t \in Tasks : status[t] = "completed" => status'[t] = "completed"]_status

(* A task that failed or was interrupted runs again only by being queued   *)
(* again: no step takes it straight back to running.                       *)
RetryGoesThroughQueue ==
  [][\A t \in Tasks : status[t] \in {"failed", "interrupted"}
                        => status'[t] \in {status[t], "queued"}]_status
=============================================================================
