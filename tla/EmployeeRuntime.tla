--------------------------- MODULE EmployeeRuntime ---------------------------
(***************************************************************************)
(* The task lifecycle of a deployed employee: POST /tasks, POST /chat and  *)
(* the websocket submit work, the workflow runs it, supervisors decide the *)
(* approval requests it raises, and the process crashes and restarts.      *)
(*                                                                         *)
(* Every request is a coroutine on one asyncio loop.  An action below is   *)
(* the stretch of a handler between two awaits that really suspend.  With  *)
(* the SQL repositories every repository call suspends, and update_task    *)
(* itself suspends between its SELECT and its COMMIT.  With the in-memory  *)
(* repositories no repository call suspends, so the handler keeps the loop *)
(* (variable loop) until it reaches the workflow or ends.                  *)
(***************************************************************************)
EXTENDS Naturals, FiniteSets

CONSTANTS
  Tasks,        \* task ids a client may send (task_id of TaskRequest)
  Requests,     \* submissions: one handler each
  Sockets,      \* the submissions that arrive over the websocket
  Deciders,     \* calls of POST /approvals/{id}/decide or /resolve
  Backend,      \* "sql" or "memory": which repositories the service built
  MaxCrashes,   \* bound on process crashes
  MaxFaults,    \* bound on exceptions raised by an awaited call
  Nobody,       \* no handler, no message
  NoTask        \* no task id yet

Handlers == Requests \cup Deciders

ASSUME RuntimeAssumption ==
  /\ Sockets \subseteq Requests
  /\ Requests \cap Deciders = {}
  /\ Nobody \notin Handlers
  /\ NoTask \notin Tasks
  /\ Backend \in {"sql", "memory"}
  /\ MaxCrashes \in Nat
  /\ MaxFaults \in Nat

VARIABLES
  up,        \* the process serves requests
  initError, \* it is alive with an initialization error, and serves none
  crashes,   \* crashes so far
  faults,    \* injected exceptions so far
  loop,      \* the handler that holds the event loop, or Nobody
  status,    \* employee_tasks.status of each row
  pc,        \* where each handler is
  task,      \* the task each handler works on
  goal,      \* the status its next update_task writes
  ask,       \* metadata.status of the approval_request each submission posted
  subject,   \* the message each decider was called for
  decision,  \* the decision it carries
  audited    \* approval_decided events in the audit log

vars == <<up, initError, crashes, faults, loop, status, pc, task, goal, ask, subject, decision, audited>>

Machine == INSTANCE TaskStateMachine

Decisions == {"approve", "modify", "decline"}

Live == {"create", "update", "commit", "work", "ask", "mark", "audit"}
Ended == {"done", "refused", "error", "dead"}

-----------------------------------------------------------------------------
(* The event loop *)

MayRun(h) == up /\ loop \in {Nobody, h}

(* Mutation of HoldsLoop: the in-memory repositories gain a real await.     *)
HoldsLoop_Yields(h, stage) == Nobody

(* In-memory calls do not suspend: the handler keeps the loop until it     *)
(* reaches the kernel's tool calls, the workflow, or its end.              *)
HoldsLoop(h, stage) ==
  IF Backend = "memory" /\ stage \notin Ended \cup {"create", "work"} THEN h ELSE Nobody

Goto(h, stage) == /\ pc' = [pc EXCEPT ![h] = stage]
                  /\ loop' = HoldsLoop(h, stage)

-----------------------------------------------------------------------------
(* The task repository *)

(* Mutation of AfterUpdate: the approval request is never posted.          *)
AfterUpdate_NoAsk(h) ==
  IF h \in Deciders THEN "audit" ELSE IF goal[h] = "running" THEN "work" ELSE "done"

(* What a handler does once its update_task has returned.                  *)
AfterUpdate(h) ==
  IF h \in Deciders THEN "audit"
  ELSE IF goal[h] = "running" THEN "work"
  ELSE IF goal[h] = "awaiting_approval" THEN "ask"
  ELSE "done"

(* Mutations of CanCreate: no unique key on the id; an interrupted row is   *)
(* taken over by a new submission.                                         *)
CanCreate_Overwrites(t) == TRUE
CanCreate_TakesOver(t) == status[t] \in {"absent", "interrupted"}

(* A second row with the same id is refused by the primary key; the        *)
(* in-memory repository overwrites the first one.                          *)
CanCreate(t) == Backend = "memory" \/ status[t] = "absent"

WriteStatus(t, new) == status' = [status EXCEPT ![t] = new]

-----------------------------------------------------------------------------
Init ==
  /\ up = TRUE /\ initError = FALSE /\ crashes = 0 /\ faults = 0
  /\ loop = Nobody
  /\ status = [t \in Tasks |-> "absent"]
  /\ pc = [h \in Handlers |-> "idle"]
  /\ task = [h \in Handlers |-> NoTask]
  /\ goal = [h \in Handlers |-> "absent"]
  /\ ask = [r \in Requests |-> "none"]
  /\ subject = [d \in Deciders |-> Nobody]
  /\ decision = [d \in Deciders |-> "none"]
  /\ audited = {}

(* submit_task / websocket_endpoint up to the row: the conversation is     *)
(* ensured and, over HTTP, the kernel has run its tools, all before the    *)
(* task exists.                                                            *)
Submit(r, t) ==
  /\ MayRun(r) /\ pc[r] = "idle"
  /\ task' = [task EXCEPT ![r] = t]
  /\ Goto(r, "create")
  /\ UNCHANGED <<up, initError, crashes, faults, status, goal, ask, subject, decision, audited>>

CreateTask(r) ==
  /\ MayRun(r) /\ pc[r] = "create"
  /\ IF CanCreate(task[r])
     THEN /\ WriteStatus(task[r], "queued")
          /\ goal' = [goal EXCEPT ![r] = "running"]
          /\ Goto(r, "update")
     ELSE /\ Goto(r, "refused")
          /\ UNCHANGED <<status, goal>>
  /\ UNCHANGED <<up, initError, crashes, faults, task, ask, subject, decision, audited>>

(* update_task: SELECT the row and validate the transition.  The SQL       *)
(* repository then still has to flush and commit.                          *)
UpdateTask(h) ==
  /\ MayRun(h) /\ pc[h] = "update"
  /\ IF ~Machine!Legal(status[task[h]], goal[h])
     THEN Goto(h, "error") /\ UNCHANGED status
     ELSE IF Backend = "sql"
     THEN Goto(h, "commit") /\ UNCHANGED status
     ELSE Goto(h, AfterUpdate(h)) /\ WriteStatus(task[h], goal[h])
  /\ UNCHANGED <<up, initError, crashes, faults, task, goal, ask, subject, decision, audited>>

(* The UPDATE is by primary key: nothing checks the status read before.    *)
CommitUpdate(h) ==
  /\ MayRun(h) /\ pc[h] = "commit"
  /\ WriteStatus(task[h], goal[h])
  /\ Goto(h, AfterUpdate(h))
  /\ UNCHANGED <<up, initError, crashes, faults, task, goal, ask, subject, decision, audited>>

(* The workflow returns; requires_human_approval picks the final status.   *)
WorkflowReturns(r) ==
  /\ MayRun(r) /\ pc[r] = "work"
  /\ \E final \in {"completed", "awaiting_approval"} : goal' = [goal EXCEPT ![r] = final]
  /\ Goto(r, "update")
  /\ UNCHANGED <<up, initError, crashes, faults, status, task, ask, subject, decision, audited>>

(* The workflow raises.  Over HTTP the handler records the failure; the    *)
(* websocket handler has no such clause, and returns on a disconnect too.  *)
WorkflowRaises(r) ==
  /\ MayRun(r) /\ pc[r] = "work"
  /\ IF r \in Sockets
     THEN Goto(r, "error") /\ UNCHANGED goal
     ELSE Goto(r, "update") /\ goal' = [goal EXCEPT ![r] = "failed"]
  /\ UNCHANGED <<up, initError, crashes, faults, status, task, ask, subject, decision, audited>>

PostApprovalRequest(r) ==
  /\ MayRun(r) /\ pc[r] = "ask"
  /\ ask' = [ask EXCEPT ![r] = "pending"]
  /\ Goto(r, "done")
  /\ UNCHANGED <<up, initError, crashes, faults, status, task, goal, subject, decision, audited>>

-----------------------------------------------------------------------------
(* decide_approval *)

(* Mutation of DecidedStatus: a status the table does not know.            *)
DecidedStatus_Unknown(x) == IF x = "decline" THEN "declined" ELSE "completed"

(* What the code asks update_task to write for a decision.                 *)
DecidedStatus(x) == IF x \in {"approve", "modify"} THEN "completed" ELSE "interrupted"

(* Mutation of ListPending: decided approvals are found too.               *)
ListPending_All(d, r, x) ==
  /\ MayRun(d) /\ pc[d] = "idle"
  /\ ask[r] # "none"
  /\ subject' = [subject EXCEPT ![d] = r]
  /\ decision' = [decision EXCEPT ![d] = x]
  /\ task' = [task EXCEPT ![d] = task[r]]
  /\ goal' = [goal EXCEPT ![d] = DecidedStatus(x)]
  /\ Goto(d, "mark")
  /\ UNCHANGED <<up, initError, crashes, faults, status, ask, audited>>

(* The message is looked up among the pending ones only.                   *)
ListPending(d, r, x) ==
  /\ MayRun(d) /\ pc[d] = "idle"
  /\ ask[r] = "pending"
  /\ subject' = [subject EXCEPT ![d] = r]
  /\ decision' = [decision EXCEPT ![d] = x]
  /\ task' = [task EXCEPT ![d] = task[r]]
  /\ goal' = [goal EXCEPT ![d] = DecidedStatus(x)]
  /\ Goto(d, "mark")
  /\ UNCHANGED <<up, initError, crashes, faults, status, ask, audited>>

MarkDecided(d) ==
  /\ MayRun(d) /\ pc[d] = "mark"
  /\ ask' = [ask EXCEPT ![subject[d]] = decision[d]]
  /\ Goto(d, "update")
  /\ UNCHANGED <<up, initError, crashes, faults, status, task, goal, subject, decision, audited>>

AuditDecision(d) ==
  /\ MayRun(d) /\ pc[d] = "audit"
  /\ audited' = audited \cup {<<subject[d], decision[d]>>}
  /\ Goto(d, "done")
  /\ UNCHANGED <<up, initError, crashes, faults, status, task, goal, ask, subject, decision>>

-----------------------------------------------------------------------------
(* Failure and recovery *)

(* An awaited call raises outside the workflow's try block: the handler    *)
(* ends where it is and nothing it wrote is undone.                        *)
Fault(h) ==
  /\ MayRun(h) /\ pc[h] \in Live /\ faults < MaxFaults
  /\ faults' = faults + 1
  /\ Goto(h, IF pc[h] = "create" THEN "refused" ELSE "error")
  /\ UNCHANGED <<up, initError, crashes, status, task, goal, ask, subject, decision, audited>>

(* The process dies, whether it serves requests or not.                    *)
Crash ==
  /\ up \/ initError
  /\ crashes < MaxCrashes
  /\ up' = FALSE
  /\ initError' = FALSE
  /\ crashes' = crashes + 1
  /\ loop' = Nobody
  /\ pc' = [h \in Handlers |-> IF pc[h] \in Live THEN "dead" ELSE pc[h]]
  /\ IF Backend = "sql"
     THEN UNCHANGED <<status, ask, audited>>
     ELSE /\ status' = [t \in Tasks |-> "absent"]
          /\ ask' = [r \in Requests |-> "none"]
          /\ audited' = {}
  /\ UNCHANGED <<faults, task, goal, subject, decision>>

(* Mutation of Restart: finished tasks are interrupted as well.            *)
Restart_All ==
  /\ ~up /\ ~initError
  /\ up' = TRUE
  /\ status' = [t \in Tasks |-> IF status[t] = "absent" THEN "absent" ELSE "interrupted"]
  /\ UNCHANGED <<initError, crashes, faults, loop, pc, task, goal, ask, subject, decision, audited>>

(* initialize(): _reconcile_inflight_tasks runs before any request.        *)
Restart ==
  /\ ~up /\ ~initError
  /\ up' = TRUE
  /\ status' = Machine!Interrupted
  /\ UNCHANGED <<initError, crashes, faults, loop, pc, task, goal, ask, subject, decision, audited>>

(* initialize() fails.  An exception of the database, before the rows are  *)
(* reconciled or while the notices about them are posted, is kept as an    *)
(* initialization error: it is never tried again, and every request gets   *)
(* 503 for as long as the process lives.  One of create_components ends    *)
(* the process.                                                            *)
StartFails ==
  /\ ~up /\ ~initError /\ faults < MaxFaults
  /\ faults' = faults + 1
  /\ \/ Backend = "sql" /\ initError' = TRUE /\ UNCHANGED status
     \/ Backend = "sql" /\ initError' = TRUE /\ status' = Machine!Interrupted
     \/ status' = Machine!Interrupted /\ UNCHANGED initError
  /\ UNCHANGED <<up, crashes, loop, pc, task, goal, ask, subject, decision, audited>>

-----------------------------------------------------------------------------
HandlerStep(h) ==
  \/ UpdateTask(h)
  \/ CommitUpdate(h)

RequestStep(r) ==
  \/ CreateTask(r)
  \/ WorkflowReturns(r)
  \/ WorkflowRaises(r)
  \/ PostApprovalRequest(r)

DeciderStep(d) ==
  \/ MarkDecided(d)
  \/ AuditDecision(d)

Next ==
  \/ \E r \in Requests : RequestStep(r) \/ \E t \in Tasks : Submit(r, t)
  \/ \E d \in Deciders : DeciderStep(d) \/ \E r \in Requests, x \in Decisions : ListPending(d, r, x)
  \/ \E h \in Handlers : HandlerStep(h) \/ Fault(h)
  \/ Crash
  \/ Restart
  \/ StartFails

Spec == Init /\ [][Next]_vars

(* Awaited calls return or raise.  Nobody is obliged to submit work, to    *)
(* decide an approval or to start a dead process again.                    *)
Fairness ==
  /\ \A r \in Requests : WF_vars(RequestStep(r))
  /\ \A d \in Deciders : WF_vars(DeciderStep(d))
  /\ \A h \in Handlers : WF_vars(HandlerStep(h))

FairSpec == Spec /\ Fairness

-----------------------------------------------------------------------------
(* Properties *)

TypeOK ==
  /\ up \in BOOLEAN /\ initError \in BOOLEAN
  /\ crashes \in 0..MaxCrashes
  /\ faults \in 0..MaxFaults
  /\ loop \in Handlers \cup {Nobody}
  /\ status \in [Tasks -> Machine!Statuses \cup {"absent"}]
  /\ pc \in [Handlers -> {"idle"} \cup Live \cup Ended]
  /\ task \in [Handlers -> Tasks \cup {NoTask}]
  /\ goal \in [Handlers -> Machine!Statuses \cup {"absent"}]
  /\ ask \in [Requests -> {"none", "pending"} \cup Decisions]
  /\ subject \in [Deciders -> Requests \cup {Nobody}]
  /\ decision \in [Deciders -> Decisions \cup {"none"}]
  /\ audited \subseteq (Requests \X Decisions)

(* A decider at work has its message and its decision.                     *)
DeciderLoaded ==
  \A d \in Deciders : pc[d] \in Live => subject[d] \in Requests /\ decision[d] \in Decisions

(* The status validated at the SELECT of update_task is still a legal      *)
(* predecessor when the unlocked UPDATE is flushed: no other handler, no   *)
(* decision and no restart has moved the row in between.                   *)
CommitStillLegal ==
  \A h \in Handlers : pc[h] = "commit" => Machine!Legal(status[task[h]], goal[h])

(* A submission works on a row between creating it and ending.             *)
Owns(r) == pc[r] \in {"update", "commit", "work", "ask"}

(* While a submission owns its row, its place in the handler tells what    *)
(* the row says, so every transition it validates is still legal when it   *)
(* is committed.                                                           *)
StageMatchesRow ==
  \A r \in Requests :
    /\ pc[r] \in {"create"} \/ Owns(r) \/ ask[r] # "none" => task[r] \in Tasks
    /\ pc[r] \in {"update", "commit"} =>
         \/ goal[r] = "running" /\ status[task[r]] = "queued"
         \/ goal[r] \in {"completed", "failed", "awaiting_approval"} /\ status[task[r]] = "running"
    /\ pc[r] = "work" => status[task[r]] = "running"
    /\ pc[r] = "ask" => status[task[r]] = "awaiting_approval"

(* The primary key gives a row at most one owner, and none once its        *)
(* approval has been requested.                                            *)
OneOwner ==
  \A q, r \in Requests :
    Owns(r) /\ task[q] = task[r] => q = r \/ (~Owns(q) /\ ask[q] = "none")

(* With the SQL repository a decision never gets past its validation: no   *)
(* status a parked task can have may become completed or interrupted.      *)
DeciderNeverCommits ==
  \A d \in Deciders :
    /\ pc[d] \in {"idle", "mark", "update"} \cup Ended
    /\ pc[d] \in {"mark", "update"} =>
         /\ ask[subject[d]] # "none"
         /\ task[d] = task[subject[d]]
         /\ goal[d] \in {"completed", "interrupted"}

(* A dead process runs nothing, and a posted request is its submission's   *)
(* last step.                                                              *)
Quiet ==
  /\ ~up => \A h \in Handlers : pc[h] \notin Live
  /\ \A r \in Requests : ask[r] # "none" => pc[r] = "done"
  /\ \A r \in Requests : pc[r] \notin {"mark", "audit"}

(* An approval on offer belongs to a task that is parked: still awaiting   *)
(* it, or interrupted by a restart.  It is never one that runs, finished   *)
(* or failed.                                                              *)
PendingApprovalIsParked ==
  \A r \in Requests : ask[r] # "none" => status[task[r]] \in {"awaiting_approval", "interrupted"}

(* The inductive invariant of the SQL runtime.                             *)
RowDiscipline ==
  /\ StageMatchesRow
  /\ OneOwner
  /\ DeciderNeverCommits
  /\ Quiet
  /\ PendingApprovalIsParked

(* A task that waits for approval can be found in the approvals list       *)
(* (or was, and has been decided), unless the handler that was to post the *)
(* request is still going or died on an exception.                         *)
AwaitingIsAskable ==
  \A t \in Tasks : status[t] = "awaiting_approval" =>
    \E r \in Requests : /\ task[r] = t
                        /\ ask[r] # "none" \/ pc[r] \in {"ask", "error", "dead"}

(* The rows the repositories write obey the state machine, restarts        *)
(* included.                                                               *)
ObeysStateMachine == Machine!Spec

(* The process serves requests, and no handler of the task has died on an  *)
(* exception that nothing recorded (api.py:1802).                          *)
Served(t) == up /\ \A r \in Requests : ~(task[r] = t /\ pc[r] = "error")

(* Once the row exists a task settles: it ends, parks for approval or is   *)
(* interrupted by a restart.  It can stay queued or running for ever only  *)
(* if it is never served again: the process stays dead, or up with the     *)
(* initialization error of a failed start (api.py:206), or as it was when  *)
(* the task's handler died.  One successful start is enough.               *)
TasksSettle ==
  \A t \in Tasks :
    status[t] \in {"queued", "running"} ~>
      \/ status[t] \notin {"queued", "running"}
      \/ []~Served(t)

(* A decision recorded on an approval request is never replaced by a later *)
(* one while the process lives.                                            *)
DecisionIsFinal ==
  [][\A r \in Requests : up' /\ ask[r] \in Decisions => ask'[r] = ask[r]]_vars

(* The audit log never contradicts the approval request it is about.       *)
AuditMatchesDecision == \A e \in audited : ask[e[1]] = e[2]

(* FORGE_SYSTEM_DESCRIPTION.md section 10.3: approving sends the task back *)
(* into the workflow, so no handler that approved is over while the task   *)
(* it approved still waits.                                                *)
ApprovedTaskMovesOn ==
  \A d \in Deciders :
    pc[d] \in Ended \ {"dead"} /\ faults = 0 /\ decision[d] = "approve"
      => status[task[d]] # "awaiting_approval"
=============================================================================
