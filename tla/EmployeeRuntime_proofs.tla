----------------------- MODULE EmployeeRuntime_proofs -----------------------
(***************************************************************************)
(* Proofs about EmployeeRuntime for every set of tasks, submissions and    *)
(* deciders, and for any number of crashes and exceptions, after what the  *)
(* task state machine promises of whatever implements it; then about the   *)
(* WorkflowEngine that runs a submitted task, for every valid graph and    *)
(* any answers of its components.                                          *)
(***************************************************************************)
EXTENDS EmployeeRuntime, WorkflowEngine, SequenceTheorems, WellFoundedInduction, TLAPS

(* A task that was never submitted has no row. *)
MachineTypes == status \in [Tasks -> Machine!Statuses \cup {"absent"}]

(* Creating, moving and interrupting rows writes statuses of the table only. *)
LEMMA MachineTypeStep == MachineTypes /\ [Machine!Next]_status => MachineTypes'
  BY DEF MachineTypes, Machine!Next, Machine!Interrupt, Machine!Interrupted, Machine!Create,
         Machine!Move, Machine!Statuses

(* Every row has a status of VALID_TRANSITIONS, whatever the caller asks for.  *)
THEOREM MachineTypeOK == Machine!Spec => []MachineTypes
<1>1. Machine!Init => MachineTypes
  BY DEF Machine!Init, MachineTypes
<1>. QED
  BY <1>1, MachineTypeStep, PTL DEF Machine!Spec

(* No row leaves completed: the table has no way out and the restart       *)
(* leaves finished tasks alone.                                            *)
THEOREM MachineCompletedIsTerminal == Machine!Spec => Machine!CompletedIsTerminal
<1>1. MachineTypes /\ [Machine!Next]_status
        => [\A t \in Tasks : status[t] = "completed" => status'[t] = "completed"]_status
  BY DEF MachineTypes, Machine!Next, Machine!Interrupt, Machine!Interrupted, Machine!Inflight,
         Machine!Create, Machine!Move, Machine!Legal, Machine!Transitions, Machine!Statuses
<1>. QED
  BY <1>1, MachineTypeOK, PTL DEF Machine!Spec, Machine!CompletedIsTerminal

(* A failed or interrupted task is retried only through the queue.         *)
THEOREM MachineRetryGoesThroughQueue == Machine!Spec => Machine!RetryGoesThroughQueue
<1>1. MachineTypes /\ [Machine!Next]_status
        => [\A t \in Tasks : status[t] \in {"failed", "interrupted"}
                               => status'[t] \in {status[t], "queued"}]_status
  BY DEF MachineTypes, Machine!Next, Machine!Interrupt, Machine!Interrupted, Machine!Inflight,
         Machine!Create, Machine!Move, Machine!Legal, Machine!Transitions, Machine!Statuses
<1>. QED
  BY <1>1, MachineTypeOK, PTL DEF Machine!Spec, Machine!RetryGoesThroughQueue

-----------------------------------------------------------------------------
(* Types: TypeOK alone is not inductive, since the audit log is written    *)
(* from what the decider loaded.                                           *)
Typed == TypeOK /\ DeciderLoaded

(* Every step keeps the variables in their domains.                        *)
LEMMA TypeStep == Typed /\ [Next]_vars => Typed'
<1>. SUFFICES ASSUME Typed, [Next]_vars PROVE Typed'
  OBVIOUS
<1>. USE RuntimeAssumption DEF Typed, TypeOK, DeciderLoaded, Handlers, Live, Ended, Decisions,
         Machine!Statuses
<1>1. ASSUME NEW r \in Requests, NEW t \in Tasks, Submit(r, t) PROVE Typed'
  BY <1>1 DEF Submit, Goto, HoldsLoop, MayRun
<1>2. ASSUME NEW r \in Requests, CreateTask(r) PROVE Typed'
  BY <1>2 DEF CreateTask, Goto, HoldsLoop, MayRun, WriteStatus
<1>3. ASSUME NEW h \in Handlers, UpdateTask(h) PROVE Typed'
  BY <1>3 DEF UpdateTask, Goto, HoldsLoop, MayRun, WriteStatus, AfterUpdate
<1>4. ASSUME NEW h \in Handlers, CommitUpdate(h) PROVE Typed'
  BY <1>4 DEF CommitUpdate, Goto, HoldsLoop, MayRun, WriteStatus, AfterUpdate
<1>5. ASSUME NEW r \in Requests, WorkflowReturns(r) PROVE Typed'
  BY <1>5 DEF WorkflowReturns, Goto, HoldsLoop, MayRun
<1>6. ASSUME NEW r \in Requests, WorkflowRaises(r) PROVE Typed'
  BY <1>6 DEF WorkflowRaises, Goto, HoldsLoop, MayRun
<1>7. ASSUME NEW r \in Requests, PostApprovalRequest(r) PROVE Typed'
  BY <1>7 DEF PostApprovalRequest, Goto, HoldsLoop, MayRun
<1>8. ASSUME NEW d \in Deciders, NEW r \in Requests, NEW x \in Decisions, ListPending(d, r, x)
      PROVE Typed'
  <2>1. d \in Handlers /\ r \in Handlers /\ DecidedStatus(x) \in Machine!Statuses
    BY DEF DecidedStatus
  <2>2. pc' = [pc EXCEPT ![d] = "mark"] /\ loop' \in Handlers \cup {Nobody}
    BY <1>8, <2>1 DEF ListPending, Goto, HoldsLoop
  <2>3. /\ subject' = [subject EXCEPT ![d] = r] /\ decision' = [decision EXCEPT ![d] = x]
        /\ task' = [task EXCEPT ![d] = task[r]] /\ goal' = [goal EXCEPT ![d] = DecidedStatus(x)]
        /\ UNCHANGED <<up, initError, crashes, faults, status, ask, audited>>
    BY <1>8 DEF ListPending
  <2>4. TypeOK'
    BY <2>1, <2>2, <2>3
  <2>5. DeciderLoaded'
    BY <2>1, <2>2, <2>3
  <2>. QED
    BY <2>4, <2>5
<1>9. ASSUME NEW d \in Deciders, MarkDecided(d) PROVE Typed'
  <2>1. subject[d] \in Requests /\ decision[d] \in Decisions /\ d \in Handlers
    BY <1>9 DEF MarkDecided
  <2>2. ask' \in [Requests -> {"none", "pending"} \cup Decisions]
    BY <1>9, <2>1 DEF MarkDecided
  <2>3. pc' = [pc EXCEPT ![d] = "update"] /\ loop' \in Handlers \cup {Nobody}
    BY <1>9, <2>1 DEF MarkDecided, Goto, HoldsLoop
  <2>4. UNCHANGED <<up, initError, crashes, faults, status, task, goal, subject, decision, audited>>
    BY <1>9 DEF MarkDecided
  <2>. QED
    BY <2>1, <2>2, <2>3, <2>4
<1>10. ASSUME NEW d \in Deciders, AuditDecision(d) PROVE Typed'
  <2>1. subject[d] \in Requests /\ decision[d] \in Decisions /\ d \in Handlers
    BY <1>10 DEF AuditDecision
  <2>2. audited' \subseteq (Requests \X Decisions)
    BY <1>10, <2>1 DEF AuditDecision
  <2>3. pc' = [pc EXCEPT ![d] = "done"] /\ loop' \in Handlers \cup {Nobody}
    BY <1>10, <2>1 DEF AuditDecision, Goto, HoldsLoop
  <2>4. UNCHANGED <<up, initError, crashes, faults, status, task, goal, ask, subject, decision>>
    BY <1>10 DEF AuditDecision
  <2>. QED
    BY <2>1, <2>2, <2>3, <2>4
<1>11. ASSUME NEW h \in Handlers, Fault(h) PROVE Typed'
  BY <1>11 DEF Fault, Goto, HoldsLoop, MayRun
<1>12. ASSUME Crash PROVE Typed'
  <2>1. /\ up' = FALSE /\ initError' = FALSE /\ crashes' \in 0..MaxCrashes /\ loop' = Nobody
        /\ UNCHANGED <<faults, task, goal, subject, decision>>
    BY <1>12 DEF Crash
  <2>2. pc' = [h \in Handlers |-> IF pc[h] \in Live THEN "dead" ELSE pc[h]]
    BY <1>12 DEF Crash
  <2>3. pc' \in [Handlers -> {"idle"} \cup Live \cup Ended]
    BY <2>2
  <2>4. /\ status' \in [Tasks -> Machine!Statuses \cup {"absent"}]
        /\ ask' \in [Requests -> {"none", "pending"} \cup Decisions]
        /\ audited' \subseteq (Requests \X Decisions)
    BY <1>12 DEF Crash
  <2>5. TypeOK'
    BY <2>1, <2>3, <2>4
  <2>6. DeciderLoaded'
    BY <2>1, <2>2
  <2>. QED
    BY <2>5, <2>6
<1>13. ASSUME Restart PROVE Typed'
  BY <1>13 DEF Restart, Machine!Interrupted
<1>15. ASSUME StartFails PROVE Typed'
  <2>1. initError \in BOOLEAN => initError' \in BOOLEAN
    BY <1>15, Zenon DEF StartFails
  <2>2. /\ faults' \in 0..MaxFaults
        /\ status' \in [Tasks -> Machine!Statuses \cup {"absent"}]
        /\ UNCHANGED <<up, crashes, loop, pc, task, goal, ask, subject, decision, audited>>
    BY <1>15 DEF StartFails, Machine!Interrupted
  <2>. QED
    BY <2>1, <2>2
<1>14. CASE UNCHANGED vars
  BY <1>14 DEF vars
<1>. QED
  BY <1>1, <1>2, <1>3, <1>4, <1>5, <1>6, <1>7, <1>8, <1>9, <1>10, <1>11, <1>12, <1>13, <1>14,
     <1>15
  DEF Next, RequestStep, DeciderStep, HandlerStep

(* The first start succeeds.                                               *)
LEMMA InitTyped == Init => Typed
<1>1. Init => up \in BOOLEAN /\ initError \in BOOLEAN
  BY Zenon DEF Init
<1>. QED
  BY <1>1, RuntimeAssumption DEF Init, Typed, TypeOK, DeciderLoaded, Handlers, Live

(* The variables keep their types, whichever repositories are in use.      *)
THEOREM RuntimeTypeOK == Spec => []TypeOK
<1>1. Init => Typed
  BY InitTyped
<1>2. Typed => TypeOK
  BY DEF Typed
<1>. QED
  BY <1>1, <1>2, TypeStep, PTL DEF Spec

-----------------------------------------------------------------------------
(* The SQL runtime.  The argument: the primary key makes the request that  *)
(* created a row its only owner, the owner's place in the handler fixes    *)
(* what the row says, and a decision about a parked task never passes      *)
(* validation, so nobody else ever writes a row while the process lives.   *)

(* Every step of the SQL runtime keeps the row discipline.                 *)
LEMMA RowStep ==
  ASSUME Backend = "sql", Typed, RowDiscipline, [Next]_vars
  PROVE  RowDiscipline'
<1>. USE RuntimeAssumption
     DEF Typed, TypeOK, DeciderLoaded, RowDiscipline, StageMatchesRow, OneOwner, DeciderNeverCommits,
         Quiet, PendingApprovalIsParked, Owns, Goto, MayRun, WriteStatus, Handlers, Live, Ended,
         Decisions, Machine!Statuses
<1>1. ASSUME NEW r \in Requests, NEW t \in Tasks, Submit(r, t) PROVE RowDiscipline'
  <2>1. StageMatchesRow'
    BY <1>1 DEF Submit
  <2>2. OneOwner'
    BY <1>1 DEF Submit
  <2>3. DeciderNeverCommits'
    BY <1>1 DEF Submit
  <2>4. Quiet'
    BY <1>1 DEF Submit
  <2>5. PendingApprovalIsParked'
    BY <1>1 DEF Submit
  <2>. QED
    BY <2>1, <2>2, <2>3, <2>4, <2>5
<1>2. ASSUME NEW r \in Requests, CreateTask(r) PROVE RowDiscipline'
  <2>1. StageMatchesRow'
    BY <1>2 DEF CreateTask, CanCreate
  <2>2. OneOwner'
    BY <1>2 DEF CreateTask, CanCreate
  <2>3. DeciderNeverCommits'
    BY <1>2 DEF CreateTask, CanCreate
  <2>4. Quiet'
    BY <1>2 DEF CreateTask, CanCreate
  <2>5. PendingApprovalIsParked'
    BY <1>2 DEF CreateTask, CanCreate
  <2>. QED
    BY <2>1, <2>2, <2>3, <2>4, <2>5
<1>3. ASSUME NEW h \in Handlers, UpdateTask(h) PROVE RowDiscipline'
  <2>1. StageMatchesRow'
    BY <1>3 DEF UpdateTask, Machine!Legal, Machine!Transitions
  <2>2. OneOwner'
    BY <1>3 DEF UpdateTask, Machine!Legal, Machine!Transitions
  <2>3. DeciderNeverCommits'
    BY <1>3 DEF UpdateTask, Machine!Legal, Machine!Transitions
  <2>4. Quiet'
    BY <1>3 DEF UpdateTask, Machine!Legal, Machine!Transitions
  <2>5. PendingApprovalIsParked'
    BY <1>3 DEF UpdateTask, Machine!Legal, Machine!Transitions
  <2>. QED
    BY <2>1, <2>2, <2>3, <2>4, <2>5
<1>4. ASSUME NEW h \in Handlers, CommitUpdate(h) PROVE RowDiscipline'
  <2>1. StageMatchesRow'
    BY <1>4 DEF CommitUpdate, AfterUpdate
  <2>2. OneOwner'
    BY <1>4 DEF CommitUpdate, AfterUpdate
  <2>3. DeciderNeverCommits'
    BY <1>4 DEF CommitUpdate, AfterUpdate
  <2>4. Quiet'
    BY <1>4 DEF CommitUpdate, AfterUpdate
  <2>5. PendingApprovalIsParked'
    BY <1>4 DEF CommitUpdate, AfterUpdate
  <2>. QED
    BY <2>1, <2>2, <2>3, <2>4, <2>5
<1>5. ASSUME NEW r \in Requests, WorkflowReturns(r) PROVE RowDiscipline'
  <2>1. StageMatchesRow'
    BY <1>5 DEF WorkflowReturns
  <2>2. OneOwner'
    BY <1>5 DEF WorkflowReturns
  <2>3. DeciderNeverCommits'
    BY <1>5 DEF WorkflowReturns
  <2>4. Quiet'
    BY <1>5 DEF WorkflowReturns
  <2>5. PendingApprovalIsParked'
    BY <1>5 DEF WorkflowReturns
  <2>. QED
    BY <2>1, <2>2, <2>3, <2>4, <2>5
<1>6. ASSUME NEW r \in Requests, WorkflowRaises(r) PROVE RowDiscipline'
  <2>1. StageMatchesRow'
    BY <1>6 DEF WorkflowRaises
  <2>2. OneOwner'
    BY <1>6 DEF WorkflowRaises
  <2>3. DeciderNeverCommits'
    BY <1>6 DEF WorkflowRaises
  <2>4. Quiet'
    BY <1>6 DEF WorkflowRaises
  <2>5. PendingApprovalIsParked'
    BY <1>6 DEF WorkflowRaises
  <2>. QED
    BY <2>1, <2>2, <2>3, <2>4, <2>5
<1>7. ASSUME NEW r \in Requests, PostApprovalRequest(r) PROVE RowDiscipline'
  <2>1. StageMatchesRow'
    BY <1>7 DEF PostApprovalRequest
  <2>2. OneOwner'
    BY <1>7 DEF PostApprovalRequest
  <2>3. DeciderNeverCommits'
    BY <1>7 DEF PostApprovalRequest
  <2>4. Quiet'
    BY <1>7 DEF PostApprovalRequest
  <2>5. PendingApprovalIsParked'
    BY <1>7 DEF PostApprovalRequest
  <2>. QED
    BY <2>1, <2>2, <2>3, <2>4, <2>5
<1>8. ASSUME NEW d \in Deciders, NEW r \in Requests, NEW x \in Decisions, ListPending(d, r, x) PROVE RowDiscipline'
  <2>1. StageMatchesRow'
    BY <1>8 DEF ListPending, DecidedStatus
  <2>2. OneOwner'
    BY <1>8 DEF ListPending, DecidedStatus
  <2>3. DeciderNeverCommits'
    BY <1>8 DEF ListPending, DecidedStatus
  <2>4. Quiet'
    BY <1>8 DEF ListPending, DecidedStatus
  <2>5. PendingApprovalIsParked'
    BY <1>8 DEF ListPending, DecidedStatus
  <2>. QED
    BY <2>1, <2>2, <2>3, <2>4, <2>5
<1>9. ASSUME NEW d \in Deciders, MarkDecided(d) PROVE RowDiscipline'
  <2>1. StageMatchesRow'
    BY <1>9 DEF MarkDecided
  <2>2. OneOwner'
    BY <1>9 DEF MarkDecided
  <2>3. DeciderNeverCommits'
    BY <1>9 DEF MarkDecided
  <2>4. Quiet'
    BY <1>9 DEF MarkDecided
  <2>5. PendingApprovalIsParked'
    BY <1>9 DEF MarkDecided
  <2>. QED
    BY <2>1, <2>2, <2>3, <2>4, <2>5
<1>10. ASSUME NEW d \in Deciders, AuditDecision(d) PROVE RowDiscipline'
  BY <1>10 DEF AuditDecision    \* no SQL decider gets here
<1>11. ASSUME NEW h \in Handlers, Fault(h) PROVE RowDiscipline'
  <2>1. StageMatchesRow'
    BY <1>11 DEF Fault
  <2>2. OneOwner'
    BY <1>11 DEF Fault
  <2>3. DeciderNeverCommits'
    BY <1>11 DEF Fault
  <2>4. Quiet'
    BY <1>11 DEF Fault
  <2>5. PendingApprovalIsParked'
    BY <1>11 DEF Fault
  <2>. QED
    BY <2>1, <2>2, <2>3, <2>4, <2>5
<1>12. ASSUME Crash PROVE RowDiscipline'
  <2>1. StageMatchesRow'
    BY <1>12 DEF Crash
  <2>2. OneOwner'
    BY <1>12 DEF Crash
  <2>3. DeciderNeverCommits'
    BY <1>12 DEF Crash
  <2>4. Quiet'
    BY <1>12 DEF Crash
  <2>5. PendingApprovalIsParked'
    BY <1>12 DEF Crash
  <2>. QED
    BY <2>1, <2>2, <2>3, <2>4, <2>5
<1>13. ASSUME Restart PROVE RowDiscipline'
  <2>1. StageMatchesRow'
    BY <1>13 DEF Restart, Machine!Interrupted, Machine!Inflight
  <2>2. OneOwner'
    BY <1>13 DEF Restart, Machine!Interrupted, Machine!Inflight
  <2>3. DeciderNeverCommits'
    BY <1>13 DEF Restart, Machine!Interrupted, Machine!Inflight
  <2>4. Quiet'
    BY <1>13 DEF Restart, Machine!Interrupted, Machine!Inflight
  <2>5. PendingApprovalIsParked'
    BY <1>13 DEF Restart, Machine!Interrupted, Machine!Inflight
  <2>. QED
    BY <2>1, <2>2, <2>3, <2>4, <2>5
<1>15. ASSUME StartFails PROVE RowDiscipline'
  <2>1. StageMatchesRow'
    BY <1>15 DEF StartFails, Machine!Interrupted, Machine!Inflight
  <2>2. OneOwner'
    BY <1>15 DEF StartFails, Machine!Interrupted, Machine!Inflight
  <2>3. DeciderNeverCommits'
    BY <1>15 DEF StartFails, Machine!Interrupted, Machine!Inflight
  <2>4. Quiet'
    BY <1>15 DEF StartFails, Machine!Interrupted, Machine!Inflight
  <2>5. PendingApprovalIsParked'
    BY <1>15 DEF StartFails, Machine!Interrupted, Machine!Inflight
  <2>. QED
    BY <2>1, <2>2, <2>3, <2>4, <2>5
<1>14. CASE UNCHANGED vars
  BY <1>14 DEF vars
<1>. QED
  BY <1>1, <1>2, <1>3, <1>4, <1>5, <1>6, <1>7, <1>8, <1>9, <1>10, <1>11, <1>12, <1>13, <1>14,
     <1>15
  DEF Next, RequestStep, DeciderStep, HandlerStep

(* The row discipline holds throughout: in particular no approval request  *)
(* is ever attached to a task that runs, completed or failed.              *)
THEOREM SqlRowDiscipline == ASSUME Backend = "sql" PROVE Spec => [](Typed /\ RowDiscipline)
<1>1. Init => Typed /\ RowDiscipline
  BY InitTyped, RuntimeAssumption
  DEF Init, Handlers, Live, RowDiscipline, StageMatchesRow, OneOwner, DeciderNeverCommits, Quiet,
      PendingApprovalIsParked, Owns
<1>2. Typed /\ RowDiscipline /\ [Next]_vars => Typed' /\ RowDiscipline'
  BY TypeStep, RowStep
<1>. QED
  BY <1>1, <1>2, PTL DEF Spec

(* A pending or decided approval request names a parked task.              *)
THEOREM SqlPendingApprovalIsParked == ASSUME Backend = "sql" PROVE Spec => []PendingApprovalIsParked
<1>1. RowDiscipline => PendingApprovalIsParked
  BY DEF RowDiscipline
<1>. QED
  BY <1>1, SqlRowDiscipline, PTL

(* A handler about to commit owns its row, so the row still has the status the
   handler checked: no one else can have moved it. *)
LEMMA OwnedCommitIsLegal == Typed /\ RowDiscipline => CommitStillLegal
  BY RuntimeAssumption
  DEF Typed, TypeOK, RowDiscipline, StageMatchesRow, DeciderNeverCommits, CommitStillLegal, Handlers,
      Ended, Machine!Legal, Machine!Transitions, Machine!Statuses

(* The unlocked read-validate-write of update_task is safe: what was       *)
(* validated at the SELECT still holds at the COMMIT.                      *)
THEOREM SqlCommitStillLegal == ASSUME Backend = "sql" PROVE Spec => []CommitStillLegal
  BY OwnedCommitIsLegal, SqlRowDiscipline, PTL

(* A task in awaiting_approval can always be found by its supervisor,      *)
(* unless the handler that was to post the request is still going or died. *)
THEOREM SqlAwaitingIsAskable == ASSUME Backend = "sql" PROVE Spec => []AwaitingIsAskable
<1>1. Init => AwaitingIsAskable
  BY DEF Init, AwaitingIsAskable
<1>2. ASSUME Typed, RowDiscipline, AwaitingIsAskable, [Next]_vars PROVE AwaitingIsAskable'
  <2>. USE <1>2, RuntimeAssumption
       DEF Typed, TypeOK, RowDiscipline, StageMatchesRow, DeciderNeverCommits, Quiet, AwaitingIsAskable,
           Goto, WriteStatus, Handlers, Live, Ended, Owns, Decisions
  <2>1. ASSUME NEW r \in Requests, NEW t \in Tasks, Submit(r, t) PROVE AwaitingIsAskable'
    BY <2>1 DEF Submit
  <2>2. ASSUME NEW r \in Requests, RequestStep(r) PROVE AwaitingIsAskable'
    <3>1. CASE CreateTask(r)
      BY <3>1 DEF CreateTask
    <3>2. CASE WorkflowReturns(r)
      BY <3>2 DEF WorkflowReturns
    <3>3. CASE WorkflowRaises(r)
      BY <3>3 DEF WorkflowRaises
    <3>4. CASE PostApprovalRequest(r)
      BY <3>4 DEF PostApprovalRequest
    <3>. QED
      BY <2>2, <3>1, <3>2, <3>3, <3>4 DEF RequestStep
  <2>3. ASSUME NEW h \in Handlers, HandlerStep(h) PROVE AwaitingIsAskable'
    <3>1. CASE UpdateTask(h)
      BY <3>1 DEF UpdateTask
    <3>2. CASE CommitUpdate(h)
      BY <3>2 DEF CommitUpdate, AfterUpdate
    <3>. QED
      BY <2>3, <3>1, <3>2 DEF HandlerStep
  <2>4. ASSUME NEW d \in Deciders, DeciderStep(d) PROVE AwaitingIsAskable'
    BY <2>4 DEF DeciderStep, MarkDecided, AuditDecision, DeciderLoaded
  <2>5. ASSUME NEW d \in Deciders, NEW r \in Requests, NEW x \in Decisions, ListPending(d, r, x)
        PROVE AwaitingIsAskable'
    BY <2>5 DEF ListPending
  <2>6. ASSUME NEW h \in Handlers, Fault(h) PROVE AwaitingIsAskable'
    BY <2>6 DEF Fault
  <2>7. CASE Crash
    BY <2>7 DEF Crash
  <2>8. CASE Restart
    BY <2>8 DEF Restart, Machine!Interrupted, Machine!Inflight
  <2>9. CASE StartFails
    BY <2>9 DEF StartFails, Machine!Interrupted, Machine!Inflight
  <2>10. CASE UNCHANGED vars
    BY <2>10 DEF vars
  <2>. QED
    BY <1>2, <2>1, <2>2, <2>3, <2>4, <2>5, <2>6, <2>7, <2>8, <2>9, <2>10 DEF Next
<1>. QED
  BY <1>1, <1>2, SqlRowDiscipline, PTL DEF Spec

-----------------------------------------------------------------------------
(* Refinement *)

(* Every step of the SQL runtime is a step of the machine or leaves the rows. *)
LEMMA StepRefines ==
  ASSUME Backend = "sql", Typed, RowDiscipline, [Next]_vars
  PROVE  [Machine!Next]_status
<1>. USE RuntimeAssumption DEF Typed, TypeOK, Handlers
<1>1. ASSUME NEW r \in Requests, CreateTask(r) PROVE [Machine!Next]_status
  BY <1>1 DEF CreateTask, CanCreate, WriteStatus, Machine!Next, Machine!Create, RowDiscipline,
              StageMatchesRow
<1>2. ASSUME NEW h \in Handlers, CommitUpdate(h) PROVE [Machine!Next]_status
  <2>1. task[h] \in Tasks
    BY <1>2 DEF CommitUpdate, RowDiscipline, StageMatchesRow, DeciderNeverCommits, Owns, Ended
  <2>2. Machine!Legal(status[task[h]], goal[h])
    BY <1>2, OwnedCommitIsLegal DEF CommitUpdate, CommitStillLegal
  <2>3. goal[h] \in Machine!Statuses
    BY <1>2 DEF CommitUpdate, RowDiscipline, StageMatchesRow, DeciderNeverCommits, Ended,
                Machine!Statuses
  <2>4. Machine!Move(task[h])
    BY <1>2, <2>2, <2>3 DEF CommitUpdate, WriteStatus, Machine!Move
  <2>. QED
    BY <2>1, <2>4 DEF Machine!Next
<1>3. ASSUME Restart \/ StartFails PROVE [Machine!Next]_status
  BY <1>3 DEF Restart, StartFails, Machine!Next, Machine!Interrupt
<1>4. ASSUME NEW h \in Handlers, UpdateTask(h) PROVE UNCHANGED status
  BY <1>4 DEF UpdateTask
<1>. QED
  BY <1>1, <1>2, <1>3, <1>4
  DEF Next, RequestStep, DeciderStep, HandlerStep, vars, Submit, WorkflowReturns, WorkflowRaises,
      PostApprovalRequest, ListPending, MarkDecided, AuditDecision, Fault, Crash

(* The rows of the SQL runtime implement the task state machine, through   *)
(* every interleaving of submissions, decisions, exceptions and restarts.  *)
THEOREM SqlObeysStateMachine == ASSUME Backend = "sql" PROVE Spec => ObeysStateMachine
<1>1. Init => Machine!Init
  BY DEF Init, Machine!Init
<1>. QED
  BY <1>1, StepRefines, SqlRowDiscipline, PTL DEF Spec, Machine!Spec, ObeysStateMachine

(* So in the SQL runtime a completed task stays completed, and a failed or *)
(* interrupted one runs again only through the queue, whatever crashes.    *)
THEOREM SqlTasksEndOnce ==
  ASSUME Backend = "sql"
  PROVE  Spec => Machine!CompletedIsTerminal /\ Machine!RetryGoesThroughQueue
BY SqlObeysStateMachine, MachineCompletedIsTerminal, MachineRetryGoesThroughQueue, PTL
   DEF ObeysStateMachine

-----------------------------------------------------------------------------
(* The in-memory runtime.  The argument: a handler that holds the event    *)
(* loop is alone between two awaits, so what a decider marks on a pending  *)
(* request is what it writes into the audit log.                           *)

Holding == {"update", "commit", "ask", "mark", "audit"}

LoopIsHeld == \A h \in Handlers : pc[h] \in Holding => loop = h

MarksOnce ==
  \A d \in Deciders : /\ pc[d] = "mark" => ask[subject[d]] = "pending"
                      /\ pc[d] \in {"update", "commit", "audit"} => ask[subject[d]] = decision[d]

PostsLast == \A r \in Requests : ask[r] # "none" => pc[r] = "done"

MemoryInv == Typed /\ LoopIsHeld /\ MarksOnce /\ PostsLast /\ AuditMatchesDecision

LEMMA GotoHolds ==
  ASSUME Backend = "memory", Typed, NEW h \in Handlers,
         NEW stage \in {"create", "update", "commit", "work", "ask", "mark", "audit"} \cup Ended,
         MayRun(h), LoopIsHeld, Goto(h, stage)
  PROVE  /\ LoopIsHeld'
         /\ \A g \in Handlers : g # h => pc'[g] = pc[g] /\ pc[g] \notin Holding
         /\ pc'[h] = stage
<1>1. pc \in [Handlers -> {"idle"} \cup Live \cup Ended] /\ pc' = [pc EXCEPT ![h] = stage]
  BY DEF Typed, TypeOK, Goto
<1>2. Nobody \notin Handlers /\ loop \in {Nobody, h}
  BY RuntimeAssumption DEF MayRun
<1>3. \A g \in Handlers : g # h => pc'[g] = pc[g] /\ pc[g] \notin Holding
  BY <1>1, <1>2 DEF LoopIsHeld
<1>4. pc'[h] = stage
  BY <1>1
<1>5. stage \in Holding => loop' = h
  BY DEF Goto, HoldsLoop, Holding, Ended
<1> QED
  BY <1>3, <1>4, <1>5 DEF LoopIsHeld

LEMMA MemoryStep ==
  ASSUME Backend = "memory", MemoryInv, [Next]_vars
  PROVE  MemoryInv'
<1>0. Typed'
  BY TypeStep DEF MemoryInv
<1>. USE RuntimeAssumption DEF MemoryInv
<1>i. /\ Requests \subseteq Handlers /\ Deciders \subseteq Handlers /\ Requests \cap Deciders = {}
      /\ ask \in [Requests -> {"none", "pending"} \cup Decisions]
      /\ audited \subseteq (Requests \X Decisions)
      /\ "none" \notin Decisions /\ "pending" \notin Decisions
  BY DEF Handlers, Typed, TypeOK, Decisions
(* Steps of one handler that leave the requests and the log alone.         *)
<1>q. ASSUME NEW h \in Handlers, NEW stage \in {"create", "update", "commit", "work", "ask", "audit"} \cup Ended,
             MayRun(h), Goto(h, stage), UNCHANGED <<ask, subject, decision, audited>>,
             h \in Deciders => pc[h] \in Holding \/ stage \in {"create", "work", "ask"} \cup Ended,
             h \in Deciders /\ stage \in {"update", "commit", "audit"} => pc[h] \in {"update", "commit", "audit"},
             h \in Requests => pc[h] # "done"
      PROVE  MemoryInv'
  <2>1. /\ LoopIsHeld' /\ pc'[h] = stage
        /\ \A g \in Handlers : g # h => pc'[g] = pc[g] /\ pc[g] \notin Holding
    BY <1>q, GotoHolds
  <2>2. MarksOnce'
    BY <1>i, <1>q, <2>1 DEF MarksOnce, Ended
  <2>3. PostsLast'
    BY <1>i, <1>q, <2>1 DEF PostsLast
  <2>4. AuditMatchesDecision'
    BY <1>q DEF AuditMatchesDecision
  <2> QED
    BY <1>0, <2>1, <2>2, <2>3, <2>4
<1>1. ASSUME NEW r \in Requests, NEW t \in Tasks, Submit(r, t) PROVE MemoryInv'
  BY <1>1, <1>i, <1>q DEF Submit
<1>2. ASSUME NEW r \in Requests, CreateTask(r) PROVE MemoryInv'
  BY <1>2, <1>i, <1>q DEF CreateTask, Ended
<1>3. ASSUME NEW h \in Handlers, UpdateTask(h) PROVE MemoryInv'
  <2>1. PICK stage \in {AfterUpdate(h), "error", "commit"} : Goto(h, stage)
    BY <1>3 DEF UpdateTask
  <2>2. stage \in {"commit", "work", "ask", "audit", "done", "error"}
    BY <2>1 DEF AfterUpdate
  <2>3. MayRun(h) /\ pc[h] = "update" /\ UNCHANGED <<ask, subject, decision, audited>>
    BY <1>3 DEF UpdateTask
  <2> QED
    BY <2>1, <2>2, <2>3, <1>q DEF Holding, Ended
<1>4. ASSUME NEW h \in Handlers, CommitUpdate(h) PROVE MemoryInv'
  <2>1. AfterUpdate(h) \in {"work", "ask", "audit", "done"}
    BY DEF AfterUpdate
  <2>2. MayRun(h) /\ pc[h] = "commit" /\ UNCHANGED <<ask, subject, decision, audited>>
        /\ Goto(h, AfterUpdate(h))
    BY <1>4 DEF CommitUpdate
  <2> QED
    BY <2>1, <2>2, <1>q DEF Holding, Ended
<1>5. ASSUME NEW r \in Requests, WorkflowReturns(r) PROVE MemoryInv'
  BY <1>5, <1>i, <1>q DEF WorkflowReturns
<1>6. ASSUME NEW r \in Requests, WorkflowRaises(r) PROVE MemoryInv'
  BY <1>6, <1>i, <1>q DEF WorkflowRaises, Ended
<1>7. ASSUME NEW h \in Handlers, Fault(h) PROVE MemoryInv'
  <2>1. PICK stage \in {"refused", "error"} : Goto(h, stage)
    BY <1>7 DEF Fault
  <2>2. MayRun(h) /\ pc[h] \in Live /\ UNCHANGED <<ask, subject, decision, audited>>
    BY <1>7 DEF Fault
  <2> QED
    BY <2>1, <2>2, <1>q DEF Live, Ended
<1>8. ASSUME NEW r \in Requests, PostApprovalRequest(r) PROVE MemoryInv'
  <2>1. /\ MayRun(r) /\ pc[r] = "ask" /\ Goto(r, "done") /\ UNCHANGED <<subject, decision, audited>>
        /\ ask' = [ask EXCEPT ![r] = "pending"] /\ ask[r] = "none" /\ r \in Handlers
    BY <1>8, <1>i DEF PostApprovalRequest, PostsLast
  <2>2. /\ LoopIsHeld' /\ pc'[r] = "done"
        /\ \A g \in Handlers : g # r => pc'[g] = pc[g] /\ pc[g] \notin Holding
    BY <2>1, GotoHolds DEF Ended
  <2>3. MarksOnce'
    BY <1>i, <2>1, <2>2 DEF MarksOnce, Holding
  <2>4. PostsLast'
    BY <1>i, <2>1, <2>2 DEF PostsLast
  <2>5. AuditMatchesDecision'
    BY <1>i, <2>1 DEF AuditMatchesDecision
  <2> QED
    BY <1>0, <2>2, <2>3, <2>4, <2>5
<1>9. ASSUME NEW d \in Deciders, NEW r \in Requests, NEW x \in Decisions, ListPending(d, r, x)
      PROVE  MemoryInv'
  <2>1. /\ MayRun(d) /\ Goto(d, "mark") /\ UNCHANGED <<ask, audited>> /\ ask[r] = "pending"
        /\ subject' = [subject EXCEPT ![d] = r] /\ decision' = [decision EXCEPT ![d] = x]
        /\ subject \in [Deciders -> Requests \cup {Nobody}]
    BY <1>9 DEF ListPending, Typed, TypeOK
  <2>2. /\ LoopIsHeld' /\ pc'[d] = "mark"
        /\ \A g \in Handlers : g # d => pc'[g] = pc[g] /\ pc[g] \notin Holding
    BY <1>i, <2>1, GotoHolds
  <2>3. MarksOnce'
    BY <1>i, <2>1, <2>2 DEF MarksOnce, Holding
  <2>4. PostsLast'
    BY <1>i, <2>1, <2>2 DEF PostsLast
  <2>5. AuditMatchesDecision'
    BY <2>1 DEF AuditMatchesDecision
  <2> QED
    BY <1>0, <2>2, <2>3, <2>4, <2>5
<1>10. ASSUME NEW d \in Deciders, MarkDecided(d) PROVE MemoryInv'
  <2>1. /\ MayRun(d) /\ pc[d] = "mark" /\ Goto(d, "update") /\ UNCHANGED <<subject, decision, audited>>
        /\ ask' = [ask EXCEPT ![subject[d]] = decision[d]] /\ ask[subject[d]] = "pending"
    BY <1>10 DEF MarkDecided, MarksOnce
  <2>2. subject[d] \in Requests /\ decision[d] \in Decisions
    BY <2>1 DEF Typed, DeciderLoaded, Live
  <2>3. /\ LoopIsHeld' /\ pc'[d] = "update"
        /\ \A g \in Handlers : g # d => pc'[g] = pc[g] /\ pc[g] \notin Holding
    BY <1>i, <2>1, GotoHolds
  <2>4. MarksOnce'
    BY <1>i, <2>1, <2>2, <2>3 DEF MarksOnce, Holding
  <2>5. PostsLast'
    BY <1>i, <2>1, <2>2, <2>3 DEF PostsLast
  <2>6. AuditMatchesDecision'
    BY <1>i, <2>1, <2>2 DEF AuditMatchesDecision
  <2> QED
    BY <1>0, <2>3, <2>4, <2>5, <2>6
<1>11. ASSUME NEW d \in Deciders, AuditDecision(d) PROVE MemoryInv'
  <2>1. /\ MayRun(d) /\ pc[d] = "audit" /\ Goto(d, "done") /\ UNCHANGED <<ask, subject, decision>>
        /\ audited' = audited \cup {<<subject[d], decision[d]>>} /\ ask[subject[d]] = decision[d]
    BY <1>11 DEF AuditDecision, MarksOnce
  <2>2. /\ LoopIsHeld' /\ pc'[d] = "done"
        /\ \A g \in Handlers : g # d => pc'[g] = pc[g] /\ pc[g] \notin Holding
    BY <1>i, <2>1, GotoHolds DEF Ended
  <2>3. MarksOnce'
    BY <1>i, <2>1, <2>2 DEF MarksOnce, Holding
  <2>4. PostsLast'
    BY <1>i, <2>1, <2>2 DEF PostsLast
  <2>5. AuditMatchesDecision'
    BY <2>1 DEF AuditMatchesDecision
  <2> QED
    BY <1>0, <2>2, <2>3, <2>4, <2>5
<1>12. ASSUME Crash PROVE MemoryInv'
  <2>1. /\ pc' = [h \in Handlers |-> IF pc[h] \in Live THEN "dead" ELSE pc[h]]
        /\ ask' = [r \in Requests |-> "none"] /\ audited' = {}
    BY <1>12 DEF Crash
  <2>2. \A h \in Handlers : pc'[h] \notin Live
    BY <2>1 DEF Live
  <2>3. LoopIsHeld' /\ MarksOnce'
    BY <1>i, <2>2 DEF LoopIsHeld, MarksOnce, Holding, Live
  <2>4. PostsLast' /\ AuditMatchesDecision'
    BY <2>1 DEF PostsLast, AuditMatchesDecision
  <2> QED
    BY <1>0, <2>3, <2>4
<1>13. CASE Restart \/ StartFails \/ UNCHANGED vars
  BY <1>0, <1>13 DEF Restart, StartFails, vars, LoopIsHeld, MarksOnce, PostsLast, AuditMatchesDecision
<1> QED
  BY <1>1, <1>2, <1>3, <1>4, <1>5, <1>6, <1>7, <1>8, <1>9, <1>10, <1>11, <1>12, <1>13
  DEF Next, RequestStep, DeciderStep, HandlerStep

LEMMA MemoryInvariant == ASSUME Backend = "memory" PROVE Spec => []MemoryInv
<1>1. Init => MemoryInv
  BY InitTyped, RuntimeAssumption
  DEF Init, MemoryInv, Handlers, Live, LoopIsHeld, Holding, MarksOnce, PostsLast, AuditMatchesDecision
<1>2. MemoryInv /\ [Next]_vars => MemoryInv'
  BY MemoryStep
<1>. QED
  BY <1>1, <1>2, PTL DEF Spec

(* With the in-memory repositories an approval_decided event and the       *)
(* approval request it is about never disagree, however many decisions of  *)
(* one request arrive (api.py's decide_approval).                          *)
THEOREM MemoryAuditMatchesDecision ==
  ASSUME Backend = "memory" PROVE Spec => []AuditMatchesDecision
<1>1. MemoryInv => AuditMatchesDecision
  BY DEF MemoryInv
<1>. QED
  BY <1>1, MemoryInvariant, PTL

(* And the first decision of a request stands for as long as the process   *)
(* lives: a later one no longer finds it among the pending.                *)
THEOREM MemoryDecisionIsFinal == ASSUME Backend = "memory" PROVE Spec => DecisionIsFinal
<1>1. ASSUME MemoryInv, [Next]_vars
      PROVE  [\A r \in Requests : up' /\ ask[r] \in Decisions => ask'[r] = ask[r]]_vars
  <2>. SUFFICES ASSUME NEW r \in Requests, up', ask[r] \in Decisions, ask' # ask PROVE ask'[r] = ask[r]
    OBVIOUS
  <2>0. ask \in [Requests -> {"none", "pending"} \cup Decisions] /\ "pending" \notin Decisions
        /\ "none" \notin Decisions
    BY <1>1 DEF MemoryInv, Typed, TypeOK, Decisions
  <2>1. CASE \E q \in Requests : PostApprovalRequest(q)
    <3>1. PICK q \in Requests : pc[q] = "ask" /\ ask' = [ask EXCEPT ![q] = "pending"]
      BY <2>1 DEF PostApprovalRequest
    <3>2. q # r
      BY <1>1, <2>0, <3>1 DEF MemoryInv, PostsLast
    <3> QED
      BY <2>0, <3>1, <3>2
  <2>2. CASE \E d \in Deciders : MarkDecided(d)
    <3>1. PICK d \in Deciders : /\ ask' = [ask EXCEPT ![subject[d]] = decision[d]]
                                /\ ask[subject[d]] = "pending"
      BY <1>1, <2>2 DEF MarkDecided, MemoryInv, MarksOnce
    <3> QED
      BY <2>0, <3>1
  <2>3. CASE Crash
    BY <2>3 DEF Crash
  <2> QED
    BY <1>1, <2>1, <2>2, <2>3
    DEF Next, RequestStep, DeciderStep, HandlerStep, vars, Submit, CreateTask, UpdateTask, CommitUpdate,
        WorkflowReturns, WorkflowRaises, ListPending, AuditDecision, Fault, Restart, StartFails
<1>. QED
  BY <1>1, MemoryInvariant, PTL DEF Spec, DecisionIsFinal

-----------------------------------------------------------------------------
(* The workflow engines: the edges of a graph, and where its nodes lead.   *)
Less == OpToRel(<, Nat)

(* A set of numbers that is not empty has a least one.                     *)
LEMMA LeastNumber ==
  ASSUME NEW S \in SUBSET Nat, S # {}
  PROVE  \E m \in S : \A n \in S : m <= n
<1>1. IsWellFoundedOn(Less, Nat)
  BY NatLessThanWellFounded, Zenon DEF Less
<1>2. PICK m \in S : \A n \in S : ~ (<<n, m>> \in Less)
  BY <1>1, WFMin
<1>3. \A n \in S : <<n, m>> \in Less <=> n < m
  BY DEF Less, OpToRel
<1>4. \A n \in S : ~ (n < m)
  BY <1>2, <1>3, Zenon
<1>. QED
  BY <1>4

(* The edges of a graph are a list between its nodes.                      *)
Drawn(g) ==
  /\ DOMAIN g.edges \subseteq Nat
  /\ g.entry \in Nodes(g)
  /\ \A i \in DOMAIN g.edges : g.edges[i].to \in Nodes(g)

(* The first of some edges is one of them.                                 *)
LEMMA FirstIsAmong ==
  ASSUME NEW places \in SUBSET Nat, places # {}
  PROVE  First(places) \in places
  BY LeastNumber DEF First

(* Where the streaming loop goes from the nodes of a place.                *)
NextOf(p) == UNION {NextNode(p, n) : n \in p.at}

(* On a plain graph the compiled graph goes there too.                     *)
LEMMA SameWay ==
  ASSUME Drawn(graph), Plain(graph), NEW p, p.at \subseteq Nodes(graph)
  PROVE  UNION {Successors(p, n) : n \in p.at} = NextOf(p)
<1>1. ASSUME NEW n \in p.at PROVE Successors(p, n) = NextNode(p, n)
  <2>1. CASE Conditional(graph, n) # {}
    BY <2>1 DEF Successors, NextNode
  <2>2. CASE Conditional(graph, n) = {}
    <3>1. NextNode(p, n) = IF Unconditional(graph, n) = {} THEN {}
                           ELSE {graph.edges[First(Unconditional(graph, n))].to}
      BY <2>2 DEF NextNode, FirstMatch
    <3>2. Unconditional(graph, n) \in SUBSET Nat
      BY DEF Drawn, Unconditional, From
    <3>3. Unconditional(graph, n) # {} => First(Unconditional(graph, n)) \in Unconditional(graph, n)
      BY <3>2, FirstIsAmong
    <3>4. \A i, j \in Unconditional(graph, n) : graph.edges[i].to = graph.edges[j].to
      BY <1>1 DEF Plain
    <3>5. Successors(p, n) = {graph.edges[i].to : i \in Unconditional(graph, n)}
      BY <2>2 DEF Successors
    <3>. HIDE DEF Unconditional
    <3>. QED
      BY <3>1, <3>3, <3>4, <3>5
  <2>. QED
    BY <2>1, <2>2
<1>. QED
  BY <1>1 DEF NextOf

(* The streaming loop only goes to nodes of the graph.                     *)
LEMMA NextIsDrawn ==
  ASSUME Drawn(graph), NEW p
  PROVE  NextOf(p) \subseteq Nodes(graph)
<1>1. ASSUME NEW n \in p.at PROVE NextNode(p, n) \subseteq Nodes(graph)
  <2>. DEFINE hits == {i \in Conditional(graph, n) : Holds(graph.edges[i].cond, Result(p, n))}
              open == IF hits # {} THEN hits ELSE Unconditional(graph, n)
  <2>1. NextNode(p, n) = IF open = {} THEN {} ELSE {graph.edges[First(open)].to}
    BY DEF NextNode, FirstMatch
  <2>2. open \subseteq DOMAIN graph.edges
    BY DEF Conditional, Unconditional, From
  <2>3. open # {} => First(open) \in open
    <3>. HIDE DEF open
    <3>. QED BY <2>2, FirstIsAmong DEF Drawn
  <2>. HIDE DEF open
  <2>. QED
    BY <2>1, <2>2, <2>3 DEF Drawn
<1>. QED
  BY <1>1 DEF NextOf

-----------------------------------------------------------------------------
(* A run and a place are records of these fields.                          *)
RunForm(r) ==
  r = [stage |-> r.stage, at |-> r.at, st |-> r.st, steps |-> r.steps, verdict |-> r.verdict,
       attempt |-> r.attempt]

PlaceForm(p) == p = [at |-> p.at, st |-> p.st, verdict |-> p.verdict]

(* The places passed are a list, and so is a list with one place more.     *)
IsList(s) == \E S : s \in Seq(S)

LEMMA Appended ==
  ASSUME NEW s, IsList(s), NEW x
  PROVE  /\ IsList(Append(s, x)) /\ Len(s) \in Nat /\ Len(Append(s, x)) = Len(s) + 1
         /\ \A i \in 1..Len(s) : Append(s, x)[i] = s[i]
         /\ Append(s, x)[Len(s) + 1] = x
<1>1. PICK S : s \in Seq(S)
  BY DEF IsList
<1>2. s \in Seq(S \cup {x}) /\ x \in S \cup {x}
  BY <1>1
<1>3. Append(s, x) \in Seq(S \cup {x})
  BY <1>2
<1>. QED
  BY <1>1, <1>3 DEF IsList

(* Lists of one length with the same elements are one list.                *)
LEMMA SameList ==
  ASSUME NEW s, NEW t, IsList(s), IsList(t), Len(s) = Len(t), \A i \in 1..Len(s) : s[i] = t[i]
  PROVE  s = t
<1>1. PICK S : s \in Seq(S)
  BY DEF IsList
<1>2. PICK T : t \in Seq(T)
  BY DEF IsList
<1>. QED
  BY <1>1, <1>2, SeqEqual

RunShape == run = [e \in Engines |-> run[e]] /\ \A e \in Engines : RunForm(run[e])

(* What a step of an engine does to its run.                               *)
Started(e) ==
  /\ run[e].stage = "waiting" /\ run'[e].stage = "running" /\ run'[e].at = {graph.entry}
  /\ run'[e].st = NewState /\ run'[e].steps = <<>> /\ run'[e].verdict = "none"

(* Its council argues or decides.                                          *)
Deliberated(e) ==
  /\ run[e].stage = "running" /\ run'[e].stage = "running" /\ run'[e].at = run[e].at
  /\ run'[e].st = run[e].st /\ run'[e].steps = run[e].steps
  /\ run'[e].verdict \in {run[e].verdict, "approved", "rejected"}

(* Its nodes return, and it goes where they lead.                          *)
Proceeded(e) ==
  /\ NodesMayRun(e) /\ NodesReady(Place(e)) /\ (e = "graph" => ~ Conflict(Place(e)))
  /\ run'[e].st = Merged(Place(e)) /\ run'[e].verdict = "none"
  /\ run'[e].steps = Append(run[e].steps, Place(e))
  /\ run'[e].stage = IF run'[e].at = {} THEN "complete" ELSE "running"
  /\ run'[e].at = IF e = "graph" THEN UNION {Successors(Place(e), n) : n \in run[e].at}
                  ELSE NextOf(Place(e))

(* A step of one engine leaves the task and the other engine alone.        *)
LEMMA ChangeOf ==
  ASSUME RunShape, NEW e \in Engines, NEW r, Change(e, r)
  PROVE  /\ UNCHANGED <<graph, given>> /\ run'[e] = r
         /\ \A d \in Engines \ {e} : run'[d] = run[d]
         /\ RunForm(r) => RunShape'
<1>1. run' = [run EXCEPT ![e] = r] /\ UNCHANGED <<graph, given>>
  BY DEF Change
<1>2. run' = [d \in Engines |-> IF d = e THEN r ELSE run[d]]
  BY <1>1 DEF RunShape
<1>. HIDE DEF Engines, RunForm
<1>. QED
  BY <1>1, <1>2 DEF RunShape

(* Whatever an engine does starts, argues, goes on or gives up.            *)
LEMMA StepOfRun ==
  ASSUME RunShape, NEW e \in Engines, Step(e)
  PROVE  /\ UNCHANGED <<graph, given>> /\ RunShape'
         /\ \A d \in Engines \ {e} : run'[d] = run[d]
         /\ Started(e) \/ Deliberated(e) \/ Proceeded(e) \/ run'[e] = Failed
<1>. DEFINE Goal == /\ UNCHANGED <<graph, given>> /\ RunShape'
                    /\ \A d \in Engines \ {e} : run'[d] = run[d]
                    /\ Started(e) \/ Deliberated(e) \/ Proceeded(e) \/ run'[e] = Failed
<1>0. RunForm(run[e])
  BY DEF RunShape
<1>1. CASE Start(e)
  <2>. DEFINE r == RunAs("running", {graph.entry}, NewState, <<>>)
  <2>1. Change(e, r) /\ run[e].stage = "waiting"
    BY <1>1 DEF Start
  <2>2. /\ RunForm(r) /\ r.stage = "running" /\ r.at = {graph.entry}
        /\ r.st = NewState /\ r.steps = <<>> /\ r.verdict = "none"
    BY DEF RunForm, RunAs
  <2>. HIDE DEF r
  <2>. QED
    BY <2>1, <2>2, ChangeOf DEF Started
<1>2. ASSUME NEW v \in {"approved", "rejected"}, Sitting(e), Judged(e, v) PROVE Goal
  <2>. DEFINE r == [run[e] EXCEPT !.verdict = v]
  <2>1. Change(e, r) /\ run[e].stage = "running"
    BY <1>2 DEF Judged, Sitting
  <2>2. /\ RunForm(r) /\ r.stage = run[e].stage /\ r.at = run[e].at
        /\ r.st = run[e].st /\ r.steps = run[e].steps /\ r.verdict = v
    BY <1>0 DEF RunForm
  <2>. HIDE DEF r
  <2>. QED
    BY <2>1, <2>2, ChangeOf DEF Deliberated
<1>3. CASE Rerun(e)
  <2>. DEFINE r == [run[e] EXCEPT !.attempt = @ + 1]
  <2>1. Change(e, r) /\ run[e].stage = "running"
    BY <1>3 DEF Rerun, Sitting
  <2>2. /\ RunForm(r) /\ r.stage = run[e].stage /\ r.at = run[e].at
        /\ r.st = run[e].st /\ r.steps = run[e].steps /\ r.verdict = run[e].verdict
    BY <1>0 DEF RunForm
  <2>. HIDE DEF r
  <2>. QED
    BY <2>1, <2>2, ChangeOf DEF Deliberated
<1>4. CASE Change(e, Failed)
  <2>1. RunForm(Failed)
    BY DEF RunForm, Failed, RunAs
  <2>. QED
    BY <1>4, <2>1, ChangeOf
<1>5. ASSUME NEW next, Change(e, Advanced(e, next)), NodesMayRun(e), NodesReady(Place(e)),
             e = "graph" => ~ Conflict(Place(e)),
             next = IF e = "graph" THEN UNION {Successors(Place(e), n) : n \in run[e].at}
                    ELSE NextOf(Place(e))
      PROVE  Goal
  <2>. DEFINE r == Advanced(e, next)
  <2>1. Change(e, r)
    BY <1>5
  <2>2. /\ RunForm(r) /\ r.stage = (IF r.at = {} THEN "complete" ELSE "running") /\ r.at = next
        /\ r.st = Merged(Place(e)) /\ r.steps = Append(run[e].steps, Place(e)) /\ r.verdict = "none"
    <3>. HIDE DEF Place
    <3>. QED BY DEF RunForm, Advanced, RunAs
  <2>. HIDE DEF r
  <2>3. Proceeded(e) => Goal
    BY <2>1, <2>2, ChangeOf
  <2>4. run'[e] = r
    BY <2>1, ChangeOf
  <2>5. Proceeded(e)
    BY <1>5, <2>2, <2>4 DEF Proceeded
  <2>. QED
    BY <2>3, <2>5
<1>6. CASE e = "graph" /\ Superstep
  <2>1. Place(e).at = run[e].at
    BY DEF Place
  <2>2. \/ Change(e, Failed)
        \/ /\ NodesMayRun(e) /\ NodesReady(Place(e)) /\ ~ Conflict(Place(e))
           /\ Change(e, Advanced(e, UNION {Successors(Place(e), n) : n \in run[e].at}))
    BY <1>6, <2>1 DEF Superstep
  <2>. HIDE DEF Goal
  <2>. QED
    BY <1>4, <1>5, <1>6, <2>2 DEF Goal
<1>7. CASE e = "stream" /\ StreamNode
  <2>1. Place(e).at = run[e].at
    BY DEF Place
  <2>2. \/ Change(e, Failed)
        \/ NodesMayRun(e) /\ NodesReady(Place(e)) /\ Change(e, Advanced(e, NextOf(Place(e))))
    BY <1>7, <2>1 DEF StreamNode, NextOf
  <2>. HIDE DEF Goal
  <2>. QED
    BY <1>4, <1>5, <1>7, <2>2 DEF Goal
<1>. QED
  BY <1>1, <1>2, <1>3, <1>4, <1>6, <1>7
     DEF Step, Council, TimeIsUp, CouncilRaises, Adjudicate, NodeRaises

-----------------------------------------------------------------------------
(* A journey is a run with the place it is at: each place follows from     *)
(* the one before it.                                                      *)
IsJourney(w) ==
  /\ w[1].at = {graph.entry} /\ w[1].st = NewState
  /\ \A i \in 1..Len(w) : PlaceForm(w[i]) /\ w[i].at \subseteq Nodes(graph)
  /\ \A i \in 1..(Len(w) - 1) :
       w[i].at # {} /\ w[i + 1].at = NextOf(w[i]) /\ w[i + 1].st = Merged(w[i])
(* Where a place leads does not depend on the runs.                        *)
LEMMA SameWorld ==
  ASSUME UNCHANGED <<graph, given>>, NEW p
  PROVE  NextOf(p)' = NextOf(p) /\ Merged(p)' = Merged(p)
<1>1. ASSUME NEW n PROVE Result(p, n)' = Result(p, n)
  BY DEF Result, Effect, Legal, Executive, Accounting, Builtin
<1>2. ASSUME NEW n PROVE Delta(p, n)' = Delta(p, n)
  BY <1>1 DEF Delta
<1>3. Merged(p)' = Merged(p)
  BY <1>1, <1>2 DEF Merged
<1>4. ASSUME NEW n PROVE NextNode(p, n)' = NextNode(p, n)
  BY <1>1 DEF NextNode
<1>. QED
  BY <1>3, <1>4 DEF NextOf
LEMMA SameJourney ==
  ASSUME UNCHANGED <<graph, given>>, NEW w
  PROVE  IsJourney(w)' <=> IsJourney(w)
  BY SameWorld DEF IsJourney, Nodes
(* The places of a run, the one it is at included.                         *)
Journey(e) == Append(run[e].steps, Place(e))

(* The inductive invariant behind EnginesAgree.                            *)
Travelled ==
  /\ RunShape /\ Drawn(graph)
  /\ \A e \in Engines :
       /\ IsList(run[e].steps)
       /\ run[e].stage = "complete" => run[e].at = {}
       /\ run[e].stage \in {"running", "complete"} /\ Plain(graph) => IsJourney(Journey(e))

(* Every step of an engine keeps both journeys.                            *)
LEMMA JourneyStep ==
  ASSUME Travelled, NEW e \in Engines, Step(e)
  PROVE  Travelled'
<1>1. /\ UNCHANGED <<graph, given>> /\ RunShape'
      /\ \A d \in Engines \ {e} : run'[d] = run[d]
      /\ Started(e) \/ Deliberated(e) \/ Proceeded(e) \/ run'[e] = Failed
  BY StepOfRun DEF Travelled
<1>2. Drawn(graph)' /\ (Plain(graph)' <=> Plain(graph))
  BY <1>1 DEF Travelled
<1>3. ASSUME NEW d \in Engines \ {e}
      PROVE  /\ IsList(run'[d].steps)
             /\ run'[d].stage = "complete" => run'[d].at = {}
             /\ run'[d].stage \in {"running", "complete"} /\ Plain(graph)' => IsJourney(Journey(d))'
  <2>1. run'[d] = run[d] /\ Journey(d)' = Journey(d)
    BY <1>1 DEF Journey, Place
  <2>2. IsJourney(Journey(d))' <=> IsJourney(Journey(d))
    BY <1>1, <2>1, SameJourney
  <2>. QED
    BY <1>2, <2>1, <2>2 DEF Travelled
<1>4. PlaceForm(Place(e)) /\ PlaceForm(Place(e))'
  BY DEF PlaceForm, Place
<1>5. Place(e)' = [at |-> run'[e].at, st |-> run'[e].st, verdict |-> run'[e].verdict]
  BY DEF Place
<1>. DEFINE Kept == /\ IsList(run'[e].steps)
                    /\ run'[e].stage = "complete" => run'[e].at = {}
                    /\ run'[e].stage \in {"running", "complete"} /\ Plain(graph)'
                         => IsJourney(Journey(e))'
<1>6. ASSUME Started(e) PROVE Kept
  <2>1. IsList(run'[e].steps) /\ run'[e].stage = "running" /\ Journey(e)' = <<Place(e)'>>
    BY <1>6 DEF Started, Journey, IsList
  <2>2. IsJourney(<<Place(e)'>>)
    <3>1. /\ Place(e)'.at = {graph.entry} /\ Place(e)'.st = NewState
          /\ {graph.entry} \subseteq Nodes(graph)
      BY <1>5, <1>6 DEF Started, Travelled, Drawn
    <3>2. PlaceForm(Place(e)')
      BY <1>4 DEF PlaceForm
    <3>. HIDE DEF Place, PlaceForm
    <3>. QED
      BY <3>1, <3>2 DEF IsJourney
  <2>. QED
    BY <1>1, <2>1, <2>2, SameJourney
<1>7. ASSUME Deliberated(e) PROVE Kept
  <2>. DEFINE w == Journey(e)  v == Journey(e)'
  <2>1. /\ run'[e].steps = run[e].steps /\ run'[e].stage = run[e].stage /\ run[e].stage = "running"
        /\ Place(e)'.at = Place(e).at /\ Place(e)'.st = Place(e).st
    BY <1>7 DEF Deliberated, Place
  <2>2. IsList(run[e].steps)
    BY DEF Travelled
  <2>3. /\ Len(run[e].steps) \in Nat /\ Len(w) = Len(run[e].steps) + 1 /\ Len(v) = Len(w)
        /\ \A i \in 1..(Len(w) - 1) : v[i] = w[i]
        /\ w[Len(w)] = Place(e) /\ v[Len(w)] = Place(e)'
    BY <2>1, <2>2, Appended DEF Journey
  <2>4. \A i \in 1..Len(w) : v[i].at = w[i].at /\ v[i].st = w[i].st
    <3>. HIDE DEF w, v
    <3>. QED BY <2>1, <2>3
  <2>5. ASSUME IsJourney(w) PROVE IsJourney(v)
    <3>. HIDE DEF w, v
    <3>1. \A i \in 1..Len(w) : PlaceForm(v[i])
      BY <1>4, <2>3, <2>5 DEF IsJourney
    <3>2. \A i \in 1..(Len(w) - 1) :
            v[i].at # {} /\ v[i + 1].at = NextOf(v[i]) /\ v[i + 1].st = Merged(v[i])
      BY <2>3, <2>4, <2>5 DEF IsJourney
    <3>3. 1 \in 1..Len(w) /\ Len(v) = Len(w)
      BY <2>3
    <3>. QED
      BY <2>4, <2>5, <3>1, <3>2, <3>3 DEF IsJourney
  <2>6. Plain(graph) => IsJourney(w)
    BY <2>1 DEF Travelled
  <2>7. Plain(graph)' => IsJourney(Journey(e))'
    BY <1>1, <1>2, <2>5, <2>6, SameJourney
  <2>. QED
    BY <2>1, <2>2, <2>7
<1>8. ASSUME Proceeded(e) PROVE Kept
  <2>. DEFINE w == Journey(e)  v == Journey(e)'
  <2>1. /\ run'[e].steps = w /\ run[e].stage = "running" /\ run[e].at # {}
        /\ run'[e].stage = (IF run'[e].at = {} THEN "complete" ELSE "running")
    BY <1>8 DEF Proceeded, NodesMayRun, Journey
  <2>2. IsList(run[e].steps) /\ IsList(w)
    BY Appended DEF Travelled, Journey
  <2>3. v = Append(w, Place(e)')
    BY <2>1 DEF Journey
  <2>4. /\ Len(w) \in Nat \ {0} /\ Len(v) = Len(w) + 1
        /\ \A i \in 1..Len(w) : v[i] = w[i]
        /\ w[Len(w)] = Place(e) /\ v[Len(w) + 1] = Place(e)'
    <3>1. /\ Len(run[e].steps) \in Nat /\ Len(w) = Len(run[e].steps) + 1
          /\ w[Len(run[e].steps) + 1] = Place(e)
      BY <2>2, Appended DEF Journey
    <3>2. /\ Len(v) = Len(w) + 1 /\ \A i \in 1..Len(w) : v[i] = w[i]
          /\ v[Len(w) + 1] = Place(e)'
      <4>. HIDE DEF w, v
      <4>. QED BY <2>2, <2>3, Appended
    <3>. QED
      BY <3>1, <3>2
  <2>5. ASSUME IsJourney(w), Plain(graph) PROVE IsJourney(v)
    <3>1. Place(e).at \subseteq Nodes(graph) /\ Place(e).at = run[e].at
      BY <2>4, <2>5 DEF IsJourney, Place
    <3>2. UNION {Successors(Place(e), n) : n \in run[e].at} = NextOf(Place(e))
      BY <3>1, <2>5, SameWay DEF Travelled
    <3>3. Place(e)'.at = NextOf(Place(e)) /\ Place(e)'.st = Merged(Place(e))
      BY <1>5, <1>8, <3>2 DEF Proceeded
    <3>4. Place(e)'.at \subseteq Nodes(graph)
      BY <3>3, NextIsDrawn DEF Travelled
    <3>. HIDE DEF w, v
    <3>5. \A i \in 1..Len(v) : PlaceForm(v[i]) /\ v[i].at \subseteq Nodes(graph)
      BY <1>4, <2>4, <2>5, <3>4 DEF IsJourney
    <3>6. \A i \in 1..Len(w) :
            v[i].at # {} /\ v[i + 1].at = NextOf(v[i]) /\ v[i + 1].st = Merged(v[i])
      BY <2>1, <2>4, <2>5, <3>1, <3>3 DEF IsJourney
    <3>. QED
      BY <2>4, <2>5, <3>5, <3>6 DEF IsJourney
  <2>6. Plain(graph) => IsJourney(w)
    BY <2>1 DEF Travelled
  <2>7. Plain(graph)' => IsJourney(Journey(e))'
    BY <1>1, <1>2, <2>5, <2>6, SameJourney
  <2>. QED
    BY <2>1, <2>2, <2>7
<1>9. ASSUME run'[e] = Failed PROVE Kept
  <2>1. run'[e].steps = <<>> /\ run'[e].stage = "failed"
    BY <1>9 DEF Failed, RunAs
  <2>. QED
    BY <2>1 DEF IsList
<1>10. Kept
  BY <1>1, <1>6, <1>7, <1>8, <1>9
<1>. QED
  BY <1>1, <1>2, <1>3, <1>10 DEF Travelled

(* Two journeys whose verdicts agree agree as long as both last.           *)
LEMMA JourneysAgree ==
  ASSUME NEW v, NEW w, IsJourney(v), IsJourney(w), Len(v) \in Nat, Len(w) \in Nat,
         \A i \in Nat \ {0} : i < Len(v) /\ i < Len(w) => v[i].verdict = w[i].verdict
  PROVE  \A i \in Nat \ {0} : i <= Len(v) /\ i <= Len(w) => v[i].at = w[i].at /\ v[i].st = w[i].st
<1>. DEFINE bad == {i \in Nat : /\ i # 0 /\ i <= Len(v) /\ i <= Len(w)
                                /\ ~ (v[i].at = w[i].at /\ v[i].st = w[i].st)}
<1>1. SUFFICES ASSUME bad # {} PROVE FALSE
  OBVIOUS
<1>2. PICK m \in bad : \A i \in bad : m <= i
  BY <1>1, LeastNumber
<1>3. m # 1
  BY <1>2 DEF IsJourney
<1>4. /\ m \in Nat /\ m > 1 /\ m <= Len(v) /\ m <= Len(w)
      /\ ~ (v[m].at = w[m].at /\ v[m].st = w[m].st)
  BY <1>2, <1>3
<1>5. PICK k \in Nat : k + 1 = m /\ k # 0 /\ k < Len(v) /\ k < Len(w)
  <2>1. m - 1 \in Nat /\ (m - 1) + 1 = m /\ m - 1 # 0 /\ m - 1 < Len(v) /\ m - 1 < Len(w)
    BY <1>4
  <2>. QED
    BY <2>1
<1>6. v[k].at = w[k].at /\ v[k].st = w[k].st
  <2>1. k \notin bad
    <3>. HIDE DEF bad
    <3>. QED BY <1>2, <1>4, <1>5
  <2>. QED
    BY <1>5, <2>1
<1>7. v[k] = w[k]
  <2>1. PlaceForm(v[k]) /\ PlaceForm(w[k])
    BY <1>5 DEF IsJourney
  <2>2. v[k].verdict = w[k].verdict
    BY <1>5
  <2>. QED
    BY <1>6, <2>1, <2>2 DEF PlaceForm
<1>8. /\ v[m].at = NextOf(v[k]) /\ v[m].st = Merged(v[k])
      /\ w[m].at = NextOf(w[k]) /\ w[m].st = Merged(w[k])
  <2>1. k \in 1..(Len(v) - 1) /\ k \in 1..(Len(w) - 1)
    BY <1>5
  <2>. QED
    BY <1>5, <2>1 DEF IsJourney
<1>. QED
  BY <1>4, <1>7, <1>8

(* A journey that has ended is no shorter than another one.                *)
LEMMA NoLonger ==
  ASSUME NEW v, NEW w, IsJourney(w), Len(v) \in Nat \ {0}, Len(w) \in Nat,
         v[Len(v)].at = {},
         \A i \in Nat \ {0} : i <= Len(v) /\ i <= Len(w) => v[i].at = w[i].at /\ v[i].st = w[i].st
  PROVE  Len(w) <= Len(v)
<1>1. SUFFICES ASSUME Len(v) < Len(w) PROVE FALSE
  OBVIOUS
<1>2. Len(v) \in 1..(Len(w) - 1)
  BY <1>1
<1>3. w[Len(v)].at # {}
  BY <1>2 DEF IsJourney
<1>4. v[Len(v)].at = w[Len(v)].at
  BY <1>1
<1>. QED
  BY <1>3, <1>4

(* Two journeys that have ended and met the same verdicts are one.         *)
LEMMA TravelledAgree == Travelled => EnginesAgree
<1>. SUFFICES ASSUME Travelled, Plain(graph), \A e \in Engines : run[e].stage = "complete",
                     SameVerdicts(run["graph"].steps, run["stream"].steps)
              PROVE  /\ run["graph"].steps = run["stream"].steps
                     /\ run["graph"].st = run["stream"].st
  BY DEF EnginesAgree
<1>. DEFINE p == run["graph"].steps  q == run["stream"].steps
            v == Journey("graph")  w == Journey("stream")
<1>1. IsList(p) /\ IsList(q) /\ IsJourney(v) /\ IsJourney(w)
  BY DEF Travelled, Engines
<1>2. /\ Len(p) \in Nat /\ Len(v) = Len(p) + 1 /\ v[Len(p) + 1] = Place("graph")
      /\ \A i \in 1..Len(p) : v[i] = p[i]
      /\ Len(q) \in Nat /\ Len(w) = Len(q) + 1 /\ w[Len(q) + 1] = Place("stream")
      /\ \A i \in 1..Len(q) : w[i] = q[i]
  <2>. HIDE DEF p, q
  <2>. QED BY <1>1, Appended DEF Journey, p, q
<1>3. \A i \in 1..Len(p) : i \in 1..Len(q) => p[i].verdict = q[i].verdict
  <2>1. DOMAIN p = 1..Len(p) /\ DOMAIN q = 1..Len(q)
    BY <1>1 DEF IsList
  <2>. QED
    BY <2>1 DEF SameVerdicts
<1>4. /\ Place("graph").at = {} /\ Place("graph").st = run["graph"].st
      /\ Place("stream").at = {} /\ Place("stream").st = run["stream"].st
  BY DEF Travelled, Engines, Place
<1>. HIDE DEF p, q, v, w
<1>5. \A i \in Nat \ {0} : i < Len(v) /\ i < Len(w) => v[i].verdict = w[i].verdict
  <2>1. SUFFICES ASSUME NEW i \in Nat \ {0}, i < Len(v), i < Len(w)
                 PROVE  v[i].verdict = w[i].verdict
    OBVIOUS
  <2>2. i \in 1..Len(p) /\ i \in 1..Len(q)
    BY <1>2, <2>1
  <2>. QED
    BY <1>2, <1>3, <2>2
<1>6. \A i \in Nat \ {0} : i <= Len(v) /\ i <= Len(w) => v[i].at = w[i].at /\ v[i].st = w[i].st
  BY <1>1, <1>2, <1>5, JourneysAgree
<1>7. Len(w) <= Len(v) /\ Len(v) <= Len(w)
  <2>1. Len(v) \in Nat \ {0} /\ Len(w) \in Nat \ {0} /\ v[Len(v)].at = {} /\ w[Len(w)].at = {}
    BY <1>2, <1>4
  <2>2. \A i \in Nat \ {0} : i <= Len(w) /\ i <= Len(v) => w[i].at = v[i].at /\ w[i].st = v[i].st
    BY <1>6
  <2>3. Len(w) <= Len(v)
    BY <1>1, <1>6, <2>1, NoLonger
  <2>4. Len(v) <= Len(w)
    BY <1>1, <2>1, <2>2, NoLonger
  <2>. QED
    BY <2>3, <2>4
<1>8. Len(p) = Len(q)
  BY <1>2, <1>7
<1>9. run["graph"].st = run["stream"].st
  BY <1>2, <1>4, <1>6, <1>8
<1>10. \A i \in 1..Len(p) : p[i] = q[i]
  <2>1. SUFFICES ASSUME NEW i \in 1..Len(p) PROVE p[i] = q[i]
    OBVIOUS
  <2>2. p[i].at = q[i].at /\ p[i].st = q[i].st /\ p[i].verdict = q[i].verdict
    BY <1>2, <1>3, <1>6, <1>8
  <2>3. PlaceForm(p[i]) /\ PlaceForm(q[i])
    BY <1>1, <1>2, <1>8 DEF IsJourney
  <2>. QED
    BY <2>2, <2>3 DEF PlaceForm
<1>11. p = q
  BY <1>1, <1>8, <1>10, SameList
<1>. QED
  BY <1>9, <1>11 DEF p, q

(* What the output of a run is made of.                                    *)
Outputs == {"plan", "schedule", "metrics", "aging", "checklist"}

(* What the state of a run may be.                                         *)
States ==
  [sanitized : BOOLEAN, extracted : BOOLEAN, analysed : BOOLEAN, scored : BOOLEAN, score : 0..100,
   brief : BOOLEAN, output : SUBSET Outputs,
   asks : BOOLEAN, decision : {"", "qualified", "needs_review", "escalated"},
   council : {"none", "approved", "rejected"},
   delivery : {"", "awaiting_approval", "delivered"}, completed : BOOLEAN]

(* What a council has said, or not yet.                                    *)
Verdicts == {"none", "approved", "rejected"}

(* Adapters that ask whatever they read, and those that leave the flag.    *)
Asking ==
  {"builtin_flag_for_review", "builtin_escalate", "bank_feed_gl_reconciliation", "variance_analysis",
   "ap_ar_aging_review", "statement_draft", "finance_approval_boundary"}
Keeping ==
  {"sanitize_input", "legal_extract", "legal_analyze", "legal_generate_brief", "executive_schedule",
   "executive_draft", "close_checklist", "builtin_request_approval", "builtin_deliver",
   "builtin_log_completion"}

Adapters ==
  Asking \cup Keeping
    \cup {"legal_confidence", "deliberation_review", "executive_plan", "accounting_close_plan", "custom"}

(* What adapter a, with the verdict v, may make of the state s.            *)
EffectFacts(a, s, v, r) ==
  /\ r \in States
  /\ a # "legal_confidence" => r.scored = s.scored /\ r.score = s.score
  /\ a = "legal_confidence" => r.asks = (r.score < 85)
  /\ a # "deliberation_review" => r.council = s.council
  /\ a = "deliberation_review" => r.council = v /\ r.asks = (v # "approved")
  /\ a \in Asking => r.asks
  /\ a \in Keeping => r.asks = s.asks

(* A step that writes neither score nor verdict.                           *)
Wrote(s, r) == r \in States /\ r.scored = s.scored /\ r.score = s.score /\ r.council = s.council

(* A plan or a report is written together with the flag.                   *)
LEMMA ReportWritten ==
  ASSUME NEW s \in States, NEW o \in SUBSET Outputs, NEW r
  PROVE  /\ r = [s EXCEPT !.output = o, !.asks = TRUE] => Wrote(s, r) /\ r.asks
         /\ r = [s EXCEPT !.output = o, !.asks = FALSE] => Wrote(s, r) /\ ~ r.asks
<1>1. [s EXCEPT !.output = o, !.asks = TRUE] \in States
  BY DEF States, Outputs
<1>2. [s EXCEPT !.output = o, !.asks = FALSE] \in States
  BY DEF States, Outputs
<1>. QED
  BY <1>1, <1>2 DEF States, Wrote

(* And every adapter of a designed graph does no more.                     *)
LEMMA EffectOf ==
  ASSUME given \in Answers, NEW a \in Adapters, NEW s \in States, NEW v \in Verdicts
  PROVE  EffectFacts(a, s, v, Effect(a, s, v))
<1>. USE DEF Asking, Keeping, LegalAdapters, ExecutiveAdapters, BuiltinAdapters
<1>0. given.score \in 0..100
  BY EngineAssumption DEF Answers
<1>1. CASE a = "sanitize_input"
  <2>1. Effect(a, s, v) = [s EXCEPT !.sanitized = TRUE]
    BY <1>1 DEF Effect
  <2>. QED BY <1>1, <2>1 DEF EffectFacts, States, Outputs
<1>2. CASE a = "deliberation_review"
  <2>1. Effect(a, s, v) = [s EXCEPT !.council = v, !.asks = (v # "approved")]
    BY <1>2 DEF Effect, AsksAfter
  <2>. QED BY <1>2, <2>1 DEF EffectFacts, States, Outputs, Verdicts
<1>3. CASE a = "legal_extract"
  <2>1. Effect(a, s, v) = [s EXCEPT !.extracted = TRUE]
    BY <1>3 DEF Effect, Legal
  <2>. QED BY <1>3, <2>1 DEF EffectFacts, States, Outputs
<1>4. CASE a = "legal_analyze"
  <2>1. Effect(a, s, v) = [s EXCEPT !.analysed = TRUE, !.decision = "qualified"]
    BY <1>4 DEF Effect, Legal
  <2>. QED BY <1>4, <2>1 DEF EffectFacts, States, Outputs
<1>5. CASE a = "legal_confidence"
  <2>1. Effect(a, s, v) = [s EXCEPT !.scored = TRUE, !.score = given.score,
                                    !.asks = Recommendation(given.score) # "proceed"]
    BY <1>5 DEF Effect, Legal
  <2>2. (Recommendation(given.score) # "proceed") = (given.score < 85)
    BY <1>0 DEF Recommendation
  <2>. QED BY <1>0, <1>5, <2>1, <2>2 DEF EffectFacts, States, Outputs
<1>6. CASE a = "legal_generate_brief"
  <2>1. Effect(a, s, v) = [s EXCEPT !.brief = TRUE]
    BY <1>6 DEF Effect, Legal
  <2>. QED BY <1>6, <2>1 DEF EffectFacts, States, Outputs
<1>7. CASE a = "executive_plan"
  <2>1. Effect(a, s, v) = [s EXCEPT !.output = {"plan"}, !.asks = given.plan \in {"asks", "advice_review"}]
    BY <1>7 DEF Effect, Executive
  <2>2. Wrote(s, Effect(a, s, v))
    <3>1. CASE given.plan \in {"asks", "advice_review"}
      <4>1. Effect(a, s, v) = [s EXCEPT !.output = {"plan"}, !.asks = TRUE]
        BY <2>1, <3>1
      <4>. QED BY <4>1, ReportWritten DEF Outputs
    <3>2. CASE given.plan \notin {"asks", "advice_review"}
      <4>0. (given.plan \in {"asks", "advice_review"}) = FALSE
        BY <3>2
      <4>1. Effect(a, s, v) = [s EXCEPT !.output = {"plan"}, !.asks = FALSE]
        BY <2>1, <4>0, Zenon
      <4>. QED BY <4>1, ReportWritten DEF Outputs
    <3>. QED BY <3>1, <3>2
  <2>. QED BY <1>7, <2>2 DEF EffectFacts, Wrote
<1>8. CASE a = "executive_schedule"
  <2>1. Effect(a, s, v) = [s EXCEPT !.output = s.output \cup {"schedule"}]
    BY <1>8 DEF Effect, Executive
  <2>. QED BY <1>8, <2>1 DEF EffectFacts, States, Outputs
<1>9. CASE a = "executive_draft"
  <2>1. Effect(a, s, v) = [s EXCEPT !.brief = TRUE]
    BY <1>9 DEF Effect, Executive
  <2>. QED BY <1>9, <2>1 DEF EffectFacts, States, Outputs
<1>10. CASE a = "accounting_close_plan"
  <2>1. Effect(a, s, v) = [s EXCEPT !.output = {"plan"}, !.asks = given.plan # "advice"]
    BY <1>10 DEF Effect, Accounting
  <2>2. Wrote(s, Effect(a, s, v))
    BY <2>1, ReportWritten DEF States, Outputs
  <2>. QED BY <1>10, <2>2 DEF EffectFacts, Wrote
<1>11. CASE a = "bank_feed_gl_reconciliation"
  <2>1. Effect(a, s, v) = [s EXCEPT !.output = s.output \cup {"metrics"}, !.asks = TRUE]
    BY <1>11 DEF Effect, Accounting
  <2>2. Wrote(s, Effect(a, s, v)) /\ Effect(a, s, v).asks
    BY <2>1, ReportWritten DEF States, Outputs
  <2>. QED BY <1>11, <2>2 DEF EffectFacts, Wrote
<1>12. CASE a = "variance_analysis"
  <2>1. Effect(a, s, v) = [s EXCEPT !.output = s.output \cup {"metrics"}, !.asks = TRUE]
    BY <1>12 DEF Effect, Accounting
  <2>2. Wrote(s, Effect(a, s, v)) /\ Effect(a, s, v).asks
    BY <2>1, ReportWritten DEF States, Outputs
  <2>. QED BY <1>12, <2>2 DEF EffectFacts, Wrote
<1>13. CASE a = "ap_ar_aging_review"
  <2>1. Effect(a, s, v) = [s EXCEPT !.output = s.output \cup {"aging"}, !.asks = TRUE]
    BY <1>13 DEF Effect, Accounting
  <2>2. Wrote(s, Effect(a, s, v)) /\ Effect(a, s, v).asks
    BY <2>1, ReportWritten DEF States, Outputs
  <2>. QED BY <1>13, <2>2 DEF EffectFacts, Wrote
<1>14. CASE a = "close_checklist"
  <2>1. Effect(a, s, v) = [s EXCEPT !.output = s.output \cup {"checklist"}]
    BY <1>14 DEF Effect, Accounting
  <2>. QED BY <1>14, <2>1 DEF EffectFacts, States, Outputs
<1>15. CASE a = "statement_draft"
  <2>1. Effect(a, s, v) = [s EXCEPT !.brief = TRUE, !.asks = TRUE]
    BY <1>15 DEF Effect, Accounting
  <2>. QED BY <1>15, <2>1 DEF EffectFacts, States, Outputs
<1>16. CASE a = "finance_approval_boundary"
  <2>1. Effect(a, s, v) = [s EXCEPT !.asks = TRUE]
    BY <1>16 DEF Effect, Accounting
  <2>. QED BY <1>16, <2>1 DEF EffectFacts, States, Outputs
<1>17. CASE a = "builtin_flag_for_review"
  <2>1. Effect(a, s, v) = [s EXCEPT !.asks = TRUE, !.decision = "needs_review"]
    BY <1>17 DEF Effect, Builtin
  <2>. QED BY <1>17, <2>1 DEF EffectFacts, States, Outputs
<1>18. CASE a = "builtin_escalate"
  <2>1. Effect(a, s, v) = [s EXCEPT !.asks = TRUE, !.decision = "escalated"]
    BY <1>18 DEF Effect, Builtin
  <2>. QED BY <1>18, <2>1 DEF EffectFacts, States, Outputs
<1>19. CASE a = "builtin_request_approval"
  <2>1. Effect(a, s, v) = [s EXCEPT !.delivery = "awaiting_approval"]
    BY <1>19 DEF Effect, Builtin
  <2>. QED BY <1>19, <2>1 DEF EffectFacts, States, Outputs
<1>20. CASE a = "builtin_deliver"
  <2>1. Effect(a, s, v) = [s EXCEPT !.delivery = "delivered"]
    BY <1>20 DEF Effect, Builtin
  <2>. QED BY <1>20, <2>1 DEF EffectFacts, States, Outputs
<1>21. CASE a = "builtin_log_completion"
  <2>1. Effect(a, s, v) = [s EXCEPT !.completed = TRUE]
    BY <1>21 DEF Effect, Builtin
  <2>. QED BY <1>21, <2>1 DEF EffectFacts, States, Outputs
<1>22. CASE a = "custom"
  <2>1. Effect(a, s, v) = [s EXCEPT !.asks = IF given.custom = "nothing" THEN s.asks ELSE given.custom = "asks"]
    BY <1>22 DEF Effect, Builtin
  <2>. QED BY <1>22, <2>1 DEF EffectFacts, States, Outputs
<1>. QED
  BY <1>1, <1>2, <1>3, <1>4, <1>5, <1>6, <1>7, <1>8, <1>9, <1>10, <1>11, <1>12,
     <1>13, <1>14, <1>15, <1>16, <1>17, <1>18, <1>19, <1>20, <1>21, <1>22
     DEF Adapters

-----------------------------------------------------------------------------
(* The designed graphs: their edges, whatever their order.                 *)
Line(a, b) == Edge(a, b, Always)

(* The edges of each of the designs.                                       *)
ExecutiveEdges ==
  {Line("sanitize_input", "plan_work"), Line("plan_work", "coordinate_schedule"),
   Line("coordinate_schedule", "draft_response"),
   Edge("draft_response", "request_approval", Asked),
   Line("draft_response", "deliver"), Line("request_approval", "deliver"),
   Line("deliver", "log_completion")}

AccountantEdges ==
  {Line("sanitize_input", "plan_close_work"), Line("plan_close_work", "reconcile_bank_feed"),
   Line("reconcile_bank_feed", "review_ap_ar_aging"), Line("review_ap_ar_aging", "explain_variances"),
   Line("explain_variances", "update_close_checklist"),
   Line("update_close_checklist", "draft_statements"),
   Line("draft_statements", "request_finance_approval"), Line("request_finance_approval", "deliver"),
   Line("deliver", "log_completion")}

LegalEdges(gap, council) ==
  {Line("sanitize_input", "extract_information"), Line("extract_information", "analyze_intake"),
   Edge("score_confidence", "generate_brief", AtLeast("score", 85)),
   Edge("score_confidence", "flag_for_review", AtLeast("score", 40)),
   Line("score_confidence", "escalate"), Line("flag_for_review", "generate_brief"),
   Line("deliver", "log_completion"), Line("escalate", "deliver")}
  \cup (IF gap
        THEN {Line("analyze_intake", "conflict_checker"), Line("conflict_checker", "score_confidence")}
        ELSE {Line("analyze_intake", "score_confidence")})
  \cup (IF council
        THEN {Line("generate_brief", "deliberate_output"), Line("deliberate_output", "deliver")}
        ELSE {Line("generate_brief", "deliver")})

(* No two edges without a condition lead from one node to different ones.  *)
OneWay(S) ==
  \A x, y \in S : x.from = y.from /\ x.cond.op = "none" /\ y.cond.op = "none" => x.to = y.to

(* g is a list of the edges S, all between nodes whose adapters are known. *)
Listed(g, S) ==
  /\ g.edges \in Seq(S) /\ OneWay(S) /\ g.entry \in Nodes(g)
  /\ \A x \in S : x.to \in Nodes(g)
  /\ \A n \in Nodes(g) : g.adapter[n] \in Adapters

(* The fallback for an executive assistant is such a list.                 *)
LEMMA ExecutiveDesigned == Listed(ExecutiveGraph, ExecutiveEdges)
<1>. DEFINE S == ExecutiveEdges
<1>1. Chain(<<"sanitize_input", "plan_work", "coordinate_schedule", "draft_response">>) \in Seq(S)
  BY DEF Chain, ExecutiveEdges, Line
<1>2. Chain(<<"request_approval", "deliver", "log_completion">>) \in Seq(S)
  BY DEF Chain, ExecutiveEdges, Line
<1>3. <<Edge("draft_response", "request_approval", Asked),
        Edge("draft_response", "deliver", Always)>> \in Seq(S)
  <2>1. /\ Edge("draft_response", "request_approval", Asked) \in S
        /\ Edge("draft_response", "deliver", Always) \in S
    BY DEF ExecutiveEdges, Line
  <2>. HIDE DEF S
  <2>. QED BY <2>1
<1>4. ExecutiveGraph.edges \in Seq(S)
  <2>. HIDE DEF S
  <2>. QED BY <1>1, <1>2, <1>3 DEF ExecutiveGraph, Graph
<1>5. OneWay(S)
  <2>1. Always.op = "none" /\ Asked.op # "none"
    BY DEF Always, Asked, Equals
  <2>2. \A x \in S : x.cond \in {Always, Asked}
    BY DEF ExecutiveEdges, Line, Edge
  <2>3. \A x \in S : x.cond = Always =>
         /\ x.from = "sanitize_input" => x.to = "plan_work"
         /\ x.from = "plan_work" => x.to = "coordinate_schedule"
         /\ x.from = "coordinate_schedule" => x.to = "draft_response"
         /\ x.from = "draft_response" => x.to = "deliver"
         /\ x.from = "request_approval" => x.to = "deliver"
         /\ x.from = "deliver" => x.to = "log_completion"
    BY <2>1 DEF ExecutiveEdges, Line, Edge
  <2>4. \A x \in S : x.from \in {"sanitize_input", "plan_work", "coordinate_schedule",
                               "draft_response", "request_approval", "deliver"}
    BY DEF ExecutiveEdges, Line, Edge
  <2>. HIDE DEF S
  <2>. QED
    BY <2>1, <2>2, <2>3, <2>4 DEF OneWay
<1>6. /\ ExecutiveGraph.entry \in Nodes(ExecutiveGraph)
      /\ \A n \in Nodes(ExecutiveGraph) : ExecutiveGraph.adapter[n] \in Adapters
  BY DEF ExecutiveGraph, Graph, Nodes, Adapters, Keeping
<1>7. \A x \in S : x.to \in Nodes(ExecutiveGraph)
  BY DEF ExecutiveGraph, Graph, Nodes, ExecutiveEdges, Line, Edge
<1>. QED
  BY <1>4, <1>5, <1>6, <1>7 DEF Listed

(* So is the one for an accountant.                                        *)
LEMMA AccountantDesigned == Listed(AccountantGraph, AccountantEdges)
<1>. DEFINE S == AccountantEdges
<1>1. AccountantGraph.edges \in Seq(S)
  BY DEF AccountantGraph, Graph, Chain, AccountantEdges, Line
<1>2. OneWay(S)
  <2>1. Always.op = "none"
    BY DEF Always
  <2>2. \A x \in S : x.cond \in {Always}
    BY DEF AccountantEdges, Line, Edge
  <2>3. \A x \in S : x.cond = Always =>
         /\ x.from = "sanitize_input" => x.to = "plan_close_work"
         /\ x.from = "plan_close_work" => x.to = "reconcile_bank_feed"
         /\ x.from = "reconcile_bank_feed" => x.to = "review_ap_ar_aging"
         /\ x.from = "review_ap_ar_aging" => x.to = "explain_variances"
         /\ x.from = "explain_variances" => x.to = "update_close_checklist"
         /\ x.from = "update_close_checklist" => x.to = "draft_statements"
         /\ x.from = "draft_statements" => x.to = "request_finance_approval"
         /\ x.from = "request_finance_approval" => x.to = "deliver"
         /\ x.from = "deliver" => x.to = "log_completion"
    BY <2>1 DEF AccountantEdges, Line, Edge
  <2>4. \A x \in S : x.from \in {"sanitize_input", "plan_close_work", "reconcile_bank_feed", "review_ap_ar_aging", "explain_variances",
                               "update_close_checklist", "draft_statements", "request_finance_approval", "deliver"}
    BY DEF AccountantEdges, Line, Edge
  <2>. HIDE DEF S
  <2>. QED
    BY <2>1, <2>2, <2>3, <2>4 DEF OneWay
<1>3. /\ AccountantGraph.entry \in Nodes(AccountantGraph)
      /\ \A n \in Nodes(AccountantGraph) : AccountantGraph.adapter[n] \in Adapters
  BY DEF AccountantGraph, Graph, Nodes, Adapters, Keeping, Asking
<1>4. \A x \in S : x.to \in Nodes(AccountantGraph)
  BY DEF AccountantGraph, Graph, Nodes, AccountantEdges, Line, Edge
<1>. QED
  BY <1>1, <1>2, <1>3, <1>4 DEF Listed

(* And the one for a legal intake, with or without gap and council.        *)
LEMMA LegalDesigned ==
  ASSUME NEW gap \in BOOLEAN, NEW council \in BOOLEAN
  PROVE  Listed(LegalGraph(gap, council), LegalEdges(gap, council))
<1>. DEFINE S == LegalEdges(gap, council)  g == LegalGraph(gap, council)
            absent == (IF gap THEN {} ELSE {"conflict_checker"})
                        \cup (IF council THEN {} ELSE {"deliberate_output"})
            before == IF gap
                      THEN <<"sanitize_input", "extract_information", "analyze_intake",
                             "conflict_checker", "score_confidence">>
                      ELSE <<"sanitize_input", "extract_information", "analyze_intake",
                             "score_confidence">>
            after == IF council
                     THEN <<"generate_brief", "deliberate_output", "deliver", "log_completion">>
                     ELSE <<"generate_brief", "deliver", "log_completion">>
            routes == <<Edge("score_confidence", "generate_brief", AtLeast("score", 85)),
                        Edge("score_confidence", "flag_for_review", AtLeast("score", 40)),
                        Edge("score_confidence", "escalate", Always),
                        Edge("flag_for_review", "generate_brief", Always)>>
<1>1. Chain(before) \in Seq(S)
  <2>1. CASE gap
    BY <2>1 DEF Chain, LegalEdges, Line
  <2>2. CASE ~ gap
    BY <2>2 DEF Chain, LegalEdges, Line
  <2>. QED
    BY <2>1, <2>2
<1>2. Chain(after) \in Seq(S)
  <2>1. CASE council
    BY <2>1 DEF Chain, LegalEdges, Line
  <2>2. CASE ~ council
    BY <2>2 DEF Chain, LegalEdges, Line
  <2>. QED
    BY <2>1, <2>2
<1>3. routes \in Seq(S)
  <2>1. /\ Edge("score_confidence", "generate_brief", AtLeast("score", 85)) \in S
        /\ Edge("score_confidence", "flag_for_review", AtLeast("score", 40)) \in S
        /\ Edge("score_confidence", "escalate", Always) \in S
        /\ Edge("flag_for_review", "generate_brief", Always) \in S
    BY DEF LegalEdges, Line
  <2>. HIDE DEF S
  <2>. QED BY <2>1
<1>4. <<Edge("escalate", "deliver", Always)>> \in Seq(S)
  <2>1. Edge("escalate", "deliver", Always) \in S
    BY DEF LegalEdges, Line
  <2>. HIDE DEF S
  <2>. QED BY <2>1
<1>5. /\ g.edges = Chain(before) \o routes \o Chain(after) \o <<Edge("escalate", "deliver", Always)>>
      /\ g.entry = "sanitize_input"
      /\ g.adapter = [n \in DOMAIN LegalNodes \ absent |-> LegalNodes[n]]
  <2>. HIDE DEF before, after, routes, absent
  <2>. QED BY DEF LegalGraph, Graph, before, after, routes, absent
<1>6. g.edges \in Seq(S)
  <2>. HIDE DEF S, before, after, routes, g
  <2>. QED BY <1>1, <1>2, <1>3, <1>4, <1>5
<1>7. OneWay(S)
  <2>1. Always.op = "none" /\ AtLeast("score", 85).op # "none" /\ AtLeast("score", 40).op # "none"
    BY DEF Always, AtLeast
  <2>2. \A x \in S : x.cond \in {Always, AtLeast("score", 85), AtLeast("score", 40)}
    BY DEF LegalEdges, Line, Edge
  <2>3. \A x \in S : x.cond = Always =>
         /\ x.from = "sanitize_input" => x.to = "extract_information"
         /\ x.from = "extract_information" => x.to = "analyze_intake"
         /\ x.from = "analyze_intake" => x.to = (IF gap THEN "conflict_checker" ELSE "score_confidence")
         /\ x.from = "conflict_checker" => x.to = "score_confidence"
         /\ x.from = "score_confidence" => x.to = "escalate"
         /\ x.from = "flag_for_review" => x.to = "generate_brief"
         /\ x.from = "generate_brief" => x.to = (IF council THEN "deliberate_output" ELSE "deliver")
         /\ x.from = "deliberate_output" => x.to = "deliver"
         /\ x.from = "deliver" => x.to = "log_completion"
         /\ x.from = "escalate" => x.to = "deliver"
    BY <2>1 DEF LegalEdges, Line, Edge
  <2>4. \A x \in S : x.from \in {"sanitize_input", "extract_information", "analyze_intake", "conflict_checker", "score_confidence",
                               "flag_for_review", "generate_brief", "deliberate_output", "deliver", "escalate"}
    BY DEF LegalEdges, Line, Edge
  <2>. HIDE DEF S
  <2>. QED
    BY <2>1, <2>2, <2>3, <2>4 DEF OneWay
<1>8. /\ g.entry \in Nodes(g)
      /\ \A n \in Nodes(g) : g.adapter[n] \in Adapters
  <2>. HIDE DEF g
  <2>. QED BY <1>5 DEF LegalNodes, Nodes, Adapters, Keeping, Asking
<1>9. \A x \in S : x.to \in Nodes(g)
  <2>. HIDE DEF g
  <2>. QED BY <1>5 DEF LegalNodes, Nodes, LegalEdges, Line, Edge
<1>. QED
  BY <1>6, <1>7, <1>8, <1>9 DEF Listed

(* Where a node leads: nowhere, or along one edge.                         *)
Leads(S, n, next) == next = {} \/ \E x \in S : x.from = n /\ next = {x.to}

(* The first matching edge is an edge of the node.                         *)
LEMMA MatchLeads ==
  ASSUME NEW S, graph.edges \in Seq(S), NEW n, NEW st
  PROVE  Leads(S, n, FirstMatch(graph, n, st))
<1>. DEFINE hits == {i \in Conditional(graph, n) : Holds(graph.edges[i].cond, st)}
            open == IF hits # {} THEN hits ELSE Unconditional(graph, n)
<1>1. FirstMatch(graph, n, st) = IF open = {} THEN {} ELSE {graph.edges[First(open)].to}
  BY DEF FirstMatch
<1>2. open \subseteq From(graph, n)
  BY DEF Conditional, Unconditional
<1>3. From(graph, n) \in SUBSET Nat
  BY DEF From
<1>4. open # {} => First(open) \in From(graph, n)
  <2>. HIDE DEF open
  <2>. QED BY <1>2, <1>3, FirstIsAmong
<1>5. \A i \in From(graph, n) : graph.edges[i] \in S /\ graph.edges[i].from = n
  BY DEF From
<1>. HIDE DEF open
<1>. QED
  BY <1>1, <1>4, <1>5 DEF Leads

(* Both engines follow one edge of a designed graph.                       *)
LEMMA BothLead ==
  ASSUME NEW S, Listed(graph, S), NEW p, NEW n
  PROVE  Leads(S, n, NextNode(p, n)) /\ Leads(S, n, Successors(p, n))
<1>1. Leads(S, n, NextNode(p, n))
  BY MatchLeads DEF Listed, NextNode
<1>2. CASE Conditional(graph, n) # {}
  BY <1>1, <1>2, MatchLeads DEF Listed, Successors
<1>3. CASE Conditional(graph, n) = {}
  <2>1. Successors(p, n) = {graph.edges[i].to : i \in Unconditional(graph, n)}
    BY <1>3 DEF Successors
  <2>2. \A i \in Unconditional(graph, n) :
          /\ graph.edges[i] \in S /\ graph.edges[i].from = n /\ graph.edges[i].cond.op = "none"
    BY DEF Unconditional, From, Listed
  <2>3. \A i, j \in Unconditional(graph, n) : graph.edges[i].to = graph.edges[j].to
    BY <2>2 DEF Listed, OneWay
  <2>. HIDE DEF Unconditional
  <2>. QED
    BY <1>1, <2>1, <2>2, <2>3 DEF Leads
<1>. QED
  BY <1>2, <1>3

(* An edge without a condition leaves a node somewhere to go.              *)
LEMMA LeadsOn ==
  ASSUME NEW S, graph.edges \in Seq(S), NEW p, NEW n, Unconditional(graph, n) # {}
  PROVE  NextNode(p, n) # {} /\ Successors(p, n) # {}
<1>1. FirstMatch(graph, n, Result(p, n)) # {}
  BY DEF FirstMatch
<1>. QED
  BY <1>1 DEF NextNode, Successors

-----------------------------------------------------------------------------
(* A run of a designed graph is at one node, in a state of its type.       *)
AtOne(r) ==
  /\ r.st \in States /\ r.verdict \in Verdicts
  /\ r.at = {} \/ \E n \in Nodes(graph) : r.at = {n}

(* What one step along a designed graph does.                              *)
LEMMA StepAlong ==
  ASSUME NEW S, Listed(graph, S), given \in Answers, NEW e \in Engines, AtOne(run[e]), Proceeded(e)
  PROVE  \E n \in Nodes(graph) :
           /\ run[e].at = {n} /\ run'[e].st \in States /\ Leads(S, n, run'[e].at)
           /\ EffectFacts(graph.adapter[n], run[e].st, run[e].verdict, run'[e].st)
           /\ graph.adapter[n] = "deliberation_review" => run[e].verdict # "none"
           /\ Unconditional(graph, n) # {} => run'[e].at # {}
<1>. DEFINE p == Place(e)
<1>1. PICK n \in Nodes(graph) : run[e].at = {n}
  BY DEF AtOne, Proceeded, NodesMayRun
<1>2. p.at = {n} /\ p.st = run[e].st /\ p.verdict = run[e].verdict
  BY <1>1 DEF Place
<1>. HIDE DEF p
<1>3. EffectFacts(graph.adapter[n], run[e].st, run[e].verdict, Result(p, n))
  BY <1>2, EffectOf DEF AtOne, Listed, Result
<1>4. Result(p, n) \in States
  BY <1>3 DEF EffectFacts
<1>5. run'[e].st = Result(p, n)
  <2>1. Merged(p) = [f \in DOMAIN NewState |-> IF f \in Delta(p, n) THEN Result(p, n)[f] ELSE p.st[f]]
    BY <1>2 DEF Merged
  <2>2. \A f \in DOMAIN NewState : f \notin Delta(p, n) => Result(p, n)[f] = p.st[f]
    BY DEF Delta
  <2>3. Merged(p) = [f \in DOMAIN NewState |-> Result(p, n)[f]]
    BY <2>1, <2>2
  <2>4. [f \in DOMAIN NewState |-> Result(p, n)[f]] = Result(p, n)
    BY <1>4 DEF States, NewState
  <2>. QED
    BY <2>3, <2>4 DEF Proceeded, p
<1>6. run'[e].at \in {NextNode(p, n), Successors(p, n)}
  BY <1>1, <1>2 DEF Proceeded, NextOf, p
<1>7. Leads(S, n, run'[e].at)
  BY <1>6, BothLead
<1>8. Unconditional(graph, n) # {} => run'[e].at # {}
  BY <1>6, LeadsOn DEF Listed
<1>9. graph.adapter[n] = "deliberation_review" => run[e].verdict # "none"
  BY <1>1 DEF Proceeded, NodesMayRun, Deliberates
<1>. QED
  BY <1>1, <1>3, <1>4, <1>5, <1>7, <1>8, <1>9

(* What holds of the run of each designed graph.                           *)
AfterScore ==
  {"flag_for_review", "generate_brief", "deliberate_output", "escalate", "deliver", "log_completion"}

(* A legal intake that has been scored is past the components that could   *)
(* clear the flag, and a low score or a rejected brief has set it.         *)
LegalKept(r) ==
  /\ r.st.scored => r.at \subseteq AfterScore
  /\ r.st.council # "none" => r.at \subseteq {"deliver", "log_completion"}
  /\ r.st.scored /\ r.st.score < 85 /\ r.st.council # "approved" => r.st.asks
  /\ r.st.council = "rejected" => r.st.asks

(* Only legal intakes are scored or argued about.                          *)
Unjudged(r) == ~ r.st.scored /\ r.st.council = "none"

(* An accountant has asked once the bank feed has been reconciled.         *)
Early == {"sanitize_input", "plan_close_work", "reconcile_bank_feed"}

AccountantKept(r) ==
  Unjudged(r) /\ (r.st.asks \/ (r.at # {} /\ r.at \subseteq Early))

(* No node of a legal intake undoes that.                                  *)
LEMMA LegalStep ==
  ASSUME NEW gap \in BOOLEAN, NEW council \in BOOLEAN, graph = LegalGraph(gap, council),
         given \in Answers, NEW e \in Engines, AtOne(run[e]), LegalKept(run[e]), Proceeded(e)
  PROVE  LegalKept(run'[e])
<1>. DEFINE S == LegalEdges(gap, council)  s == run[e].st  t == run'[e].st  next == run'[e].at
<1>1. PICK n \in Nodes(graph) :
           /\ run[e].at = {n} /\ run'[e].st \in States /\ Leads(S, n, run'[e].at)
           /\ EffectFacts(graph.adapter[n], run[e].st, run[e].verdict, run'[e].st)
           /\ graph.adapter[n] = "deliberation_review" => run[e].verdict # "none"
  BY LegalDesigned, StepAlong
<1>2. n \in DOMAIN LegalNodes /\ graph.adapter[n] = LegalNodes[n]
  BY DEF LegalGraph, Graph, Nodes
<1>3. \A x \in S : /\ x.from \in AfterScore \cup {"score_confidence"} => x.to \in AfterScore
                   /\ x.from \in {"deliberate_output", "deliver", "log_completion"}
                        => x.to \in {"deliver", "log_completion"}
  <2>1. \A x \in S : x.from \in AfterScore \cup {"score_confidence"} => x.to \in AfterScore
    BY DEF LegalEdges, Line, Edge, AfterScore
  <2>2. \A x \in S : x.from \in {"deliberate_output", "deliver", "log_completion"}
                       => x.to \in {"deliver", "log_completion"}
    BY DEF LegalEdges, Line, Edge
  <2>. QED
    BY <2>1, <2>2
<1>. HIDE DEF S
<1>4. /\ n \in AfterScore \cup {"score_confidence"} => next \subseteq AfterScore
      /\ n \in {"deliberate_output", "deliver", "log_completion"} => next \subseteq {"deliver", "log_completion"}
  BY <1>1, <1>3 DEF Leads
<1>5. s \in States /\ t \in States /\ run[e].verdict \in Verdicts
  BY <1>1 DEF AtOne
<1>6. EffectFacts(LegalNodes[n], s, run[e].verdict, t)
  BY <1>1, <1>2
<1>7. CASE n \in {"sanitize_input", "extract_information", "analyze_intake", "conflict_checker"}
  <2>1. ~ s.scored /\ s.council = "none"
    BY <1>1, <1>7 DEF LegalKept, AfterScore
  <2>2. LegalNodes[n] \notin {"legal_confidence", "deliberation_review"}
    BY <1>7 DEF LegalNodes
  <2>3. ~ t.scored /\ t.council = "none"
    BY <1>6, <2>1, <2>2 DEF EffectFacts
  <2>. QED
    BY <2>3 DEF LegalKept
<1>8. CASE n = "score_confidence"
  <2>1. s.council = "none"
    BY <1>1, <1>8 DEF LegalKept
  <2>2. LegalNodes[n] = "legal_confidence"
    BY <1>8 DEF LegalNodes
  <2>3. t.council = "none" /\ t.asks = (t.score < 85)
    BY <1>6, <2>1, <2>2 DEF EffectFacts
  <2>. QED
    BY <1>4, <1>8, <2>3 DEF LegalKept
<1>9. CASE n = "deliberate_output"
  <2>1. LegalNodes[n] = "deliberation_review"
    BY <1>9 DEF LegalNodes
  <2>2. /\ t.council = run[e].verdict /\ t.asks = (run[e].verdict # "approved")
    BY <1>6, <2>1 DEF EffectFacts
  <2>. QED
    BY <1>4, <1>9, <2>2 DEF LegalKept, AfterScore
<1>10. CASE n \in {"flag_for_review", "escalate"}
  <2>1. s.council = "none"
    BY <1>1, <1>10 DEF LegalKept
  <2>2. LegalNodes[n] \in Asking /\ LegalNodes[n] \notin {"legal_confidence", "deliberation_review"}
    BY <1>10 DEF LegalNodes, Asking
  <2>3. t.council = "none" /\ t.asks
    BY <1>6, <2>1, <2>2 DEF EffectFacts
  <2>. QED
    BY <1>4, <1>10, <2>3 DEF LegalKept, AfterScore
<1>11. CASE n \in {"generate_brief", "deliver", "log_completion"}
  <2>1. LegalNodes[n] \in Keeping /\ LegalNodes[n] \notin {"legal_confidence", "deliberation_review"}
    BY <1>11 DEF LegalNodes, Keeping
  <2>2. t.council = s.council /\ t.scored = s.scored /\ t.score = s.score /\ t.asks = s.asks
    BY <1>6, <2>1 DEF EffectFacts
  <2>3. n = "generate_brief" => s.council = "none"
    BY <1>1 DEF LegalKept
  <2>. QED
    BY <1>4, <1>11, <2>2, <2>3 DEF LegalKept, AfterScore
<1>. QED
  BY <1>2, <1>7, <1>8, <1>9, <1>10, <1>11 DEF LegalNodes

(* No node of an executive assistant scores or argues.                     *)
LEMMA ExecutiveStep ==
  ASSUME graph = ExecutiveGraph,
         given \in Answers, NEW e \in Engines, AtOne(run[e]), Unjudged(run[e]), Proceeded(e)
  PROVE  Unjudged(run'[e])
<1>1. PICK n \in Nodes(graph) :
           EffectFacts(graph.adapter[n], run[e].st, run[e].verdict, run'[e].st)
  BY ExecutiveDesigned, StepAlong
<1>2. graph.adapter[n] \notin {"legal_confidence", "deliberation_review"}
  BY DEF ExecutiveGraph, Graph, Nodes
<1>. QED
  BY <1>1, <1>2 DEF EffectFacts, Unjudged

(* No node of an accountant after the bank feed clears the flag.           *)
LEMMA AccountantStep ==
  ASSUME graph = AccountantGraph,
         given \in Answers, NEW e \in Engines, AtOne(run[e]), AccountantKept(run[e]), Proceeded(e)
  PROVE  AccountantKept(run'[e])
<1>. DEFINE s == run[e].st  t == run'[e].st  next == run'[e].at
<1>1. PICK n \in Nodes(graph) :
           /\ run[e].at = {n} /\ run'[e].st \in States /\ Leads(AccountantEdges, n, run'[e].at)
           /\ EffectFacts(graph.adapter[n], run[e].st, run[e].verdict, run'[e].st)
           /\ Unconditional(graph, n) # {} => run'[e].at # {}
  BY AccountantDesigned, StepAlong
<1>2. graph.adapter[n] \notin {"legal_confidence", "deliberation_review"}
  BY DEF AccountantGraph, Graph, Nodes
<1>3. Unjudged(run'[e])
  BY <1>1, <1>2 DEF EffectFacts, Unjudged, AccountantKept
<1>4. CASE n \in {"sanitize_input", "plan_close_work"}
  <2>1. graph.edges = Chain(<<"sanitize_input", "plan_close_work", "reconcile_bank_feed",
                "review_ap_ar_aging", "explain_variances", "update_close_checklist",
                "draft_statements", "request_finance_approval", "deliver", "log_completion">>)
    BY DEF AccountantGraph, Graph
  <2>2. /\ 1 \in DOMAIN graph.edges /\ graph.edges[1] = Line("sanitize_input", "plan_close_work")
        /\ 2 \in DOMAIN graph.edges /\ graph.edges[2] = Line("plan_close_work", "reconcile_bank_feed")
    BY <2>1 DEF Chain, Line
  <2>3. Unconditional(graph, n) # {}
    <3>1. Always.op = "none"
      BY DEF Always
    <3>2. PICK i \in DOMAIN graph.edges : graph.edges[i].from = n /\ graph.edges[i].cond = Always
      BY <1>4, <2>2 DEF Line, Edge
    <3>. QED
      BY <3>1, <3>2 DEF Unconditional, From
  <2>4. \A x \in AccountantEdges : x.from \in {"sanitize_input", "plan_close_work"} => x.to \in Early
    BY DEF AccountantEdges, Line, Edge, Early
  <2>5. next # {} /\ next \subseteq Early
    <3>. HIDE DEF AccountantEdges
    <3>. QED BY <1>1, <1>4, <2>3, <2>4 DEF Leads
  <2>. QED
    BY <1>3, <2>5 DEF AccountantKept
<1>5. CASE n = "reconcile_bank_feed"
  <2>1. graph.adapter[n] \in Asking
    BY <1>5 DEF AccountantGraph, Graph, Asking
  <2>. QED
    BY <1>1, <1>3, <2>1 DEF AccountantKept, EffectFacts
<1>6. CASE n \notin Early
  <2>1. s.asks
    BY <1>1, <1>6 DEF AccountantKept
  <2>2. graph.adapter[n] \in Asking \cup Keeping
    BY <1>6 DEF AccountantGraph, Graph, Nodes, Asking, Keeping, Early
  <2>. QED
    BY <1>1, <1>3, <2>1, <2>2 DEF AccountantKept, EffectFacts
<1>. QED
  BY <1>4, <1>5, <1>6 DEF Early

(* A listed graph is drawn between its nodes.                              *)
LEMMA DesignedIsDrawn ==
  ASSUME NEW g, NEW S, Listed(g, S)
  PROVE  Drawn(g)
  BY DEF Listed, Drawn

(* There are three kinds of designed graphs.                               *)
LEMMA FallbackCases ==
  ASSUME NEW g \in Fallbacks
  PROVE  \/ g = ExecutiveGraph \/ g = AccountantGraph
         \/ \E gap, council \in BOOLEAN : g = LegalGraph(gap, council)
  BY DEF Fallbacks

(* Every graph that an employee is deployed with is drawn so.              *)
LEMMA InitIsDrawn == EngineInit => Drawn(graph)
<1>. SUFFICES ASSUME EngineInit PROVE Drawn(graph)
  OBVIOUS
<1>1. CASE graph \in Fallbacks
  BY <1>1, FallbackCases, ExecutiveDesigned, AccountantDesigned, LegalDesigned, DesignedIsDrawn
<1>2. CASE graph \in ModelGraphs /\ Valid(graph)
  <2>1. DOMAIN graph.edges \subseteq Nat
    BY <1>2, EngineAssumption
  <2>. QED
    BY <1>2, <2>1 DEF Valid, Drawn
<1>. QED
  BY <1>1, <1>2 DEF EngineInit

(* No engine has moved at first.                                           *)
LEMMA TravelledInit == EngineInit => Travelled
<1>. SUFFICES ASSUME EngineInit PROVE Travelled
  OBVIOUS
<1>1. RunShape /\ \A e \in Engines : run[e].stage = "waiting" /\ run[e].steps = <<>>
  BY DEF EngineInit, RunShape, RunForm, NewRun, RunAs
<1>2. \A e \in Engines : IsList(run[e].steps)
  <2>1. <<>> \in Seq({})
    OBVIOUS
  <2>. QED
    BY <1>1, <2>1 DEF IsList
<1>. QED
  BY <1>1, <1>2, InitIsDrawn DEF Travelled

(* The journeys are kept by every step, and by none.                       *)
LEMMA TravelledStep == Travelled /\ [EngineNext]_engineVars => Travelled'
<1>. SUFFICES ASSUME Travelled, [EngineNext]_engineVars PROVE Travelled'
  OBVIOUS
<1>1. CASE EngineNext
  BY <1>1, JourneyStep DEF EngineNext
<1>2. CASE UNCHANGED engineVars
  <2>1. UNCHANGED <<graph, given>> /\ run' = run
    BY <1>2 DEF engineVars
  <2>2. \A e \in Engines : Journey(e)' = Journey(e)
    BY <2>1 DEF Journey, Place
  <2>3. \A e \in Engines : IsJourney(Journey(e))' <=> IsJourney(Journey(e))
    BY <2>1, <2>2, SameJourney
  <2>4. (Plain(graph)' <=> Plain(graph)) /\ (Drawn(graph)' <=> Drawn(graph)) /\ (RunShape' <=> RunShape)
    BY <2>1 DEF RunShape
  <2>. QED
    BY <2>1, <2>3, <2>4 DEF Travelled
<1>. QED
  BY <1>1, <1>2

(* So the runs are journeys at any time.                                   *)
LEMMA AlwaysTravelled == EngineSpec => []Travelled
<1>. QED
  BY TravelledInit, TravelledStep, PTL DEF EngineSpec

(* What the compiled graph completes the streaming loop completes along    *)
(* the same nodes and states, if their councils decide alike: on every     *)
(* plain graph, for any answers of the components and any number of        *)
(* reruns, also where the graph has cycles (dynamic_builder.py's           *)
(* run_streaming and build_graph).                                         *)
THEOREM EngineAgreement == EngineSpec => []EnginesAgree
<1>. QED
  BY AlwaysTravelled, TravelledAgree, PTL

(* The inductive invariant behind ReviewIsAsked.                           *)
Kept(r) ==
  /\ AtOne(r)
  /\ graph = AccountantGraph => AccountantKept(r)
  /\ graph = ExecutiveGraph => Unjudged(r)
  /\ \A gap, council \in BOOLEAN : graph = LegalGraph(gap, council) => LegalKept(r)

OnTrack ==
  /\ RunShape /\ given \in Answers
  /\ graph \in Fallbacks =>
       \A e \in Engines : run[e].stage \in {"running", "complete"} => Kept(run[e])

(* A superstep or a node of the streaming loop keeps it.                   *)
LEMMA KeptProceeds ==
  ASSUME graph \in Fallbacks, given \in Answers, NEW e \in Engines, Kept(run[e]), Proceeded(e)
  PROVE  Kept(run'[e])
<1>1. PICK S : Listed(graph, S)
  BY FallbackCases, ExecutiveDesigned, AccountantDesigned, LegalDesigned
<1>2. PICK n \in Nodes(graph) : run'[e].st \in States /\ Leads(S, n, run'[e].at)
  BY <1>1, StepAlong DEF Kept
<1>3. AtOne(run'[e])
  <2>1. run'[e].verdict = "none"
    BY DEF Proceeded
  <2>2. run'[e].at = {} \/ \E m \in Nodes(graph) : run'[e].at = {m}
    BY <1>1, <1>2 DEF Leads, Listed
  <2>. QED
    BY <1>2, <2>1, <2>2 DEF AtOne, Verdicts
<1>4. graph = AccountantGraph => AccountantKept(run'[e])
  BY AccountantStep DEF Kept
<1>5. graph = ExecutiveGraph => Unjudged(run'[e])
  BY ExecutiveStep DEF Kept
<1>6. ASSUME NEW gap \in BOOLEAN, NEW council \in BOOLEAN, graph = LegalGraph(gap, council)
      PROVE  LegalKept(run'[e])
  BY <1>6, LegalStep DEF Kept
<1>. QED
  BY <1>3, <1>4, <1>5, <1>6 DEF Kept

(* So does every other step of an engine.                                  *)
LEMMA OnTrackStep ==
  ASSUME OnTrack, NEW e \in Engines, Step(e)
  PROVE  OnTrack'
<1>1. /\ UNCHANGED <<graph, given>> /\ RunShape'
      /\ \A d \in Engines \ {e} : run'[d] = run[d]
      /\ Started(e) \/ Deliberated(e) \/ Proceeded(e) \/ run'[e] = Failed
  BY StepOfRun DEF OnTrack
<1>2. SUFFICES ASSUME graph \in Fallbacks, run'[e].stage \in {"running", "complete"}
               PROVE  Kept(run'[e])
  <2>1. ASSUME NEW d \in Engines, graph' \in Fallbacks, run'[d].stage \in {"running", "complete"}
        PROVE  Kept(run'[d])
    BY <1>1, <1>2, <2>1 DEF OnTrack
  <2>2. ASSUME NEW d \in Engines, Kept(run'[d]) PROVE Kept(run[d])'
    BY <1>1, <2>2 DEF Kept, AtOne, AccountantKept, Unjudged, LegalKept
  <2>. QED
    BY <1>1, <2>1, <2>2 DEF OnTrack
<1>3. CASE Started(e)
  <2>1. /\ run'[e].at = {graph.entry} /\ run'[e].st = NewState /\ run'[e].verdict = "none"
    BY <1>3 DEF Started
  <2>2. NewState \in States /\ ~ NewState.scored /\ NewState.council = "none" /\ ~ NewState.asks
    BY DEF NewState, States, Outputs
  <2>3. graph.entry \in Nodes(graph)
    BY <1>2, FallbackCases, ExecutiveDesigned, AccountantDesigned, LegalDesigned DEF Listed
  <2>4. graph = AccountantGraph => graph.entry \in Early
    BY DEF AccountantGraph, Graph, Early
  <2>. QED
    BY <2>1, <2>2, <2>3, <2>4
       DEF Kept, AtOne, Verdicts, AccountantKept, Unjudged, LegalKept
<1>4. CASE Deliberated(e)
  <2>1. /\ Kept(run[e]) /\ run'[e].at = run[e].at /\ run'[e].st = run[e].st
        /\ run'[e].verdict \in {run[e].verdict, "approved", "rejected"}
    BY <1>2, <1>4 DEF Deliberated, OnTrack
  <2>. QED
    BY <2>1 DEF Kept, AtOne, Verdicts, AccountantKept, Unjudged, LegalKept
<1>5. CASE Proceeded(e)
  <2>1. Kept(run[e])
    BY <1>2, <1>5 DEF Proceeded, NodesMayRun, OnTrack
  <2>. QED
    BY <1>2, <1>5, <2>1, KeptProceeds DEF OnTrack
<1>6. CASE run'[e] = Failed
  BY <1>2, <1>6 DEF Failed, RunAs
<1>. QED
  BY <1>1, <1>3, <1>4, <1>5, <1>6

(* No designed workflow completes a low score, a rejected brief or the     *)
(* books of an accountant without asking a human, in either engine and     *)
(* for any confidence, plan and verdict (dynamic_builder.py's              *)
(* _run_component).                                                        *)
THEOREM EngineReviewIsAsked == EngineSpec => []ReviewIsAsked
<1>1. EngineInit => OnTrack
  <2>. SUFFICES ASSUME EngineInit PROVE OnTrack
    OBVIOUS
  <2>1. RunShape /\ \A e \in Engines : run[e].stage = "waiting"
    BY DEF EngineInit, RunShape, RunForm, NewRun, RunAs
  <2>. QED
    BY <2>1 DEF OnTrack, EngineInit
<1>2. OnTrack /\ [EngineNext]_engineVars => OnTrack'
  <2>. SUFFICES ASSUME OnTrack, [EngineNext]_engineVars PROVE OnTrack'
    OBVIOUS
  <2>1. CASE EngineNext
    BY <2>1, OnTrackStep DEF EngineNext
  <2>2. CASE UNCHANGED engineVars
    <3>1. UNCHANGED <<graph, given>> /\ run' = run
      BY <2>2 DEF engineVars
    <3>. QED
      BY <3>1 DEF OnTrack, RunShape, Kept, AtOne, AccountantKept, Unjudged, LegalKept
  <2>. QED
    BY <2>1, <2>2
<1>3. OnTrack /\ Travelled => ReviewIsAsked
  <2>. SUFFICES ASSUME OnTrack, Travelled, NEW e \in Engines, run[e].stage = "complete", graph \in Fallbacks
                PROVE  /\ run[e].st.scored /\ run[e].st.score < 85 /\ run[e].st.council # "approved"
                            => run[e].st.asks
                       /\ run[e].st.council = "rejected" => run[e].st.asks
                       /\ graph = AccountantGraph => run[e].st.asks
    BY Zenon DEF ReviewIsAsked
  <2>1. Kept(run[e])
    BY DEF OnTrack
  <2>2. run[e].at = {}
    BY DEF Travelled
  <2>3. CASE graph = ExecutiveGraph
    BY <2>1, <2>2, <2>3 DEF Kept, AccountantKept, Unjudged
  <2>4. CASE graph = AccountantGraph
    BY <2>1, <2>2, <2>4 DEF Kept, AccountantKept, Unjudged
  <2>5. ASSUME NEW gap \in BOOLEAN, NEW council \in BOOLEAN, graph = LegalGraph(gap, council)
        PROVE  LegalKept(run[e])
    BY <2>1, <2>5 DEF Kept
  <2>6. graph = AccountantGraph => run[e].st.asks
    BY <2>1, <2>2 DEF Kept, AccountantKept
  <2>. QED
    BY <2>3, <2>4, <2>5, <2>6, FallbackCases DEF LegalKept
<1>. QED
  BY <1>1, <1>2, <1>3, AlwaysTravelled, PTL DEF EngineSpec
=============================================================================
