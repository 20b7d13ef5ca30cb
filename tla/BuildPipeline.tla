---------------------------- MODULE BuildPipeline ----------------------------
(***************************************************************************)
(* One build in the factory: the API calls that commission, retry, approve *)
(* and reject it, the Celery queue between them and the pipeline workers,  *)
(* and the worker's stages from the architect to the deployer.             *)
(*                                                                         *)
(* An API call reads the build when it starts and commits when its handler *)
(* has returned, so what it enqueues can be consumed before it commits.    *)
(* A save writes the caller's whole copy of the row: save_build fetches    *)
(* the row again, because the session refers to it weakly and the helpers  *)
(* drop it, and sets every column, so what others wrote since the copy was *)
(* read is overwritten.  Celery acknowledges a message on delivery: a      *)
(* worker that dies takes its task with it.                                *)
(***************************************************************************)
EXTENDS Naturals, FiniteSets

CONSTANTS
  Workers,      \* pipeline-worker processes
  Operators,    \* calls of /builds/{id}/retry, /approve and /reject
  Commission,   \* the call of POST /commissions
  MaxIter,      \* settings.max_generation_iterations
  MaxLosses,    \* bound on worker deaths and failures that cannot be saved
  Nobody        \* no call

Calls == Operators \cup {Commission}

ASSUME PipelineAssumption ==
  /\ Commission \notin Operators
  /\ Nobody \notin Calls
  /\ MaxIter \in Nat \ {0}
  /\ MaxLosses \in Nat
  /\ IsFiniteSet(Workers) /\ IsFiniteSet(Operators)

VARIABLES
  review,     \* settings.human_review_required
  format,     \* deployment format of the requirements
  status,     \* builds.status, "absent" before the row exists
  holder,     \* the call with an uncommitted write on the row, or Nobody
  queue,      \* Celery messages waiting, by task
  call,       \* where each API call is
  losses,     \* worker deaths and unsaved failures so far
  job,        \* the task each worker runs: its locals
  made,       \* deployments created so far
  rowId,      \* the deployments row of this build: its id, 0 for none
  rowStatus,  \* and its status
  running,    \* the deployments whose container runs
  abandoned   \* those whose worker died, or whose container Docker did not stop

fixed == <<review, format>>
deployments == <<rowId, rowStatus, running, abandoned>>
vars == <<fixed, status, holder, queue, call, losses, job, made, deployments>>

Building == {"queued", "assembling", "generating", "packaging", "passed"}
Resting == {"pending_review", "pending_client_action", "failed", "deployed"}
Statuses == Building \cup Resting \cup {"absent", "deploying"}
Attempts == {"underway", "active", "degraded", "pending_client_action", "rolled_back"}
DeployStages == {"provision", "connect", "activate", "rollback", "finish"}
Stages == {"idle", "begin", "design", "assemble", "generate", "package", "evaluate",
           "correct", "judge", "fail", "resume", "deploy"} \cup DeployStages

(* The locals of a task: its stage, which task it is, whether its first    *)
(* SELECT found the row, build.iteration, whether it is in correction_loop, *)
(* whether the generated code passed its own tests, metadata.image_tag     *)
(* (and whether it is of this code), and the deployment it makes: id,      *)
(* status, and whether the session refuses work after a failed flush.      *)
Jobs == [ stage : Stages, task : {"run", "resume"}, found : BOOLEAN, iter : 1..MaxIter,
          correcting : BOOLEAN, tested : BOOLEAN, image : {"none", "current", "older"},
          id : Nat, attempt : Attempts, poisoned : BOOLEAN ]

(* A task starts with no metadata: neither the message nor the row carries *)
(* any, because save_build stores it under a name that is not the column.  *)
NewJob(stage, task, found) ==
  [ stage |-> stage, task |-> task, found |-> found, iter |-> 1, correcting |-> FALSE,
    tested |-> FALSE, image |-> "none", id |-> 0, attempt |-> "underway", poisoned |-> FALSE ]

Idle == NewJob("idle", "run", FALSE)

-----------------------------------------------------------------------------
(* The builds row *)

(* An uncommitted write blocks every other writer of the row.              *)
Free == holder = Nobody

(* save_build and commit, whatever the row says by now.                    *)
Write(new) ==
  /\ Free
  /\ status' = new

(* The task goes on with these locals.                                     *)
Update(w, locals) == job' = [job EXCEPT ![w] = locals]

Goto(w, stage) == Update(w, [job[w] EXCEPT !.stage = stage])

(* Save, and go on.                                                        *)
Save(w, new, stage) ==
  /\ Write(new)
  /\ Goto(w, stage)

Return(w) == Update(w, Idle)

(* An exception ends the resume task as it is; start_pipeline catches it.  *)
Raise(w) == IF job[w].task = "run" THEN Goto(w, "fail") ELSE Return(w)

Send(kind) == queue' = [queue EXCEPT ![kind] = @ + 1]

-----------------------------------------------------------------------------
Init ==
  /\ review \in BOOLEAN /\ format \in {"server", "local"}
  /\ status = "absent" /\ holder = Nobody
  /\ queue = [kind \in {"run", "resume"} |-> 0]
  /\ call = [c \in Calls |-> "idle"]
  /\ losses = 0
  /\ job = [w \in Workers |-> Idle]
  /\ made = 0 /\ rowId = 0 /\ rowStatus = "underway" /\ running = {}
  /\ abandoned = {}

-----------------------------------------------------------------------------
(* The API.  Handler bodies run to their end, then get_db_session commits. *)

(* create_commission flushes the new rows and enqueues the pipeline.       *)
CreateCommission ==
  /\ call[Commission] = "idle"
  /\ call' = [call EXCEPT ![Commission] = "flushed"]
  /\ holder' = Commission
  /\ Send("run")
  /\ UNCHANGED <<fixed, status, losses, job, made, deployments>>

(* The status each operation insists on.                                   *)
MayAct(kind) == status = (IF kind = "retry" THEN "failed" ELSE "pending_review")

(* The handler loads the build and checks its status.                      *)
ReadBuild(c, kind) ==
  /\ call[c] = "idle" /\ MayAct(kind)
  /\ call' = [call EXCEPT ![c] = kind]
  /\ UNCHANGED <<fixed, status, holder, queue, losses, job, made, deployments>>

(* retry_build flushes status queued, then enqueues.                       *)
RetryEnqueue(c) ==
  /\ call[c] = "retry" /\ Free
  /\ call' = [call EXCEPT ![c] = "flushed"]
  /\ holder' = c
  /\ Send("run")
  /\ UNCHANGED <<fixed, status, losses, job, made, deployments>>

CommitQueued(c) ==
  /\ call[c] = "flushed"
  /\ call' = [call EXCEPT ![c] = "done"]
  /\ status' = "queued"
  /\ holder' = Nobody
  /\ UNCHANGED <<fixed, queue, losses, job, made, deployments>>

(* approve_build enqueues the deployment before it writes anything.        *)
ApproveEnqueue(c) ==
  /\ call[c] = "approve"
  /\ call' = [call EXCEPT ![c] = "approved"]
  /\ Send("resume")
  /\ UNCHANGED <<fixed, status, holder, losses, job, made, deployments>>

ApproveCommit(c) ==
  /\ call[c] = "approved" /\ Free
  /\ call' = [call EXCEPT ![c] = "granted"]
  /\ status' = "deploying"
  /\ UNCHANGED <<fixed, holder, queue, losses, job, made, deployments>>

RejectCommit(c) ==
  /\ call[c] = "reject" /\ Free
  /\ call' = [call EXCEPT ![c] = "rejected"]
  /\ status' = "failed"
  /\ UNCHANGED <<fixed, holder, queue, losses, job, made, deployments>>

(* The request fails before its commit: its write is rolled back, but the  *)
(* message it sent is not.                                                 *)
RequestFails(c) ==
  /\ call[c] \in {"retry", "approve", "reject", "flushed", "approved"}
  /\ call' = [call EXCEPT ![c] = IF @ = "approved" THEN "granted" ELSE "done"]
  /\ holder' = IF holder = c THEN Nobody ELSE holder
  /\ UNCHANGED <<fixed, status, queue, losses, job, made, deployments>>

-----------------------------------------------------------------------------
(* The pipeline task *)

(* A worker takes a message; its session loads the row.                    *)
Take(w, task, stage) ==
  /\ job[w].stage = "idle" /\ queue[task] > 0
  /\ queue' = [queue EXCEPT ![task] = @ - 1]
  /\ Update(w, NewJob(stage, task, status # "absent"))
  /\ UNCHANGED <<fixed, status, holder, call, losses, made, deployments>>

TakeRun(w) == Take(w, "run", "begin")
TakeResume(w) == Take(w, "resume", "resume")

(* A stage of the task: everything but the row and the task is untouched.  *)
At(w, stage) ==
  /\ job[w].stage = stage
  /\ UNCHANGED <<fixed, holder, queue, call, losses>>

(* The first save.  A row that was not there for the SELECT is inserted;   *)
(* if the API has committed it meanwhile the INSERT is refused.            *)
Begin(w) ==
  /\ At(w, "begin") /\ Free
  /\ IF ~job[w].found /\ status # "absent"
     THEN Raise(w) /\ UNCHANGED status
     ELSE Save(w, "queued", "design")
  /\ UNCHANGED <<made, deployments>>

(* The architect designs the blueprint, saved with the build as it was;    *)
(* then the assembler fills the build directory.                           *)
Design(w) ==
  /\ At(w, "design") /\ Save(w, "queued", "assemble")
  /\ UNCHANGED <<made, deployments>>

Assemble(w) ==
  /\ At(w, "assemble") /\ Save(w, "assembling", "generate")
  /\ UNCHANGED <<made, deployments>>

(* A stage's status is saved after it, but inside correction_loop nothing is. *)
Record(w, new) == IF job[w].correcting THEN UNCHANGED status ELSE Write(new)

(* generate.  Only start_pipeline looks at its verdict.                    *)
Generate(w) ==
  /\ At(w, "generate")
  /\ \E ok \in BOOLEAN :
       /\ Record(w, IF ok THEN "generating" ELSE "failed")
       /\ IF ok \/ job[w].correcting
          THEN Update(w, [job[w] EXCEPT !.stage = "package", !.tested = ok,
                                  !.image = IF @ = "none" THEN "none" ELSE "older"])
          ELSE Return(w)
  /\ UNCHANGED <<made, deployments>>

(* package.  Nobody looks at its verdict: a failed docker build leaves the *)
(* tag of an earlier iteration in place.                                   *)
Package(w) ==
  /\ At(w, "package")
  /\ \E ok \in BOOLEAN :
       /\ Record(w, IF ok THEN "packaging" ELSE "failed")
       /\ Update(w, [job[w] EXCEPT !.stage = "evaluate",
                             !.image = IF ok THEN "current" ELSE @])
  /\ UNCHANGED <<made, deployments>>

(* evaluate fails at once when there is no image tag.                      *)
Evaluate(w) ==
  /\ At(w, "evaluate")
  /\ \/ job[w].image # "none" /\ Save(w, "passed", "judge")
     \/ Record(w, "failed") /\ Goto(w, "correct")
  /\ UNCHANGED <<made, deployments>>

(* correction_loop: once more, or give up and save the failure.            *)
Correct(w) ==
  /\ At(w, "correct")
  /\ IF job[w].iter < MaxIter
     THEN /\ Update(w, [job[w] EXCEPT !.stage = "generate", !.iter = @ + 1,
                                !.correcting = TRUE])
          /\ UNCHANGED status
     ELSE Write("failed") /\ Return(w)
  /\ UNCHANGED <<made, deployments>>

(* Mutation of Judge: the review setting is not looked at.                 *)
Judge_Ungated(w) ==
  /\ At(w, "judge")
  /\ Goto(w, "deploy")
  /\ UNCHANGED <<status, made, deployments>>

(* The human review gate.                                                  *)
Judge(w) ==
  /\ At(w, "judge")
  /\ IF review
     THEN Write("pending_review") /\ Return(w)
     ELSE Goto(w, "deploy") /\ UNCHANGED status
  /\ UNCHANGED <<made, deployments>>

(* A stage raises.                                                         *)
StageRaises(w) ==
  /\ \E stage \in {"begin", "design", "assemble", "generate", "package", "evaluate", "resume"} :
       At(w, stage)
  /\ Raise(w)
  /\ UNCHANGED <<status, made, deployments>>

(* Mutation of FailureStatus: the failure is not recorded.                 *)
FailureStatus_Kept(w) == status

(* The handler of start_pipeline saves the failure in a session of its     *)
(* own, whatever the row says by then.                                     *)
FailureStatus(w) == "failed"

SaveFailure(w) ==
  /\ At(w, "fail") /\ Free
  /\ status' = FailureStatus(w)
  /\ Return(w)
  /\ UNCHANGED <<made, deployments>>

(* The worker holds a deployment.                                          *)
Deploying(w) == job[w].stage \in DeployStages

(* A worker dies, or cannot save a failure.                                *)
Lose(w) ==
  /\ job[w].stage # "idle" /\ losses < MaxLosses
  /\ losses' = losses + 1
  /\ abandoned' = IF Deploying(w) THEN abandoned \cup {job[w].id} ELSE abandoned
  /\ Return(w)
  /\ UNCHANGED <<fixed, status, holder, queue, call, made, rowId, rowStatus, running>>

-----------------------------------------------------------------------------
(* Deployment *)

(* resume_deployment does not look at the status it finds.                 *)
Resume(w) ==
  /\ At(w, "resume") /\ Save(w, "passed", "deploy")
  /\ UNCHANGED <<made, deployments>>

Deploy(w) ==
  /\ At(w, "deploy") /\ Write("deploying")
  /\ made' = made + 1
  /\ Update(w, [job[w] EXCEPT !.stage = "provision", !.id = made + 1])
  /\ UNCHANGED deployments

(* provision: a server export needs no container; a local one starts the   *)
(* tagged image, and cannot without a tag.                                 *)
Provision(w) ==
  /\ At(w, "provision")
  /\ \/ /\ format = "server"
        /\ Update(w, [job[w] EXCEPT !.stage = "connect", !.attempt = "pending_client_action"])
        /\ UNCHANGED running
     \/ /\ format = "local" /\ job[w].image # "none"
        /\ running' = running \cup {job[w].id}
        /\ Goto(w, "connect")
     \/ Goto(w, "rollback") /\ UNCHANGED running
  /\ UNCHANGED <<status, made, rowId, rowStatus, abandoned>>

(* Mutation of MayInsert: deployments.build_id is not unique.              *)
MayInsert_Twice(w) == TRUE

(* deployments.build_id is unique: save_deployment inserts the first row   *)
(* or updates its own.                                                     *)
MayInsert(w) == rowId \in {0, job[w].id}

SaveDeployment(w) == rowId' = job[w].id /\ rowStatus' = job[w].attempt

(* connect initiates the integrations, then the deployment is saved for    *)
(* the first time.  A refused INSERT leaves the session unusable.          *)
Connect(w) ==
  /\ At(w, "connect")
  /\ \/ /\ MayInsert(w)
        /\ SaveDeployment(w)
        /\ Goto(w, IF job[w].attempt = "pending_client_action" THEN "finish" ELSE "activate")
     \/ /\ Update(w, [job[w] EXCEPT !.stage = "rollback", !.poisoned = ~MayInsert(w)])
        /\ UNCHANGED <<rowId, rowStatus>>
  /\ UNCHANGED <<status, made, running, abandoned>>

Activate(w) ==
  /\ At(w, "activate")
  /\ \/ \E result \in {"active", "degraded", "pending_client_action"} :
          Update(w, [job[w] EXCEPT !.stage = "finish", !.attempt = result])
     \/ Goto(w, "rollback")
  /\ UNCHANGED <<status, made, deployments>>

(* Mutation of StopContainer: rollback leaves the container running.       *)
StopContainer_Never(w) == UNCHANGED <<running, abandoned>>

(* stop_container does not look at docker's exit codes: nobody learns that *)
(* the container is still there.                                           *)
StopContainer(w) ==
  \/ running' = running \ {job[w].id} /\ UNCHANGED abandoned
  \/ /\ job[w].id \in running
     /\ abandoned' = abandoned \cup {job[w].id}
     /\ UNCHANGED running

(* rollback: docker is asked to stop the container before anything can     *)
(* raise; the connections cannot be deleted without a Composio client, and *)
(* the monitoring event cannot be saved in a poisoned session.             *)
Rollback(w) ==
  /\ At(w, "rollback")
  /\ StopContainer(w)
  /\ \/ /\ ~job[w].poisoned
        /\ Update(w, [job[w] EXCEPT !.stage = "finish", !.attempt = "rolled_back"])
     \/ Raise(w)
  /\ UNCHANGED <<status, made, rowId, rowStatus>>

(* Mutation of BuildStatusOf: the deployment's status is copied.           *)
BuildStatusOf_Copied(result) == result

(* The build status a finished deployment stands for.                      *)
BuildStatusOf(result) ==
  CASE result = "active" -> "deployed"
    [] result = "pending_client_action" -> "pending_client_action"
    [] OTHER -> "failed"

(* The deployment and the build are saved in one transaction.              *)
Finish(w) ==
  /\ At(w, "finish") /\ Free
  /\ IF MayInsert(w)
     THEN /\ SaveDeployment(w)
          /\ Write(BuildStatusOf(job[w].attempt))
          /\ Return(w)
     ELSE Raise(w) /\ UNCHANGED <<status, rowId, rowStatus>>
  /\ UNCHANGED <<made, running, abandoned>>

-----------------------------------------------------------------------------
CallStep(c) ==
  \/ CommitQueued(c)
  \/ RetryEnqueue(c)
  \/ ApproveEnqueue(c)
  \/ ApproveCommit(c)
  \/ RejectCommit(c)
  \/ RequestFails(c)

WorkerStep(w) ==
  \/ TakeRun(w) \/ TakeResume(w)
  \/ Begin(w) \/ Design(w) \/ Assemble(w) \/ Generate(w) \/ Package(w)
  \/ Evaluate(w) \/ Correct(w) \/ Judge(w) \/ StageRaises(w) \/ SaveFailure(w)
  \/ Resume(w) \/ Deploy(w) \/ Provision(w) \/ Connect(w) \/ Activate(w)
  \/ Rollback(w) \/ Finish(w)

Next ==
  \/ CreateCommission
  \/ \E c \in Operators, kind \in {"retry", "approve", "reject"} : ReadBuild(c, kind)
  \/ \E c \in Calls : CallStep(c)
  \/ \E w \in Workers : WorkerStep(w) \/ Lose(w)

Spec == Init /\ [][Next]_vars

(* Handlers and worker tasks run to their end: every stage has a timeout   *)
(* or an answer, and the queue is served.                                  *)
Fairness ==
  /\ \A c \in Calls : WF_vars(CallStep(c))
  /\ \A w \in Workers : WF_vars(WorkerStep(w))

FairSpec == Spec /\ Fairness

-----------------------------------------------------------------------------
(* Properties *)

TypeOK ==
  /\ review \in BOOLEAN /\ format \in {"server", "local"}
  /\ status \in Statuses
  /\ holder \in Calls \cup {Nobody}
  /\ queue \in [{"run", "resume"} -> Nat]
  /\ call \in [Calls -> {"idle", "retry", "approve", "reject", "flushed", "approved", "granted",
                         "rejected", "done"}]
  /\ losses \in 0..MaxLosses
  /\ job \in [Workers -> Jobs]
  /\ made \in Nat /\ rowId \in Nat /\ rowStatus \in Attempts
  /\ running \subseteq Nat /\ abandoned \subseteq Nat

(* A build that says deployed has an active deployment row, however many   *)
(* pipelines and deployments of it ran at once.                            *)
DeployedIsActive == status = "deployed" => rowStatus = "active"

(* A rolled-back row has lost the container's id with its infrastructure.  *)
Named(d) == d = rowId /\ rowStatus # "rolled_back"

(* No container is forgotten but for two reasons, each of which excuses    *)
(* that container only: the worker of its deployment died, or docker did   *)
(* not stop it when the deployment was rolled back (rollback.py:18), whose *)
(* exit code nobody reads.  Any other container that runs is named by the  *)
(* deployments row or belongs to a deployment still under way.             *)
ContainersAccounted ==
  \A d \in running \ abandoned : \/ Named(d)
                                 \/ \E w \in Workers : job[w].id = d /\ Deploying(w)

(* Why both hold, as an inductive invariant: a deployment under way has an *)
(* id of its own; the row names it only from its first save, and stays     *)
(* unsettled until its last.                                               *)
DeploymentInv(w) ==
  /\ job[w].attempt \in {"underway", "pending_client_action"} \/ job[w].stage \in {"finish", "fail"}
  /\ Deploying(w) =>
       /\ job[w].id \in 1..made
       /\ rowId = job[w].id => rowStatus \in {"underway", "pending_client_action"}
       /\ job[w].stage \in {"provision", "connect"} => rowId # job[w].id
       /\ job[w].stage = "activate" => rowId = job[w].id
       /\ job[w].stage = "finish" =>
            IF job[w].attempt = "rolled_back" THEN job[w].id \notin running \ abandoned
            ELSE rowId = job[w].id

DistinctDeployments ==
  \A v, w \in Workers : v # w /\ Deploying(v) /\ Deploying(w) => job[v].id # job[w].id

DeploymentsInv ==
  /\ rowId \in 0..made /\ running \subseteq 1..made
  /\ status = "deployed" => rowId # 0
  /\ \A w \in Workers : DeploymentInv(w)
  /\ DistinctDeployments

(* With human review on nothing is deployed that no operator approved:     *)
(* there are never more deployments than approvals sent.                   *)
ApprovedOnly ==
  review => made <= Cardinality({c \in Operators : call[c] \in {"approved", "granted"}})

(* A build being built comes to rest or reaches deployment, unless a       *)
(* worker died or could not save a failure.                                *)
BuildSettles == (status \in Building) ~> (status \notin Building \/ losses > 0)
=============================================================================
