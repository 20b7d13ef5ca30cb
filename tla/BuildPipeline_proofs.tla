------------------------ MODULE BuildPipeline_proofs ------------------------
(***************************************************************************)
(* For any number of workers and API calls: type correctness, a deployed   *)
(* build has an active deployment row, and no container is forgotten.      *)
(***************************************************************************)
EXTENDS BuildPipeline, FiniteSetTheorems, TLAPS

(* The updates of a task's locals keep their types.                        *)
LEMMA LocalsTypes ==
  ASSUME NEW j \in Jobs, NEW s \in Stages
  PROVE  /\ [j EXCEPT !.stage = s] \in Jobs
         /\ \A result \in Attempts : [j EXCEPT !.stage = s, !.attempt = result] \in Jobs
         /\ \A d \in Nat : [j EXCEPT !.stage = s, !.id = d] \in Jobs
         /\ \A refused \in BOOLEAN : [j EXCEPT !.stage = s, !.poisoned = refused] \in Jobs
  BY DEF Jobs

(* What Goto, Return, Raise and Save do to the tasks.                      *)
LEMMA JobTypes ==
  ASSUME job \in [Workers -> Jobs], NEW w \in Workers
  PROVE  /\ job[w] \in Jobs /\ job[w].attempt \in Attempts
         /\ job[w].id \in Nat
         /\ \A j \in Jobs : Update(w, j) => job' \in [Workers -> Jobs]
         /\ Return(w) => job' \in [Workers -> Jobs]
         /\ Raise(w) => job' \in [Workers -> Jobs]
         /\ \A s \in Stages : Goto(w, s) => job' \in [Workers -> Jobs]
         /\ \A s \in Stages, new \in Statuses :
              /\ Save(w, new, s) => job' \in [Workers -> Jobs]
              /\ Write(new) => status' \in Statuses
<1>1. Idle \in Jobs
  BY PipelineAssumption DEF Jobs, Idle, NewJob, Stages, Statuses, Building, Resting, Attempts,
                            DeployStages
<1>2. job[w] \in Jobs
  OBVIOUS
<1>3. /\ job[w].attempt \in Attempts /\ job[w].id \in Nat
  BY <1>2 DEF Jobs
<1>4. \A j \in Jobs : Update(w, j) => job' \in [Workers -> Jobs]
  BY DEF Update
<1>6. \A s \in Stages : Goto(w, s) => job' \in [Workers -> Jobs]
  BY <1>2, <1>4, LocalsTypes DEF Goto
<1>7. Return(w) => job' \in [Workers -> Jobs]
  BY <1>1, <1>4 DEF Return
<1>8. Raise(w) => job' \in [Workers -> Jobs]
  <2>1. "fail" \in Stages
    BY DEF Stages
  <2> QED
    BY <2>1, <1>6, <1>7 DEF Raise
<1>9. \A s \in Stages, new \in Statuses : Save(w, new, s) => job' \in [Workers -> Jobs]
  BY <1>6 DEF Save
<1>10. \A new \in Statuses : Write(new) => status' \in Statuses
  BY DEF Write
<1> QED
  BY <1>2, <1>3, <1>4, <1>6, <1>7, <1>8, <1>9, <1>10

(* Every step keeps the types.                                             *)
LEMMA TypeStep ==
  ASSUME TypeOK, [Next]_vars
  PROVE  TypeOK'
<1>. USE PipelineAssumption
<1>. USE DEF TypeOK, fixed, deployments, Calls, Free, Send, At
<1>1. CASE UNCHANGED vars
  BY <1>1 DEF vars
<1>2. CASE CreateCommission
  BY <1>2 DEF CreateCommission
<1>3. ASSUME NEW c \in Operators, NEW kind \in {"retry", "approve", "reject"}, ReadBuild(c, kind)
      PROVE  TypeOK'
  BY <1>3 DEF ReadBuild
<1>4. ASSUME NEW c \in Calls, CallStep(c)
      PROVE  TypeOK'
  <2>0. {"queued", "deploying", "failed"} \subseteq Statuses
    BY DEF Statuses, Building, Resting
  <2>1. CASE CommitQueued(c)
    BY <2>0, <2>1 DEF CommitQueued
  <2>2. CASE RetryEnqueue(c)
    BY <2>2 DEF RetryEnqueue
  <2>3. CASE ApproveEnqueue(c)
    BY <2>3 DEF ApproveEnqueue
  <2>4. CASE ApproveCommit(c)
    BY <2>0, <2>4 DEF ApproveCommit
  <2>5. CASE RejectCommit(c)
    BY <2>0, <2>5 DEF RejectCommit
  <2>6. CASE RequestFails(c)
    BY <2>6 DEF RequestFails
  <2> QED
    BY <1>4, <2>1, <2>2, <2>3, <2>4, <2>5, <2>6 DEF CallStep
<1>5. ASSUME NEW w \in Workers, WorkerStep(w)
      PROVE  TypeOK'
  <2>0. /\ {"design", "assemble", "generate", "package", "evaluate", "correct", "judge", "deploy", "connect",
            "rollback", "finish", "activate", "provision", "begin", "resume"} \subseteq Stages
        /\ {"queued", "assembling", "generating", "packaging", "passed", "failed", "deploying",
            "pending_review", "pending_client_action", "deployed"} \subseteq Statuses
        /\ {"active", "degraded", "pending_client_action", "rolled_back"} \subseteq Attempts
    BY DEF Stages, DeployStages, Statuses, Building, Resting, Attempts
  <2>1. CASE TakeRun(w) \/ TakeResume(w)
    <3>1. \A s \in Stages, t \in {"run", "resume"} : NewJob(s, t, status # "absent") \in Jobs
      BY DEF Jobs, NewJob, Attempts
    <3>2. job' \in [Workers -> Jobs]
      BY <2>0, <2>1, <3>1, JobTypes DEF TakeRun, TakeResume, Take
    <3>3. queue' \in [{"run", "resume"} -> Nat]
      BY <2>1 DEF TakeRun, TakeResume, Take
    <3> QED
      BY <2>1, <3>2, <3>3 DEF TakeRun, TakeResume, Take
  <2>2. CASE Begin(w)
    BY <2>0, <2>2, JobTypes DEF Begin, Save
  <2>3. CASE Design(w) \/ Assemble(w)
    BY <2>0, <2>3, JobTypes DEF Design, Assemble, Save
  <2>4. CASE Generate(w)
    <3>1. PICK ok \in BOOLEAN : Generate(w)!2!(ok)
      BY <2>4 DEF Generate
    <3> DEFINE code == IF job[w].image = "none" THEN "none" ELSE "older"
               next == [job[w] EXCEPT !.stage = "package", !.tested = ok, !.image = code]
    <3>2. job[w] \in Jobs /\ "package" \in Stages /\ code \in {"none", "current", "older"}
      BY <2>0, JobTypes
    <3>3. Update(w, next) \/ Return(w)
      BY <3>1
    <3>4. next \in Jobs
      <4> HIDE DEF code
      <4> QED
        BY <3>2 DEF Jobs
    <3>5. job' \in [Workers -> Jobs]
      <4> HIDE DEF next
      <4> QED
        BY <3>3, <3>4, JobTypes
    <3>6. status' \in Statuses
      BY <2>0, <3>1 DEF Record, Write
    <3> QED
      BY <2>4, <3>5, <3>6 DEF Generate
  <2>5. CASE Package(w)
    <3>1. PICK ok \in BOOLEAN : Package(w)!2!(ok)
      BY <2>5 DEF Package
    <3> DEFINE code == IF ok THEN "current" ELSE job[w].image
               next == [job[w] EXCEPT !.stage = "evaluate", !.image = code]
    <3>2. job[w] \in Jobs /\ "evaluate" \in Stages /\ code \in {"none", "current", "older"}
      BY <2>0, JobTypes DEF Jobs
    <3>3. Update(w, next)
      BY <3>1
    <3>4. next \in Jobs
      <4> HIDE DEF code
      <4> QED
        BY <3>2 DEF Jobs
    <3>5. job' \in [Workers -> Jobs]
      <4> HIDE DEF next
      <4> QED
        BY <3>3, <3>4, JobTypes
    <3>6. status' \in Statuses
      BY <2>0, <3>1 DEF Record, Write
    <3> QED
      BY <2>5, <3>5, <3>6 DEF Package
  <2>6. CASE Evaluate(w)
    BY <2>0, <2>6, JobTypes DEF Evaluate, Record, Write, Save
  <2>7. CASE Correct(w)
    <3>1. job[w].iter < MaxIter => job[w].iter + 1 \in 1..MaxIter
      BY JobTypes DEF Jobs
    <3>2. job[w].iter < MaxIter =>
            [job[w] EXCEPT !.stage = "generate", !.iter = @ + 1, !.correcting = TRUE] \in Jobs
      BY <2>0, <3>1, JobTypes DEF Jobs
    <3>3. job' \in [Workers -> Jobs]
      BY <2>7, <3>2, JobTypes DEF Correct
    <3> QED
      BY <2>0, <2>7, <3>3, JobTypes DEF Correct
  <2>8. CASE Judge(w)
    BY <2>0, <2>8, JobTypes DEF Judge
  <2>9. CASE StageRaises(w)
    BY <2>0, <2>9, JobTypes DEF StageRaises
  <2>10. CASE SaveFailure(w)
    BY <2>0, <2>10, JobTypes DEF SaveFailure, FailureStatus
  <2>11. CASE Resume(w)
    BY <2>0, <2>11, JobTypes DEF Resume, Save
  <2>12. CASE Deploy(w)
    <3>1. [job[w] EXCEPT !.stage = "provision", !.id = made + 1] \in Jobs
      <4>1. made + 1 \in Nat
        OBVIOUS
      <4> QED
        BY <2>0, <4>1, JobTypes, LocalsTypes
    <3>2. job' \in [Workers -> Jobs]
      BY <2>12, <3>1, JobTypes DEF Deploy
    <3>3. status' \in Statuses
      BY <2>0, <2>12 DEF Deploy, Write
    <3> QED
      BY <2>12, <3>2, <3>3 DEF Deploy
  <2>13. CASE Provision(w)
    <3>1. [job[w] EXCEPT !.stage = "connect", !.attempt = "pending_client_action"] \in Jobs
      BY <2>0, JobTypes, LocalsTypes
    <3>2. job' \in [Workers -> Jobs]
      BY <2>0, <2>13, <3>1, JobTypes DEF Provision
    <3>3. running' \subseteq Nat
      BY <2>13, JobTypes DEF Provision
    <3> QED
      BY <2>13, <3>2, <3>3 DEF Provision
  <2>14. CASE Connect(w)
    <3>1. [job[w] EXCEPT !.stage = "rollback", !.poisoned = ~MayInsert(w)] \in Jobs
      <4> DEFINE refused == ~MayInsert(w)
      <4>1. refused \in BOOLEAN /\ "rollback" \in Stages /\ job[w] \in Jobs
        BY <2>0, JobTypes DEF MayInsert
      <4> HIDE DEF refused
      <4> QED
        BY <4>1, LocalsTypes
    <3>2. job' \in [Workers -> Jobs]
      BY <2>0, <2>14, <3>1, JobTypes DEF Connect
    <3> QED
      BY <2>14, <3>2, JobTypes DEF Connect, SaveDeployment
  <2>15. CASE Activate(w)
    <3>1. \A result \in {"active", "degraded", "pending_client_action"} :
            [job[w] EXCEPT !.stage = "finish", !.attempt = result] \in Jobs
      <4>1. job[w] \in Jobs
        BY JobTypes
      <4> QED
        BY <2>0, <4>1, LocalsTypes
    <3>2. job' \in [Workers -> Jobs]
      BY <2>0, <2>15, <3>1, JobTypes DEF Activate
    <3> QED
      BY <2>15, <3>2 DEF Activate
  <2>16. CASE Rollback(w)
    <3>1. [job[w] EXCEPT !.stage = "finish", !.attempt = "rolled_back"] \in Jobs
      BY <2>0, JobTypes, LocalsTypes
    <3>2. job' \in [Workers -> Jobs]
      BY <2>16, <3>1, JobTypes DEF Rollback
    <3>3. running' \subseteq Nat /\ abandoned' \subseteq Nat
      BY <2>16, JobTypes DEF Rollback, StopContainer
    <3> QED
      BY <2>16, <3>2, <3>3 DEF Rollback
  <2>17. CASE Finish(w)
    BY <2>0, <2>17, JobTypes DEF Finish, SaveDeployment, BuildStatusOf
  <2> QED
    BY <1>5, <2>1, <2>2, <2>3, <2>4, <2>5, <2>6, <2>7, <2>8, <2>9, <2>10, <2>11, <2>12, <2>13,
       <2>14, <2>15, <2>16, <2>17 DEF WorkerStep
<1>6. ASSUME NEW w \in Workers, Lose(w)
      PROVE  TypeOK'
  <2>1. job[w].id \in Nat /\ job' \in [Workers -> Jobs]
    BY <1>6, JobTypes DEF Lose
  <2>2. abandoned' \subseteq Nat
    BY <1>6, <2>1 DEF Lose
  <2>3. losses' \in 0..MaxLosses
    BY <1>6 DEF Lose
  <2> QED
    BY <1>6, <2>1, <2>2, <2>3 DEF Lose
<1> QED
  BY <1>1, <1>2, <1>3, <1>4, <1>5, <1>6 DEF Next

(* The rows and the empty queue the process starts from are well typed. *)
LEMMA TypeInit == Init => TypeOK
<1>1. Idle \in Jobs
  BY PipelineAssumption DEF Jobs, Idle, NewJob, Stages, Statuses, Building, Resting, Attempts,
                            DeployStages
<1> QED
  BY <1>1, PipelineAssumption DEF Init, TypeOK, Statuses, Attempts

(* Every variable of the pipeline stays in its type.                       *)
THEOREM PipelineTypeOK == Spec => []TypeOK
BY TypeInit, TypeStep, PTL DEF Spec

-----------------------------------------------------------------------------
(* A deployed build has an active row, and no container is forgotten.      *)

Inv == TypeOK /\ DeploymentsInv /\ DeployedIsActive /\ ContainersAccounted

Unsettled == {"underway", "pending_client_action"}

(* A step that leaves the deployments alone, in which no task enters or    *)
(* leaves a deployment (unless its worker dies) and the build does not     *)
(* become deployed.                                                        *)
Quiet ==
  /\ UNCHANGED <<made, rowId, rowStatus, running>>
  /\ abandoned \subseteq abandoned'
  /\ status' = status \/ status' # "deployed"
  /\ \A v \in Workers : \/ job'[v] = job[v]
                         \/ /\ job'[v].stage \notin DeployStages
                            /\ Deploying(v) => job[v].id \in abandoned'
                            /\ job'[v].attempt \in Unsettled \/ job'[v].stage = "fail"

(* A quiet step breaks no part of the invariant. *)
LEMMA QuietStep ==
  ASSUME Inv, Quiet
  PROVE  DeploymentsInv' /\ DeployedIsActive' /\ ContainersAccounted'
<1>. USE DEF Quiet, deployments
<1>1. (rowId \in 0..made /\ running \subseteq 1..made /\ (status = "deployed" => rowId # 0))'
  BY DEF Inv, DeploymentsInv
<1>2. ASSUME NEW v \in Workers PROVE DeploymentInv(v)'
  <2>1. CASE job'[v] = job[v]
    BY <2>1 DEF Inv, DeploymentsInv, DeploymentInv, Deploying
  <2>2. CASE job'[v] # job[v]
    BY <2>2 DEF DeploymentInv, Deploying, Unsettled
  <2> QED
    BY <2>1, <2>2
<1>3. DistinctDeployments'
  BY DEF Inv, DeploymentsInv, DistinctDeployments, Deploying
<1>4. DeployedIsActive'
  BY DEF Inv, DeployedIsActive
<1>5. ContainersAccounted'
  <2>1. SUFFICES ASSUME NEW d \in running, d \notin abandoned', ~Named(d)
                 PROVE  \E w \in Workers : job'[w].id = d /\ job'[w].stage \in DeployStages
    BY DEF ContainersAccounted, Deploying, Named
  <2>2. d \notin abandoned
    BY <2>1
  <2>3. PICK w \in Workers : job[w].id = d /\ Deploying(w)
    BY <2>1, <2>2 DEF Inv, ContainersAccounted, Named
  <2>4. job'[w] = job[w]
    BY <2>1, <2>3
  <2> QED
    BY <2>3, <2>4 DEF Deploying
<1> QED
  BY <1>1, <1>2, <1>3, <1>4, <1>5 DEF DeploymentsInv

(* The steps of the API, and a worker's before its deployment, are quiet.  *)
LEMMA CallsAreQuiet ==
  ASSUME Inv, CreateCommission \/ \/ \E c \in Operators, kind \in {"retry", "approve", "reject"} :
                                    ReadBuild(c, kind)
                                \/ \E c \in Calls : CallStep(c)
  PROVE  Quiet
<1>1. UNCHANGED <<job, made, deployments>>
  BY DEF CreateCommission, ReadBuild, CallStep, CommitQueued, RetryEnqueue, ApproveEnqueue,
         ApproveCommit, RejectCommit, RequestFails
<1>2. status' = status \/ status' # "deployed"
  BY DEF CreateCommission, ReadBuild, CallStep, CommitQueued, RetryEnqueue, ApproveEnqueue,
         ApproveCommit, RejectCommit, RequestFails
<1> QED
  BY <1>1, <1>2 DEF Quiet, deployments

(* A worker that moves between stages outside the deployment, or gives up. *)
LEMMA TaskIsQuiet ==
  ASSUME Inv, NEW w \in Workers, UNCHANGED <<made, deployments>>, ~Deploying(w),
         status' = status \/ status' # "deployed",
         NEW j, Update(w, j), j.stage \notin DeployStages,
         j.attempt \in Unsettled \/ j.stage = "fail"
  PROVE  Quiet
<1>1. job' = [job EXCEPT ![w] = j] /\ DOMAIN job = Workers
  BY DEF Update, Inv, TypeOK
<1>2. job'[w] = j /\ \A v \in Workers \ {w} : job'[v] = job[v]
  BY <1>1
<1>3. UNCHANGED <<rowId, rowStatus, running, abandoned>>
  BY DEF deployments
<1> QED
  BY <1>2, <1>3 DEF Quiet

(* The same, by the ways a task moves.                                     *)
LEMMA MoveIsQuiet ==
  ASSUME Inv, NEW w \in Workers, UNCHANGED <<made, deployments>>,
         job[w].stage \notin DeployStages \cup {"fail"},
         status' = status \/ status' # "deployed"
  PROVE  /\ \A s \in Stages \ DeployStages : Goto(w, s) => Quiet
         /\ Return(w) => Quiet
         /\ Raise(w) => Quiet
<1>1. job[w] \in Jobs
  BY DEF Inv, TypeOK
<1>2. ~Deploying(w) /\ job[w].attempt \in Unsettled
  BY DEF Inv, DeploymentsInv, DeploymentInv, Deploying, Unsettled, DeployStages
<1>3. ASSUME NEW s \in Stages \ DeployStages, Goto(w, s)
      PROVE  Quiet
  <2> DEFINE j == [job[w] EXCEPT !.stage = s]
  <2>1. j.stage \notin DeployStages /\ j.attempt \in Unsettled
    BY <1>1, <1>2, <1>3 DEF Jobs
  <2>2. Update(w, j)
    BY <1>3 DEF Goto
  <2> QED
    <3> HIDE DEF j
    <3> QED
      BY <1>2, <2>1, <2>2, TaskIsQuiet
<1>5. Return(w) => Quiet
  <2>1. Idle.stage \notin DeployStages /\ Idle.attempt \in Unsettled
    BY DEF Idle, NewJob, DeployStages, Unsettled
  <2> QED
    BY <1>2, <2>1, TaskIsQuiet DEF Return
<1>6. Raise(w) => Quiet
  <2>1. "fail" \in Stages \ DeployStages
    BY DEF Stages, DeployStages
  <2> QED
    BY <2>1, <1>3, <1>5 DEF Raise
<1> QED
  BY <1>3, <1>5, <1>6

(* What a worker does before and after a deployment leaves the containers alone. *)
LEMMA TasksAreQuiet ==
  ASSUME Inv, NEW w \in Workers,
         \/ TakeRun(w) \/ TakeResume(w) \/ Begin(w) \/ Design(w) \/ Assemble(w) \/ Generate(w)
         \/ Package(w) \/ Evaluate(w) \/ Correct(w) \/ Judge(w) \/ StageRaises(w) \/ SaveFailure(w) \/ Resume(w)
         \/ Lose(w)
  PROVE  Quiet
<1>0. /\ {"design", "assemble", "generate", "package", "evaluate", "correct", "judge", "deploy", "begin",
          "resume", "fail"} \subseteq Stages \ DeployStages
      /\ job[w] \in Jobs
  BY DEF Stages, DeployStages, Inv, TypeOK
<1>1. CASE TakeRun(w) \/ TakeResume(w)
  <2> DEFINE found == status # "absent"
  <2>1. PICK stage \in {"begin", "resume"}, task \in {"run", "resume"} :
          Update(w, NewJob(stage, task, found))
    BY <1>1 DEF TakeRun, TakeResume, Take
  <2>2. /\ NewJob(stage, task, found).stage \notin DeployStages
        /\ NewJob(stage, task, found).attempt \in Unsettled
    BY DEF NewJob, DeployStages, Unsettled
  <2>3. UNCHANGED <<made, deployments, status>> /\ ~Deploying(w)
    BY <1>1 DEF TakeRun, TakeResume, Take, Deploying, DeployStages
  <2> QED
    BY <2>1, <2>2, <2>3, TaskIsQuiet
<1>2. CASE Begin(w)
  BY <1>0, <1>2, MoveIsQuiet DEF Begin, At, Save, Write
<1>3. CASE Design(w) \/ Assemble(w)
  BY <1>0, <1>3, MoveIsQuiet DEF Design, Assemble, At, Save, Write
<1>4. CASE Generate(w)
  <2>1. PICK ok \in BOOLEAN : Generate(w)!2!(ok)
    BY <1>4 DEF Generate
  <2> DEFINE code == IF job[w].image = "none" THEN "none" ELSE "older"
             j == [job[w] EXCEPT !.stage = "package", !.tested = ok, !.image = code]
  <2>2. Update(w, j) \/ Return(w)
    BY <2>1
  <2>3. status' = status \/ status' # "deployed"
    BY <2>1 DEF Record, Write
  <2>4. j.stage \notin DeployStages /\ j.attempt = job[w].attempt
    BY <1>0 DEF Jobs, DeployStages
  <2>5. /\ UNCHANGED <<made, deployments>> /\ ~Deploying(w)
        /\ job[w].stage \notin DeployStages \cup {"fail"} /\ job[w].attempt \in Unsettled
    BY <1>4 DEF Generate, At, Deploying, DeployStages, Inv, DeploymentsInv, DeploymentInv,
                Unsettled
  <2>6. CASE Update(w, j)
    <3> HIDE DEF j
    <3> QED
      BY <2>3, <2>4, <2>5, <2>6, TaskIsQuiet
  <2>7. CASE Return(w)
    BY <2>3, <2>5, <2>7, MoveIsQuiet
  <2> QED
    BY <2>2, <2>6, <2>7
<1>5. CASE Package(w)
  <2>1. PICK ok \in BOOLEAN : Package(w)!2!(ok)
    BY <1>5 DEF Package
  <2> DEFINE j == [job[w] EXCEPT !.stage = "evaluate", !.image = IF ok THEN "current" ELSE @]
  <2>2. Update(w, j)
    BY <2>1
  <2>3. status' = status \/ status' # "deployed"
    BY <2>1 DEF Record, Write
  <2>4. j.stage \notin DeployStages /\ j.attempt = job[w].attempt
    BY <1>0 DEF Jobs, DeployStages
  <2>5. /\ UNCHANGED <<made, deployments>> /\ ~Deploying(w)
        /\ job[w].attempt \in Unsettled
    BY <1>5 DEF Package, At, Deploying, DeployStages, Inv, DeploymentsInv, DeploymentInv,
                Unsettled
  <2> QED
    <3> HIDE DEF j
    <3> QED
      BY <2>2, <2>3, <2>4, <2>5, TaskIsQuiet
<1>6. CASE Evaluate(w)
  BY <1>0, <1>6, MoveIsQuiet DEF Evaluate, At, Save, Write, Record, DeployStages
<1>7. CASE Correct(w)
  <2> DEFINE j == [job[w] EXCEPT !.stage = "generate", !.iter = @ + 1, !.correcting = TRUE]
  <2>1. \/ Update(w, j) /\ UNCHANGED status
        \/ Write("failed") /\ Return(w)
    BY <1>7 DEF Correct
  <2>2. j.stage \notin DeployStages /\ j.attempt = job[w].attempt
    BY <1>0 DEF Jobs, DeployStages
  <2>3. /\ UNCHANGED <<made, deployments>> /\ ~Deploying(w)
        /\ job[w].stage \notin DeployStages \cup {"fail"} /\ job[w].attempt \in Unsettled
    BY <1>7 DEF Correct, At, Deploying, DeployStages, Inv, DeploymentsInv, DeploymentInv,
                Unsettled
  <2>4. CASE Update(w, j) /\ UNCHANGED status
    <3> HIDE DEF j
    <3> QED
      BY <2>2, <2>3, <2>4, TaskIsQuiet
  <2>5. CASE Write("failed") /\ Return(w)
    BY <2>3, <2>5, MoveIsQuiet DEF Write
  <2> QED
    BY <2>1, <2>4, <2>5
<1>8. CASE Judge(w)
  BY <1>0, <1>8, MoveIsQuiet DEF Judge, At, Write, DeployStages
<1>9. CASE StageRaises(w)
  BY <1>0, <1>9, MoveIsQuiet DEF StageRaises, At
<1>10. CASE SaveFailure(w)
  <2>1. Idle.stage \notin DeployStages /\ Idle.attempt \in Unsettled
    BY DEF Idle, NewJob, DeployStages, Unsettled
  <2> QED
    BY <1>10, <2>1, TaskIsQuiet DEF SaveFailure, FailureStatus, At, Return, Deploying, DeployStages
<1>11. CASE Resume(w)
  BY <1>0, <1>11, MoveIsQuiet DEF Resume, At, Save, Write
<1>12. CASE Lose(w)
  <2>1. Idle.stage \notin DeployStages /\ Idle.attempt \in Unsettled
    BY DEF Idle, NewJob, DeployStages, Unsettled
  <2>2. /\ UNCHANGED <<status, made, rowId, rowStatus, running>> /\ abandoned \subseteq abandoned'
        /\ Deploying(w) => job[w].id \in abandoned'
    BY <1>12 DEF Lose
  <2>3. \A v \in Workers : job'[v] = IF v = w THEN Idle ELSE job[v]
    BY <1>12 DEF Lose, Return, Update, Inv, TypeOK
  <2> QED
    BY <2>1, <2>2, <2>3 DEF Quiet
<1> QED
  BY <1>1, <1>2, <1>3, <1>4, <1>5, <1>6, <1>7, <1>8, <1>9, <1>10, <1>11, <1>12

(* What a step of w leaves in every task.                                  *)
LEMMA OneMoves ==
  ASSUME Inv, NEW w \in Workers, NEW j, Update(w, j)
  PROVE  \A v \in Workers : job'[v] = IF v = w THEN j ELSE job[v]
BY DEF Update, Inv, TypeOK

(* A deployment begins with an id of its own.                              *)
LEMMA DeployStep ==
  ASSUME Inv, NEW w \in Workers, Deploy(w)
  PROVE  DeploymentsInv' /\ DeployedIsActive' /\ ContainersAccounted'
<1>. USE DEF deployments
<1> DEFINE j == [job[w] EXCEPT !.stage = "provision", !.id = made + 1]
<1>1. /\ Update(w, j) /\ made' = made + 1 /\ UNCHANGED deployments /\ ~Deploying(w)
      /\ status' = status \/ status' # "deployed"
      /\ job[w] \in Jobs /\ job[w].attempt \in Unsettled
  BY DEF Deploy, At, Write, Deploying, DeployStages, Inv, TypeOK, DeploymentsInv, DeploymentInv,
         Unsettled
<1>2. /\ j.stage = "provision" /\ j.id = made + 1
      /\ j.attempt = job[w].attempt
  BY <1>1 DEF Jobs
<1>3. \A v \in Workers : job'[v] = IF v = w THEN j ELSE job[v]
  BY <1>1, OneMoves
<1>4. /\ made \in Nat /\ rowId \in 0..made /\ running \subseteq 1..made
      /\ \A v \in Workers : DeploymentInv(v)
  BY DEF Inv, TypeOK, DeploymentsInv
<1> HIDE DEF j
<1>5. /\ rowId' \in 0..made' /\ running' \subseteq 1..made'
      /\ status' = "deployed" => rowId' # 0
  BY <1>1, <1>4 DEF Inv, DeploymentsInv
<1>6. ASSUME NEW v \in Workers PROVE DeploymentInv(v)'
  BY <1>1, <1>2, <1>3, <1>4 DEF DeploymentInv, Deploying, Unsettled, DeployStages
<1>7. DistinctDeployments'
  BY <1>1, <1>2, <1>3, <1>4 DEF Inv, DeploymentsInv, DeploymentInv, DistinctDeployments, Deploying
<1>8. DeployedIsActive'
  BY <1>1 DEF Inv, DeployedIsActive
<1>9. ContainersAccounted'
  BY <1>1, <1>3 DEF Inv, ContainersAccounted, Deploying, Named
<1> QED
  BY <1>5, <1>6, <1>7, <1>8, <1>9 DEF DeploymentsInv

(* The container starts, or is not needed, or cannot start.                *)
LEMMA ProvisionStep ==
  ASSUME Inv, NEW w \in Workers, Provision(w)
  PROVE  DeploymentsInv' /\ DeployedIsActive' /\ ContainersAccounted'
<1>1. PICK j \in {[job[w] EXCEPT !.stage = "connect", !.attempt = "pending_client_action"],
                  [job[w] EXCEPT !.stage = "connect"], [job[w] EXCEPT !.stage = "rollback"]} :
        Update(w, j)
  BY DEF Provision, Goto
<1>2. /\ UNCHANGED <<status, made, rowId, rowStatus, abandoned>> /\ Deploying(w)
      /\ running' \subseteq running \cup {job[w].id} /\ running \subseteq running'
      /\ job[w] \in Jobs /\ job[w].attempt \in Unsettled /\ job[w].stage = "provision"
  BY DEF Provision, At, Deploying, DeployStages, Inv, TypeOK, DeploymentsInv, DeploymentInv,
         Unsettled
<1>3. /\ j.stage \in {"connect", "rollback"} /\ j.id = job[w].id
      /\ j.attempt \in Unsettled
  BY <1>1, <1>2 DEF Jobs, Unsettled
<1>4. \A v \in Workers : job'[v] = IF v = w THEN j ELSE job[v]
  BY <1>1, OneMoves
<1>5. /\ made \in Nat /\ rowId \in 0..made /\ running \subseteq 1..made
      /\ \A v \in Workers : DeploymentInv(v)
  BY DEF Inv, TypeOK, DeploymentsInv
<1>6. job[w].id \in 1..made /\ rowId # job[w].id
  BY <1>2, <1>5 DEF DeploymentInv
<1>7. /\ rowId' \in 0..made' /\ running' \subseteq 1..made'
      /\ status' = "deployed" => rowId' # 0
  BY <1>2, <1>5, <1>6 DEF Inv, DeploymentsInv
<1>8. DistinctDeployments'
  BY <1>2, <1>3, <1>4 DEF Inv, DeploymentsInv, DistinctDeployments, Deploying
<1>9. ASSUME NEW v \in Workers PROVE DeploymentInv(v)'
  <2>1. CASE v = w
    BY <2>1, <1>2, <1>3, <1>4, <1>6 DEF DeploymentInv, Deploying, Unsettled
  <2>2. CASE v # w
    <3>1. job'[v] = job[v] /\ (Deploying(v) => job[v].id # job[w].id)
      BY <2>2, <1>2, <1>4 DEF Inv, DeploymentsInv, DistinctDeployments
    <3> QED
      BY <3>1, <1>2, <1>5 DEF DeploymentInv, Deploying
  <2> QED
    BY <2>1, <2>2
<1>10. DeployedIsActive'
  BY <1>2 DEF Inv, DeployedIsActive
<1>11. ContainersAccounted'
  <2>1. \A v \in Workers : Deploying(v) => Deploying(v)' /\ job'[v].id = job[v].id
    BY <1>3, <1>4 DEF Deploying, DeployStages
  <2> QED
    BY <2>1, <1>2 DEF Inv, ContainersAccounted, Named
<1> QED
  BY <1>7, <1>8, <1>9, <1>10, <1>11 DEF DeploymentsInv

(* The first save inserts the row, so no other deployment is named there.  *)
LEMMA ConnectStep ==
  ASSUME Inv, NEW w \in Workers, Connect(w)
  PROVE  DeploymentsInv' /\ DeployedIsActive' /\ ContainersAccounted'
<1>1. PICK j \in {[job[w] EXCEPT !.stage = "finish"], [job[w] EXCEPT !.stage = "activate"],
                  [job[w] EXCEPT !.stage = "rollback", !.poisoned = ~MayInsert(w)]} : Update(w, j)
  BY DEF Connect, Goto
<1>2. /\ UNCHANGED <<status, made, running, abandoned>> /\ Deploying(w)
      /\ job[w] \in Jobs /\ job[w].attempt \in Unsettled /\ job[w].stage = "connect"
  BY DEF Connect, At, Deploying, DeployStages, Inv, TypeOK, DeploymentsInv, DeploymentInv,
         Unsettled
<1>3. /\ j.stage \in {"finish", "activate", "rollback"}
      /\ j.id = job[w].id /\ j.attempt = job[w].attempt
  BY <1>1, <1>2 DEF Jobs
<1>4. \A v \in Workers : job'[v] = IF v = w THEN j ELSE job[v]
  BY <1>1, OneMoves
<1>5. /\ made \in Nat /\ rowId \in 0..made /\ running \subseteq 1..made
      /\ \A v \in Workers : DeploymentInv(v)
  BY DEF Inv, TypeOK, DeploymentsInv
<1>6. job[w].id \in 1..made /\ rowId # job[w].id
  BY <1>2, <1>5 DEF DeploymentInv
<1>7. \/ rowId = 0 /\ rowId' = job[w].id /\ rowStatus' = job[w].attempt
      \/ UNCHANGED <<rowId, rowStatus>> /\ j.stage = "rollback"
  <2>1. CASE MayInsert(w) /\ SaveDeployment(w)
    BY <2>1, <1>6 DEF MayInsert, SaveDeployment
  <2>2. CASE /\ Update(w, [job[w] EXCEPT !.stage = "rollback", !.poisoned = ~MayInsert(w)])
             /\ UNCHANGED <<rowId, rowStatus>>
    <3>1. job'[w] = [job[w] EXCEPT !.stage = "rollback", !.poisoned = ~MayInsert(w)]
      BY <2>2, OneMoves
    <3>2. job'[w].stage = "rollback"
      BY <3>1, <1>2 DEF Jobs
    <3> QED
      BY <2>2, <3>2, <1>4
  <2> QED
    BY <2>1, <2>2 DEF Connect
<1>8. /\ rowId' \in 0..made' /\ running' \subseteq 1..made'
      /\ status' = "deployed" => rowId' # 0
  BY <1>2, <1>5, <1>6, <1>7 DEF Inv, DeploymentsInv
<1>9. DistinctDeployments'
  BY <1>2, <1>3, <1>4 DEF Inv, DeploymentsInv, DistinctDeployments, Deploying
<1>10. ASSUME NEW v \in Workers PROVE DeploymentInv(v)'
  <2>1. CASE v = w
    BY <2>1, <1>2, <1>3, <1>4, <1>6, <1>7 DEF DeploymentInv, Deploying, Unsettled
  <2>2. CASE v # w
    <3>1. job'[v] = job[v] /\ (Deploying(v) => job[v].id # job[w].id /\ job[v].id # 0)
      BY <2>2, <1>2, <1>4, <1>5 DEF Inv, DeploymentsInv, DistinctDeployments, DeploymentInv
    <3> QED
      BY <3>1, <1>2, <1>5, <1>7 DEF DeploymentInv, Deploying
  <2> QED
    BY <2>1, <2>2
<1>11. DeployedIsActive'
  BY <1>2, <1>7 DEF Inv, DeployedIsActive, DeploymentsInv
<1>12. ContainersAccounted'
  <2>1. \A v \in Workers : Deploying(v) => Deploying(v)' /\ job'[v].id = job[v].id
    BY <1>3, <1>4 DEF Deploying, DeployStages
  <2>2. \A d \in running : Named(d) => Named(d)'
    BY <1>5, <1>7 DEF Named
  <2> QED
    BY <2>1, <2>2, <1>2 DEF Inv, ContainersAccounted, Named
<1> QED
  BY <1>8, <1>9, <1>10, <1>11, <1>12 DEF DeploymentsInv

(* The activation ends, or fails; the row is as it was.                    *)
LEMMA ActivateStep ==
  ASSUME Inv, NEW w \in Workers, Activate(w)
  PROVE  DeploymentsInv' /\ DeployedIsActive' /\ ContainersAccounted'
<1>. USE DEF deployments
<1>1. PICK j \in {[job[w] EXCEPT !.stage = "finish", !.attempt = "active"],
                  [job[w] EXCEPT !.stage = "finish", !.attempt = "degraded"],
                  [job[w] EXCEPT !.stage = "finish", !.attempt = "pending_client_action"],
                  [job[w] EXCEPT !.stage = "rollback"]} : Update(w, j)
  BY DEF Activate, Goto
<1>2. /\ UNCHANGED <<status, made, deployments>> /\ Deploying(w)
      /\ job[w] \in Jobs /\ job[w].attempt \in Unsettled /\ job[w].stage = "activate"
  BY DEF Activate, At, Deploying, DeployStages, Inv, TypeOK, DeploymentsInv, DeploymentInv,
         Unsettled
<1>3. /\ j.id = job[w].id
      /\ \/ j.stage = "finish" /\ j.attempt # "rolled_back"
         \/ j.stage = "rollback" /\ j.attempt \in Unsettled
  BY <1>1, <1>2 DEF Jobs
<1>4. \A v \in Workers : job'[v] = IF v = w THEN j ELSE job[v]
  BY <1>1, OneMoves
<1>5. /\ made \in Nat /\ \A v \in Workers : DeploymentInv(v)
      /\ DeploymentInv(w)
  BY DEF Inv, TypeOK, DeploymentsInv
<1>6. /\ rowId' \in 0..made' /\ running' \subseteq 1..made'
      /\ status' = "deployed" => rowId' # 0
  BY <1>2 DEF Inv, DeploymentsInv
<1>7. DistinctDeployments'
  BY <1>2, <1>3, <1>4 DEF Inv, DeploymentsInv, DistinctDeployments, Deploying
<1>8. ASSUME NEW v \in Workers PROVE DeploymentInv(v)'
  BY <1>2, <1>3, <1>4, <1>5 DEF DeploymentInv, Deploying, Unsettled
<1>9. DeployedIsActive'
  BY <1>2 DEF Inv, DeployedIsActive
<1>10. ContainersAccounted'
  <2>1. \A v \in Workers : Deploying(v) => Deploying(v)' /\ job'[v].id = job[v].id
    BY <1>3, <1>4 DEF Deploying, DeployStages
  <2> QED
    BY <2>1, <1>2 DEF Inv, ContainersAccounted, Named
<1> QED
  BY <1>6, <1>7, <1>8, <1>9, <1>10 DEF DeploymentsInv

(* The container stops before the rollback can fail, or is given up.       *)
LEMMA RollbackStep ==
  ASSUME Inv, NEW w \in Workers, Rollback(w)
  PROVE  DeploymentsInv' /\ DeployedIsActive' /\ ContainersAccounted'
<1>1. PICK j \in {[job[w] EXCEPT !.stage = "finish", !.attempt = "rolled_back"],
                  [job[w] EXCEPT !.stage = "fail"], Idle} : Update(w, j)
  BY DEF Rollback, Raise, Return, Goto
<1>2. /\ UNCHANGED <<status, made, rowId, rowStatus>> /\ Deploying(w) /\ job[w] \in Jobs
      /\ running' \subseteq running /\ abandoned \subseteq abandoned'
      /\ job[w].id \notin running' \ abandoned'
      /\ job[w].attempt \in Unsettled /\ job[w].stage = "rollback"
  BY DEF Rollback, StopContainer, At, Deploying, DeployStages, Inv, TypeOK, DeploymentsInv,
         DeploymentInv, Unsettled
<1>3. \/ /\ j.stage = "finish" /\ j.attempt = "rolled_back"
         /\ j.id = job[w].id
      \/ j.stage \in {"fail", "idle"} /\ j.attempt \in Unsettled
  <2>1. Idle.stage = "idle" /\ Idle.attempt \in Unsettled
    BY DEF Idle, NewJob, Unsettled
  <2> QED
    BY <2>1, <1>1, <1>2 DEF Jobs
<1>4. \A v \in Workers : job'[v] = IF v = w THEN j ELSE job[v]
  BY <1>1, OneMoves
<1>5. /\ made \in Nat /\ \A v \in Workers : DeploymentInv(v)
      /\ DeploymentInv(w)
  BY DEF Inv, TypeOK, DeploymentsInv
<1>6. /\ rowId' \in 0..made' /\ running' \subseteq 1..made'
      /\ status' = "deployed" => rowId' # 0
  BY <1>2 DEF Inv, DeploymentsInv
<1>7. DistinctDeployments'
  BY <1>2, <1>3, <1>4 DEF Inv, DeploymentsInv, DistinctDeployments, Deploying, DeployStages
<1>8. ASSUME NEW v \in Workers PROVE DeploymentInv(v)'
  BY <1>2, <1>3, <1>4, <1>5 DEF DeploymentInv, Deploying, Unsettled, DeployStages
<1>9. DeployedIsActive'
  BY <1>2 DEF Inv, DeployedIsActive
<1>10. ContainersAccounted'
  <2>1. \A v \in Workers : Deploying(v) /\ v # w => Deploying(v)' /\ job'[v].id = job[v].id
    BY <1>4 DEF Deploying
  <2>2. \A d \in running' \ abandoned' : d \in running \ abandoned /\ d # job[w].id
    BY <1>2
  <2> QED
    BY <2>1, <2>2, <1>2 DEF Inv, ContainersAccounted, Named
<1> QED
  BY <1>6, <1>7, <1>8, <1>9, <1>10 DEF DeploymentsInv

(* The last save settles the row and the build in one transaction; refused *)
(* because the row is another's, it leaves both.                           *)
LEMMA FinishStep ==
  ASSUME Inv, NEW w \in Workers, Finish(w)
  PROVE  DeploymentsInv' /\ DeployedIsActive' /\ ContainersAccounted'
<1>1. PICK j \in {Idle, [job[w] EXCEPT !.stage = "fail"]} : Update(w, j)
  BY DEF Finish, Return, Raise, Goto
<1>2. /\ UNCHANGED <<made, running, abandoned>> /\ Deploying(w)
      /\ job[w] \in Jobs /\ job[w].stage = "finish"
  BY DEF Finish, At, Deploying, DeployStages, Inv, TypeOK
<1>3. j.stage \notin DeployStages /\ (j.attempt \in Unsettled \/ j.stage = "fail")
  BY <1>1, <1>2 DEF Jobs, Idle, NewJob, Unsettled, DeployStages
<1>4. \A v \in Workers : job'[v] = IF v = w THEN j ELSE job[v]
  BY <1>1, OneMoves
<1>5. /\ made \in Nat /\ rowId \in 0..made /\ running \subseteq 1..made
      /\ \A v \in Workers : DeploymentInv(v)
  BY DEF Inv, TypeOK, DeploymentsInv
<1>6. /\ job[w].id \in 1..made
      /\ rowId = job[w].id => rowStatus \in Unsettled
      /\ job[w].attempt = "rolled_back" => job[w].id \notin running \ abandoned
      /\ job[w].attempt # "rolled_back" => rowId = job[w].id
  BY <1>2, <1>5 DEF DeploymentInv, Unsettled
<1>7. \/ /\ rowId \in {0, job[w].id} /\ rowId' = job[w].id /\ rowStatus' = job[w].attempt
         /\ status' = "deployed" => rowStatus' = "active"
      \/ UNCHANGED <<status, rowId, rowStatus>> /\ rowId \notin {0, job[w].id}
  <2>1. CASE MayInsert(w)
    <3>1. SaveDeployment(w) /\ Write(BuildStatusOf(job[w].attempt))
      BY <2>1 DEF Finish
    <3>3. status' = BuildStatusOf(job[w].attempt)
      BY <3>1 DEF Write
    <3>4. status' = "deployed" => job[w].attempt = "active"
      BY <3>3 DEF BuildStatusOf
    <3> QED
      BY <2>1, <3>1, <3>4 DEF MayInsert, SaveDeployment
  <2>2. CASE ~MayInsert(w)
    BY <2>2 DEF Finish, MayInsert
  <2> QED
    BY <2>1, <2>2
<1>8. /\ rowId' \in 0..made' /\ running' \subseteq 1..made'
      /\ status' = "deployed" => rowId' # 0
  BY <1>2, <1>5, <1>6, <1>7 DEF Inv, DeploymentsInv
<1>9. DistinctDeployments'
  BY <1>3, <1>4 DEF Inv, DeploymentsInv, DistinctDeployments, Deploying
<1>10. ASSUME NEW v \in Workers PROVE DeploymentInv(v)'
  <2>1. CASE v = w
    BY <2>1, <1>3, <1>4 DEF DeploymentInv, Deploying, Unsettled
  <2>2. CASE v # w
    <3>1. job'[v] = job[v] /\ (Deploying(v) => job[v].id # job[w].id /\ job[v].id # 0)
      BY <2>2, <1>2, <1>4, <1>5 DEF Inv, DeploymentsInv, DistinctDeployments, DeploymentInv
    <3> QED
      BY <3>1, <1>2, <1>5, <1>7 DEF DeploymentInv, Deploying
  <2> QED
    BY <2>1, <2>2
<1>11. DeployedIsActive'
  BY <1>7 DEF Inv, DeployedIsActive
<1>12. ContainersAccounted'
  <2>1. \A v \in Workers : Deploying(v) /\ v # w => Deploying(v)' /\ job'[v].id = job[v].id
    BY <1>4 DEF Deploying
  <2>2. \A d \in running \ abandoned : Named(d) \/ d = job[w].id => Named(d)'
    BY <1>5, <1>6, <1>7 DEF Named
  <2> QED
    BY <2>1, <2>2, <1>2 DEF Inv, ContainersAccounted, Named
<1> QED
  BY <1>8, <1>9, <1>10, <1>11, <1>12 DEF DeploymentsInv

(* Every step of every worker, of the server and of the clean-up preserves the
   inductive invariant. *)
LEMMA InvStep ==
  ASSUME Inv, [Next]_vars
  PROVE  Inv'
<1>1. TypeOK'
  BY TypeStep DEF Inv
<1>2. CASE UNCHANGED vars
  <2>1. Quiet
    BY <1>2 DEF vars, Quiet, deployments, fixed
  <2> QED
    BY <1>1, <2>1, QuietStep DEF Inv
<1>3. CASE \/ CreateCommission
           \/ \E c \in Operators, kind \in {"retry", "approve", "reject"} : ReadBuild(c, kind)
           \/ \E c \in Calls : CallStep(c)
  BY <1>1, <1>3, CallsAreQuiet, QuietStep DEF Inv
<1>4. ASSUME NEW w \in Workers, WorkerStep(w) \/ Lose(w)
      PROVE  Inv'
  <2>1. CASE \/ TakeRun(w) \/ TakeResume(w) \/ Begin(w) \/ Design(w) \/ Assemble(w)
             \/ Generate(w) \/ Package(w) \/ Evaluate(w) \/ Correct(w) \/ Judge(w) \/ StageRaises(w)
             \/ SaveFailure(w) \/ Resume(w) \/ Lose(w)
    BY <1>1, <2>1, TasksAreQuiet, QuietStep DEF Inv
  <2>2. CASE Deploy(w)
    BY <1>1, <2>2, DeployStep DEF Inv
  <2>3. CASE Provision(w)
    BY <1>1, <2>3, ProvisionStep DEF Inv
  <2>4. CASE Connect(w)
    BY <1>1, <2>4, ConnectStep DEF Inv
  <2>5. CASE Activate(w)
    BY <1>1, <2>5, ActivateStep DEF Inv
  <2>6. CASE Rollback(w)
    BY <1>1, <2>6, RollbackStep DEF Inv
  <2>7. CASE Finish(w)
    BY <1>1, <2>7, FinishStep DEF Inv
  <2> QED
    BY <1>4, <2>1, <2>2, <2>3, <2>4, <2>5, <2>6, <2>7 DEF WorkerStep
<1> QED
  BY <1>2, <1>3, <1>4 DEF Next

(* The inductive invariant holds of every state the pipeline reaches. *)
LEMMA PipelineInv == Spec => []Inv
<1>1. Init => Inv
  <2>1. Init => TypeOK
    BY TypeInit
  <2>2. ASSUME Init PROVE DeploymentsInv /\ DeployedIsActive /\ ContainersAccounted
    <3>1. \A w \in Workers : DeploymentInv(w) /\ ~Deploying(w)
      BY <2>2 DEF Init, Idle, NewJob, DeploymentInv, Deploying, DeployStages
    <3> QED
      BY <2>2, <3>1 DEF Init, DeploymentsInv, DistinctDeployments, DeployedIsActive,
                        ContainersAccounted
  <2> QED
    BY <2>1, <2>2 DEF Inv
<1>2. Inv /\ [Next]_vars => Inv'
  BY InvStep
<1> QED
  BY <1>1, <1>2, PTL DEF Spec

(* However many pipelines and deployments of a build race, a build that    *)
(* says deployed has an active deployments row.                            *)
THEOREM PipelineDeployedIsActive == Spec => []DeployedIsActive
BY PipelineInv, PTL DEF Inv

(* A running container that neither the row names nor a deployment under   *)
(* way holds is one whose worker died, or that docker did not stop.        *)
THEOREM PipelineContainersAccounted == Spec => []ContainersAccounted
BY PipelineInv, PTL DEF Inv

-----------------------------------------------------------------------------
(* With human review on: a deployment is paid for by an approval that is   *)
(* still in the queue, or with a worker that has not deployed yet.         *)

Approvals == {c \in Operators : call[c] \in {"approved", "granted"}}
Owed == {w \in Workers : job[w].stage \in {"resume", "deploy"}}

ApprovalsInv ==
  /\ call[Commission] \in {"idle", "flushed", "done"}
  /\ review => made + Cardinality(Owed) + queue["resume"] <= Cardinality(Approvals)

LEMMA Finite ==
  /\ IsFiniteSet(Owed) /\ Cardinality(Owed) \in Nat /\ IsFiniteSet(Owed') /\ Cardinality(Owed') \in Nat
  /\ IsFiniteSet(Approvals) /\ Cardinality(Approvals) \in Nat
  /\ IsFiniteSet(Approvals') /\ Cardinality(Approvals') \in Nat
<1>1. Owed \in SUBSET Workers /\ Owed' \in SUBSET Workers
  BY DEF Owed
<1>2. Approvals \in SUBSET Operators /\ Approvals' \in SUBSET Operators
  BY DEF Approvals
<1> QED
  BY <1>1, <1>2, PipelineAssumption, FS_Subset, FS_CardinalityType

(* No deployment and no message is added, and no worker comes to owe one.  *)
LEMMA NothingOwed ==
  ASSUME TypeOK, ApprovalsInv, UNCHANGED <<review, made>>,
         queue'["resume"] = queue["resume"], Owed' \subseteq Owed, Approvals' = Approvals,
         call'[Commission] \in {"idle", "flushed", "done"}
  PROVE  ApprovalsInv'
<1>1. Cardinality(Owed') <= Cardinality(Owed)
  BY Finite, FS_Subset
<1>2. queue["resume"] \in Nat /\ made \in Nat
  BY DEF TypeOK
<1> QED
  BY <1>1, <1>2, Finite DEF ApprovalsInv

(* A task that goes on outside the two stages before a deployment.         *)
LEMMA Onwards ==
  ASSUME TypeOK, ApprovalsInv, UNCHANGED <<review, made, call>>, queue'["resume"] = queue["resume"],
         NEW w \in Workers, NEW j, Update(w, j),
         j.stage \notin {"resume", "deploy"} \/ job[w].stage \in {"resume", "deploy"}
  PROVE  ApprovalsInv'
<1>1. Owed' \subseteq Owed
  BY DEF TypeOK, Update, Owed
<1>2. Approvals' = Approvals /\ call'[Commission] \in {"idle", "flushed", "done"}
  BY DEF Approvals, ApprovalsInv
<1> QED
  BY <1>1, <1>2, NothingOwed

LEMMA Locals ==
  ASSUME TypeOK, NEW w \in Workers
  PROVE  /\ Idle.stage = "idle"
         /\ \A s : [job[w] EXCEPT !.stage = s].stage = s
         /\ \A s, x : /\ [job[w] EXCEPT !.stage = s, !.image = x].stage = s
                      /\ [job[w] EXCEPT !.stage = s, !.id = x].stage = s
                      /\ [job[w] EXCEPT !.stage = s, !.attempt = x].stage = s
                      /\ [job[w] EXCEPT !.stage = s, !.poisoned = x].stage = s
         /\ \A s, x, y : /\ [job[w] EXCEPT !.stage = s, !.tested = x, !.image = y].stage = s
                         /\ [job[w] EXCEPT !.stage = s, !.iter = x, !.correcting = y].stage = s
<1>1. job[w] \in Jobs
  BY DEF TypeOK
<1> QED
  BY <1>1 DEF Jobs, Idle, NewJob

LEMMA GotoOnwards ==
  ASSUME TypeOK, ApprovalsInv, UNCHANGED <<review, made, call>>, queue'["resume"] = queue["resume"],
         NEW w \in Workers
  PROVE  /\ \A s : Goto(w, s) /\ s \notin {"resume", "deploy"} => ApprovalsInv'
         /\ Return(w) => ApprovalsInv'
         /\ Raise(w) => ApprovalsInv'
<1>1. ASSUME NEW s, Goto(w, s), s \notin {"resume", "deploy"} PROVE ApprovalsInv'
  <2>. DEFINE j == [job[w] EXCEPT !.stage = s]
  <2>1. j.stage = s /\ Update(w, j)
    BY <1>1, Locals DEF Goto
  <2>. HIDE DEF j
  <2> QED
    BY <1>1, <2>1, Onwards
<1>2. ASSUME Return(w) PROVE ApprovalsInv'
  BY <1>2, Locals, Onwards DEF Return
<1> QED
  BY <1>1, <1>2 DEF Raise

LEMMA WorkerPays ==
  ASSUME TypeOK, ApprovalsInv, NEW w \in Workers, WorkerStep(w) \/ Lose(w)
  PROVE  ApprovalsInv'
<1>0. /\ UNCHANGED <<review, call>> /\ job[w].stage \in Stages /\ made \in Nat /\ queue["resume"] \in Nat
      /\ job \in [Workers -> Jobs] /\ queue \in [{"run", "resume"} -> Nat]
  <2>1. UNCHANGED fixed /\ UNCHANGED call
    BY DEF WorkerStep, Lose, TakeRun, TakeResume, Take, Begin, Design, Assemble, Generate, Package,
           Evaluate, Correct, Judge, StageRaises, SaveFailure, Resume, Deploy, Provision, Connect,
           Activate, Rollback, Finish, At
  <2> QED
    BY <2>1 DEF fixed, TypeOK, Jobs
<1>1. CASE TakeRun(w)
  <2>1. Update(w, NewJob("begin", "run", status # "absent")) /\ UNCHANGED made
        /\ queue'["resume"] = queue["resume"]
    BY <1>0, <1>1 DEF TakeRun, Take
  <2>2. NewJob("begin", "run", status # "absent").stage = "begin"
    BY DEF NewJob
  <2> QED
    BY <1>0, <2>1, <2>2, Onwards
<1>2. CASE TakeResume(w)
  <2>1. /\ job[w].stage = "idle" /\ UNCHANGED made
        /\ queue["resume"] > 0 /\ queue'["resume"] = queue["resume"] - 1
        /\ job' = [job EXCEPT ![w] = NewJob("resume", "resume", status # "absent")]
    BY <1>0, <1>2 DEF TakeResume, Take, Update
  <2>2. NewJob("resume", "resume", status # "absent").stage = "resume"
    BY DEF NewJob
  <2>3. w \notin Owed /\ Owed' = Owed \cup {w}
    BY <1>0, <2>1, <2>2 DEF Owed
  <2>4. Cardinality(Owed') = Cardinality(Owed) + 1
    BY <2>3, Finite, FS_AddElement
  <2>5. Approvals' = Approvals
    BY <1>0 DEF Approvals
  <2> QED
    BY <1>0, <2>1, <2>4, <2>5, Finite DEF ApprovalsInv
<1>3. CASE \/ Begin(w) \/ Design(w) \/ Assemble(w) \/ Evaluate(w) \/ StageRaises(w) \/ SaveFailure(w)
  <2>1. UNCHANGED made /\ UNCHANGED queue
    BY <1>3 DEF Begin, Design, Assemble, Evaluate, StageRaises, SaveFailure, At
  <2>2. \/ \E s \in {"design", "assemble", "generate", "judge", "correct"} : Goto(w, s)
        \/ Return(w) \/ Raise(w)
    BY <1>3 DEF Begin, Design, Assemble, Evaluate, StageRaises, SaveFailure, Save
  <2> QED
    BY <1>0, <2>1, <2>2, GotoOnwards
<1>4. CASE Generate(w) \/ Package(w) \/ Correct(w)
  <2>1. UNCHANGED made /\ UNCHANGED queue
    BY <1>4 DEF Generate, Package, Correct, At
  <2>2. CASE Return(w)
    BY <1>0, <2>1, <2>2, GotoOnwards
  <2>3. CASE \E j : Update(w, j) /\ j.stage \in {"package", "evaluate", "generate"}
    BY <1>0, <2>1, <2>3, Onwards
  <2>. DEFINE older == IF job[w].image = "none" THEN "none" ELSE "older"
              built(ok) == IF ok THEN "current" ELSE job[w].image
              g(ok) == [job[w] EXCEPT !.stage = "package", !.tested = ok, !.image = older]
              p(ok) == [job[w] EXCEPT !.stage = "evaluate", !.image = built(ok)]
              c == [job[w] EXCEPT !.stage = "generate", !.iter = job[w].iter + 1, !.correcting = TRUE]
  <2>4. /\ Generate(w) => Return(w) \/ \E ok \in BOOLEAN : Update(w, g(ok))
        /\ Package(w) => \E ok \in BOOLEAN : Update(w, p(ok))
        /\ Correct(w) => Return(w) \/ Update(w, c)
    BY <1>0 DEF Generate, Package, Correct, Jobs
  <2>5. (\A ok \in BOOLEAN : g(ok).stage = "package" /\ p(ok).stage = "evaluate") /\ c.stage = "generate"
    <3>. HIDE DEF older, built
    <3> QED
      BY Locals
  <2>. HIDE DEF g, p, c
  <2> QED
    BY <1>4, <2>2, <2>3, <2>4, <2>5
<1>5. CASE Judge(w)
  <2>1. UNCHANGED made /\ UNCHANGED queue /\ (review => Return(w))
    BY <1>5 DEF Judge, At
  <2>2. CASE review
    BY <1>0, <2>1, <2>2, GotoOnwards
  <2>3. CASE ~review
    BY <1>0, <2>3 DEF ApprovalsInv
  <2> QED
    BY <2>2, <2>3
<1>6. CASE Resume(w)
  <2>1. UNCHANGED made /\ UNCHANGED queue /\ job[w].stage = "resume"
        /\ Update(w, [job[w] EXCEPT !.stage = "deploy"])
    BY <1>6 DEF Resume, At, Save, Goto
  <2> QED
    BY <1>0, <2>1, Onwards
<1>7. CASE Deploy(w)
  <2>. DEFINE j == [job[w] EXCEPT !.stage = "provision", !.id = made + 1]
  <2>1. UNCHANGED queue /\ made' = made + 1 /\ job[w].stage = "deploy" /\ Update(w, j)
        /\ j.stage = "provision"
    BY <1>7, Locals DEF Deploy, At
  <2>. HIDE DEF j
  <2>2. w \in Owed /\ Owed' = Owed \ {w}
    BY <1>0, <2>1 DEF Owed, Update
  <2>3. Cardinality(Owed') = Cardinality(Owed) - 1
    BY <2>2, Finite, FS_RemoveElement
  <2>4. Approvals' = Approvals
    BY <1>0 DEF Approvals
  <2> QED
    BY <1>0, <2>1, <2>3, <2>4, Finite DEF ApprovalsInv
<1>8. CASE Provision(w) \/ Connect(w) \/ Activate(w) \/ Rollback(w) \/ Finish(w)
  <2>1. UNCHANGED made /\ UNCHANGED queue
    BY <1>8 DEF Provision, Connect, Activate, Rollback, Finish, At, deployments
  <2>2. CASE (\E s \in {"connect", "rollback", "finish", "activate"} : Goto(w, s)) \/ Return(w) \/ Raise(w)
    BY <1>0, <2>1, <2>2, GotoOnwards
  <2>3. CASE \E j : Update(w, j) /\ j.stage \in {"connect", "rollback", "finish"}
    BY <1>0, <2>1, <2>3, Onwards
  <2>. DEFINE a(s, result) == [job[w] EXCEPT !.stage = s, !.attempt = result]
              r == [job[w] EXCEPT !.stage = "rollback", !.poisoned = ~MayInsert(w)]
  <2>4. /\ Provision(w) => Update(w, a("connect", "pending_client_action")) \/ Goto(w, "connect") \/ Goto(w, "rollback")
        /\ Connect(w) => Goto(w, "finish") \/ Goto(w, "activate") \/ Update(w, r)
        /\ Activate(w) => (\E result \in Attempts : Update(w, a("finish", result))) \/ Goto(w, "rollback")
        /\ Rollback(w) => Update(w, a("finish", "rolled_back")) \/ Raise(w)
    BY DEF Provision, Connect, Activate, Rollback, Attempts
  <2>5. (\A s, result : a(s, result).stage = s) /\ r.stage = "rollback"
    <3>. DEFINE refused == ~MayInsert(w)
    <3>1. r = [job[w] EXCEPT !.stage = "rollback", !.poisoned = refused]
      OBVIOUS
    <3>. HIDE DEF refused, r
    <3> QED
      BY <3>1, Locals
  <2>. HIDE DEF a, r
  <2>6. CASE Provision(w)
    BY <2>2, <2>3, <2>4, <2>5, <2>6
  <2>7. CASE Connect(w) \/ Activate(w) \/ Rollback(w)
    BY <2>2, <2>3, <2>4, <2>5, <2>7
  <2>8. CASE Finish(w)
    BY <2>2, <2>8 DEF Finish
  <2> QED
    BY <1>8, <2>6, <2>7, <2>8
<1>9. CASE Lose(w)
  BY <1>0, <1>9, GotoOnwards DEF Lose
<1> QED
  BY <1>1, <1>2, <1>3, <1>4, <1>5, <1>6, <1>7, <1>8, <1>9 DEF WorkerStep

LEMMA CallPays ==
  ASSUME TypeOK, ApprovalsInv,
         \/ CreateCommission
         \/ \E c \in Operators, kind \in {"retry", "approve", "reject"} : ReadBuild(c, kind)
         \/ \E c \in Calls : CallStep(c)
  PROVE  ApprovalsInv'
<1>0. /\ UNCHANGED <<review, made, job>> /\ made \in Nat
      /\ queue \in [{"run", "resume"} -> Nat] /\ Owed' = Owed
      /\ Commission \notin Operators /\ Commission \in Calls /\ Operators \subseteq Calls
      /\ call \in [Calls -> {"idle", "retry", "approve", "reject", "flushed", "approved", "granted",
                             "rejected", "done"}]
  <2>1. UNCHANGED <<fixed, made, job>>
    BY DEF CreateCommission, ReadBuild, CallStep, CommitQueued, RetryEnqueue, ApproveEnqueue,
           ApproveCommit, RejectCommit, RequestFails
  <2> QED
    BY <2>1, PipelineAssumption DEF TypeOK, Owed, Calls, fixed
<1>1. ASSUME NEW c \in Calls, ApproveEnqueue(c) PROVE ApprovalsInv'
  <2>1. /\ call[c] = "approve" /\ call' = [call EXCEPT ![c] = "approved"]
        /\ queue'["resume"] = queue["resume"] + 1
    BY <1>0, <1>1 DEF ApproveEnqueue, Send
  <2>2. c \in Operators /\ c # Commission
    BY <1>0, <2>1 DEF ApprovalsInv, Calls
  <2>3. c \notin Approvals /\ Approvals' = Approvals \cup {c}
    BY <1>0, <2>1, <2>2 DEF Approvals
  <2>4. Cardinality(Approvals') = Cardinality(Approvals) + 1
    BY <2>3, Finite, FS_AddElement
  <2>5. call'[Commission] = call[Commission]
    BY <1>0, <2>1, <2>2
  <2> QED
    BY <1>0, <2>1, <2>4, <2>5, Finite DEF ApprovalsInv
<1>2. ASSUME NEW c \in Calls, NEW place, call' = [call EXCEPT ![c] = place],
             queue'["resume"] = queue["resume"],
             (place \in {"approved", "granted"}) <=> (call[c] \in {"approved", "granted"}),
             c = Commission => place \in {"idle", "flushed", "done"}
      PROVE  ApprovalsInv'
  <2>1. Approvals' = Approvals
    BY <1>0, <1>2 DEF Approvals
  <2>2. call'[Commission] \in {"idle", "flushed", "done"}
    BY <1>0, <1>2 DEF ApprovalsInv
  <2> QED
    BY <1>0, <1>2, <2>1, <2>2, NothingOwed
<1>3. CASE CreateCommission
  BY <1>0, <1>2, <1>3 DEF CreateCommission, Send
<1>4. ASSUME NEW c \in Operators, NEW kind \in {"retry", "approve", "reject"}, ReadBuild(c, kind)
      PROVE  ApprovalsInv'
  BY <1>0, <1>2, <1>4 DEF ReadBuild
<1>5. ASSUME NEW c \in Calls, CallStep(c) PROVE ApprovalsInv'
  <2>0. c = Commission => call[c] \in {"idle", "flushed", "done"}
    BY DEF ApprovalsInv
  <2>1. CASE CommitQueued(c)
    BY <1>2, <2>0, <2>1 DEF CommitQueued
  <2>2. CASE RetryEnqueue(c)
    BY <1>0, <1>2, <2>0, <2>2 DEF RetryEnqueue, Send
  <2>3. CASE ApproveCommit(c)
    BY <1>2, <2>0, <2>3 DEF ApproveCommit
  <2>4. CASE RejectCommit(c)
    BY <1>2, <2>0, <2>4 DEF RejectCommit
  <2>5. CASE RequestFails(c)
    <3>1. PICK place \in {"granted", "done"} :
            /\ call' = [call EXCEPT ![c] = place] /\ (place = "granted") <=> (call[c] = "approved")
      BY <1>0, <2>5 DEF RequestFails
    <3> QED
      BY <1>2, <2>0, <2>5, <3>1 DEF RequestFails
  <2> QED
    BY <1>1, <1>5, <2>1, <2>2, <2>3, <2>4, <2>5 DEF CallStep
<1> QED
  BY <1>3, <1>4, <1>5

(* With human review on there are never more deployments than approvals    *)
(* sent, whatever is retried, rejected, lost or delivered late             *)
(* (pipeline_worker.py's review gate).                                     *)
THEOREM PipelineApprovedOnly == Spec => []ApprovedOnly
<1>1. Init => ApprovalsInv
  <2>1. ASSUME Init PROVE Owed = {} /\ made = 0 /\ queue["resume"] = 0 /\ call[Commission] = "idle"
    BY <2>1 DEF Init, Owed, Idle, NewJob, Calls
  <2> QED
    BY <2>1, FS_EmptySet, Finite DEF ApprovalsInv
<1>2. TypeOK /\ ApprovalsInv /\ [Next]_vars => ApprovalsInv'
  <2>. SUFFICES ASSUME TypeOK, ApprovalsInv, [Next]_vars PROVE ApprovalsInv'
    OBVIOUS
  <2>1. CASE UNCHANGED vars
    BY <2>1 DEF vars, fixed, ApprovalsInv, Owed, Approvals
  <2> QED
    BY <2>1, WorkerPays, CallPays DEF Next
<1>3. TypeOK /\ ApprovalsInv => ApprovedOnly
  <2>. SUFFICES ASSUME TypeOK, ApprovalsInv, review PROVE made <= Cardinality(Approvals)
    BY DEF ApprovedOnly, Approvals
  <2>1. made \in Nat /\ queue["resume"] \in Nat
    BY DEF TypeOK
  <2> QED
    BY <2>1, Finite DEF ApprovalsInv
<1> QED
  BY <1>1, <1>2, <1>3, PipelineTypeOK, PTL DEF Spec
=============================================================================
