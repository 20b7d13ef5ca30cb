---------------------------- MODULE DeploymentOps ----------------------------
(***************************************************************************)
(* One employee deployed in a local container, from the first save of its  *)
(* deployments row on: the worker that activates it, the operators' calls  *)
(* (stop, restart and rollback of the roster, the integrations callback)   *)
(* and the monitor's health sweeps.                                        *)
(*                                                                         *)
(* All of them read the row into a copy of their own, act on the container *)
(* and the copy across awaits, and save the copy: the row is fetched       *)
(* again, and every column in which the copy differs is updated.  No lock  *)
(* or version spans these.                                                 *)
(***************************************************************************)
EXTENDS Naturals

CONSTANTS
  Calls,      \* requests of operators and of the integrations callback
  Sweepers,   \* monitor workers running health_sweep
  Activator,  \* the pipeline worker in _deploy_build
  Tools,      \* tools with an OAuth provider
  MaxFaults   \* bound on docker errors and on workers that never save

Actors == Calls \cup Sweepers \cup {Activator}

ASSUME OpsAssumption ==
  /\ Activator \notin Calls \cup Sweepers
  /\ Calls \cap Sweepers = {}
  /\ MaxFaults \in Nat

VARIABLES
  row,        \* the deployments row
  container,  \* the docker container: "up", "down" or "removed"
  actor,      \* what each actor is doing, and its copy of the row
  faults      \* docker errors and lost workers so far

vars == <<row, container, actor, faults>>

Statuses == {"provisioning", "connecting", "activating", "recovering", "active",
             "pending_client_action", "degraded", "inactive", "rolled_back"}
Links == {"pending", "connected", "failed"}
Stages == {"idle", "stop", "restart", "wait", "rollback", "callback", "check", "activate", "poll",
           "save", "flush", "done"}

(* A row: infra says that infrastructure and access_url name a container;  *)
(* links are the integrations of the tools the blueprint uses.             *)
Rows == [ status : Statuses, infra : BOOLEAN, links : UNION {[T -> Links] : T \in SUBSET Tools} ]

NoRow == [ status |-> "rolled_back", infra |-> FALSE, links |-> [t \in {} |-> "pending"] ]

(* An actor: its stage, the status the row had when it was read, the copy, *)
(* and the row as the save fetched it again.                               *)
Actor(stage, copy) == [ stage |-> stage, read |-> copy.status, copy |-> copy, seen |-> NoRow ]

(* The row _deploy_build saves first: the container runs, the integrations *)
(* are initiated.                                                          *)
FirstSave ==
  { [ status |-> IF used = {} THEN "provisioning" ELSE "connecting", infra |-> TRUE,
      links |-> [t \in used |-> "pending"] ] : used \in SUBSET Tools }

Init ==
  /\ row \in FirstSave
  /\ container = "up"
  /\ actor = [a \in Actors |-> IF a = Activator
                               THEN [Actor("activate", row) EXCEPT !.copy.status = "activating"]
                               ELSE Actor("idle", NoRow)]
  /\ faults = 0

-----------------------------------------------------------------------------
At(a, stage) == actor[a].stage = stage

Become(a, x) == actor' = [actor EXCEPT ![a] = x]

(* The copy changes and the actor goes on.                                 *)
Set(a, copy, stage) == Become(a, [actor[a] EXCEPT !.copy = copy, !.stage = stage])

Status(a, status, stage) == Set(a, [actor[a].copy EXCEPT !.status = status], stage)

(* The actor ends, with or without having saved.                           *)
End(a) == Become(a, Actor(IF a \in Sweepers THEN "idle" ELSE "done", NoRow))

Fault == faults < MaxFaults /\ faults' = faults + 1

(* An actor gives up without saving.  When it is the worker nobody settles *)
(* the row in its place, which counts as a fault.                          *)
Quit(a) == End(a) /\ IF a = Activator THEN Fault ELSE UNCHANGED faults

(* What a health probe answers: only a running container whose address the *)
(* copy knows can be healthy, and it may still fail.                       *)
Probe(a, healthy) == healthy => container = "up" /\ actor[a].copy.infra

-----------------------------------------------------------------------------
(* The operators' calls *)

(* stop and restart refuse a row that names no container.                  *)
Accepts(kind) == kind \in {"stop", "restart"} => row.infra

Read(c) ==
  /\ At(c, "idle")
  /\ \E kind \in {"stop", "restart", "rollback", "callback"} :
       Accepts(kind) /\ Become(c, Actor(kind, row))
  /\ UNCHANGED <<row, container, faults>>

(* docker stop fails for a container that is gone, and so does the request. *)
Stop(c) ==
  /\ At(c, "stop")
  /\ IF container = "removed"
     THEN End(c) /\ UNCHANGED container
     ELSE container' = "down" /\ Status(c, "inactive", "save")
  /\ UNCHANGED <<row, faults>>

(* Mutation of Restart: the row is told that the container recovers.       *)
Restart_Saved(c) ==
  /\ At(c, "restart") /\ container # "removed"
  /\ container' = "up" /\ Status(c, "recovering", "wait")
  /\ row' = [actor[c].copy EXCEPT !.status = "recovering"]
  /\ UNCHANGED faults

(* restart_employee starts the container, then waits for its health: the   *)
(* row says nothing of it meanwhile.                                       *)
Restart(c) ==
  /\ At(c, "restart")
  /\ IF container = "removed"
     THEN End(c) /\ UNCHANGED container
     ELSE container' = "up" /\ Status(c, "recovering", "wait")
  /\ UNCHANGED <<row, faults>>

Wait(c) ==
  /\ At(c, "wait")
  /\ \E healthy \in BOOLEAN :
       Probe(c, healthy) /\ Status(c, IF healthy THEN "active" ELSE "degraded", "save")
  /\ UNCHANGED <<row, container, faults>>

(* Mutation of Removed: the container is stopped but not removed.          *)
Removed_Stopped(a) == IF actor[a].copy.infra THEN "down" ELSE container

(* Mutation of Removed: what was stopped before is left alone.             *)
Removed_IfRunning(a) ==
  IF actor[a].copy.infra /\ actor[a].copy.status # "inactive" THEN "removed" ELSE container

(* stop_container stops and removes what the copy names.                   *)
Removed(a) == IF actor[a].copy.infra THEN "removed" ELSE container

(* rollback: docker's errors are ignored; deleting the connections may     *)
(* raise, after the container is gone.                                     *)
Rollback(a) ==
  /\ At(a, "rollback")
  /\ LET done == Set(a, [actor[a].copy EXCEPT !.status = "rolled_back", !.infra = FALSE], "save")
     IN  \/ container' = Removed(a) /\ done /\ UNCHANGED faults
         \/ container' = Removed(a) /\ Quit(a)
         \/ Fault /\ done /\ UNCHANGED container
  /\ UNCHANGED row

(* handle_callback: the integration of the tool becomes connected or       *)
(* failed; the status of the deployment is not looked at.                  *)
Callback(c) ==
  /\ At(c, "callback")
  /\ \E t \in Tools, link \in {"connected", "failed"} :
       Set(c, [actor[c].copy EXCEPT !.links = [u \in DOMAIN @ |-> IF u = t THEN link ELSE @[u]]],
           "save")
  /\ UNCHANGED <<row, container, faults>>

-----------------------------------------------------------------------------
(* The health sweep *)

(* Mutation of Listed: every deployment is swept.                          *)
Listed_All == TRUE

(* list_active_deployments.                                                *)
Listed == row.status = "active"

List(s) ==
  /\ At(s, "idle") /\ Listed
  /\ Become(s, Actor("check", row))
  /\ UNCHANGED <<row, container, faults>>

Check(s) ==
  /\ At(s, "check")
  /\ \E healthy \in BOOLEAN :
       Probe(s, healthy) /\ Status(s, IF healthy THEN "active" ELSE "degraded", "save")
  /\ UNCHANGED <<row, container, faults>>

-----------------------------------------------------------------------------
(* The activation *)

Connected(links) == \A t \in DOMAIN links : links[t] = "connected"

(* activate waits for health, then for the integrations.                   *)
Activate(a) ==
  /\ At(a, "activate")
  /\ \/ Status(a, "degraded", "save")
     \/ Probe(a, TRUE) /\ Status(a, "activating", "poll")
     \/ Status(a, "activating", "rollback")
  /\ UNCHANGED <<row, container, faults>>

(* Composio answers for the integrations that are not connected yet.       *)
Refresh(a) ==
  /\ At(a, "poll")
  /\ \E answered \in SUBSET DOMAIN actor[a].copy.links \ {{}} :
       Set(a, [actor[a].copy EXCEPT !.links =
                [t \in DOMAIN @ |-> IF t \in answered THEN "connected" ELSE @[t]]], "poll")
  /\ UNCHANGED <<row, container, faults>>

(* All are connected, the hour is over, or Composio raises.                *)
EndPolling(a) ==
  /\ At(a, "poll")
  /\ \/ Connected(actor[a].copy.links) /\ Status(a, "active", "save")
     \/ ~Connected(actor[a].copy.links) /\ Status(a, "pending_client_action", "save")
     \/ Status(a, "activating", "rollback")
  /\ UNCHANGED <<row, container, faults>>

-----------------------------------------------------------------------------
(* The saves *)

(* save_deployment: session.get fetches the row, ...                       *)
Fetch(a) ==
  /\ At(a, "save")
  /\ Become(a, [actor[a] EXCEPT !.stage = "flush", !.seen = row])
  /\ UNCHANGED <<row, container, faults>>

Column(new, fetched, now) == IF new = fetched THEN now ELSE new

(* ... and the flush updates the columns in which the copy differs from it. *)
Saved(a) ==
  LET new == actor[a].copy  fetched == actor[a].seen
  IN  [ status |-> Column(new.status, fetched.status, row.status),
        infra  |-> Column(new.infra, fetched.infra, row.infra),
        links  |-> Column(new.links, fetched.links, row.links) ]

Save(a) ==
  /\ At(a, "flush")
  /\ row' = Saved(a)
  /\ End(a)
  /\ UNCHANGED <<container, faults>>

(* A request, a sweep or the worker fails or dies before its save.         *)
Fails(a) ==
  /\ actor[a].stage \notin {"idle", "done"}
  /\ Quit(a)
  /\ UNCHANGED <<row, container>>

(* The employee's process ends.                                            *)
Exits ==
  /\ container = "up" /\ container' = "down"
  /\ UNCHANGED <<row, actor, faults>>

-----------------------------------------------------------------------------
CallStep(c) ==
  \/ Stop(c) \/ Restart(c) \/ Wait(c) \/ Rollback(c) \/ Callback(c)
  \/ Fetch(c) \/ Save(c)

SweepStep(s) == Check(s) \/ Fetch(s) \/ Save(s)

ActivatorStep ==
  \/ Activate(Activator) \/ Refresh(Activator) \/ EndPolling(Activator)
  \/ Rollback(Activator) \/ Fetch(Activator) \/ Save(Activator)

Next ==
  \/ \E c \in Calls : Read(c) \/ CallStep(c)
  \/ \E s \in Sweepers : List(s) \/ SweepStep(s)
  \/ ActivatorStep
  \/ \E a \in Actors : Fails(a)
  \/ Exits

Spec == Init /\ [][Next]_vars

(* A handler, a sweep and an activation that have begun run to their end:  *)
(* each wait has a timeout.  Nothing makes a sweep begin: no schedule in   *)
(* the code sends health_sweep.                                            *)
Fairness ==
  /\ \A c \in Calls : WF_vars(CallStep(c))
  /\ \A s \in Sweepers : WF_vars(SweepStep(s))
  /\ WF_vars(ActivatorStep)

FairSpec == Spec /\ Fairness

-----------------------------------------------------------------------------
(* Properties *)

(* Activating and recovering are statuses of copies only.                  *)
TypeOK ==
  /\ row \in Rows /\ row.status \notin {"activating", "recovering"}
  /\ container \in {"up", "down", "removed"}
  /\ actor \in [Actors -> [stage : Stages, read : Statuses, copy : Rows, seen : Rows]]
  /\ faults \in 0..MaxFaults

(* FORGE_TEST_PLAN.md section 8: a row that says rolled back stands for a  *)
(* container that is gone, whoever wrote it last (save for docker errors). *)
RolledBackIsGone == faults = 0 /\ row.status = "rolled_back" => container = "removed"

(* A container that is still there is named by the row, so that stop and   *)
(* rollback can reach it, although late saves mix columns of several       *)
(* copies (save for docker errors).                                        *)
ContainerIsNamed == faults = 0 /\ container # "removed" => row.infra

(* A sweep or an activation that began after a deployment was stopped or   *)
(* rolled back does not change its status: only calls do, and writers that *)
(* had read the row before.                                                *)
SettledStays ==
  [][row.status \in {"inactive", "rolled_back"} /\ row'.status # row.status
       => \E a \in Actors : /\ At(a, "flush") /\ row'.status = actor[a].copy.status
                            /\ actor[a].read # row.status \/ a \in Calls]_row
=============================================================================
