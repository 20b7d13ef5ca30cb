------------------------ MODULE DeploymentOps_proofs ------------------------
(***************************************************************************)
(* For any number of calls, sweeps and tools: the types, that a rolled-    *)
(* back container is gone, that one still there is named by the row, and   *)
(* who may change the status of a settled row.                             *)
(***************************************************************************)
EXTENDS DeploymentOps, TLAPS

(* The row and every copy of it are such that each column can be saved,    *)
(* however late: one that says rolled back or names no container is right, *)
(* the container is gone for good.                                         *)
Sound(r, c, f) == f = 0 /\ (r.status = "rolled_back" \/ ~r.infra) => c = "removed"

InMemory == {"activating", "recovering"}

CopyInv(x, c, f) ==
  x.stage \notin {"idle", "done"} =>
    /\ Sound(x.copy, c, f)
    /\ x.stage \in {"save", "flush", "callback"} => x.copy.status \notin InMemory

Inv ==
  /\ TypeOK
  /\ Sound(row, container, faults)
  /\ \A a \in Actors : CopyInv(actor[a], container, faults)

Locals == [stage : Stages, read : Statuses, copy : Rows, seen : Rows]

(* A container that is gone stays gone and faults are not forgotten.       *)
Monotone ==
  /\ container = "removed" => container' = "removed"
  /\ faults' = 0 => faults = 0
  /\ container' \in {"up", "down", "removed"} /\ faults' \in 0..MaxFaults

-----------------------------------------------------------------------------
(* A record of a row with another status, infrastructure or links is a row. *)
LEMMA RowTypes ==
  ASSUME NEW r \in Rows, NEW status \in Statuses
  PROVE  /\ [r EXCEPT !.status = status] \in Rows
         /\ [r EXCEPT !.status = status, !.infra = FALSE] \in Rows
         /\ \A links \in [DOMAIN r.links -> Links] : [r EXCEPT !.links = links] \in Rows
<1>1. [r EXCEPT !.status = status] \in Rows /\ [r EXCEPT !.status = status, !.infra = FALSE] \in Rows
  BY DEF Rows
<1>2. PICK T \in SUBSET Tools : r.links \in [T -> Links]
  BY DEF Rows
<1>3. ASSUME NEW links \in [DOMAIN r.links -> Links]
      PROVE  [r EXCEPT !.links = links] \in Rows
  <2>1. links \in [T -> Links]
    BY <1>2
  <2>2. links \in UNION {[U -> Links] : U \in SUBSET Tools}
    BY <2>1
  <2> QED
    BY <2>2 DEF Rows
<1> QED
  BY <1>1, <1>3

(* The row of an actor that has none.                                      *)
LEMMA NoRowTypes == NoRow \in Rows
<1>1. [t \in {} |-> "pending"] \in [{} -> Links] /\ {} \in SUBSET Tools
  OBVIOUS
<1>2. [t \in {} |-> "pending"] \in UNION {[T -> Links] : T \in SUBSET Tools}
  BY <1>1
<1> QED
  BY <1>2 DEF NoRow, Rows, Statuses

(* A step of one actor: it is enough to look at its own locals and at the  *)
(* row it may have saved.                                                  *)
LEMMA ActorStep ==
  ASSUME Inv, Monotone, NEW a \in Actors, NEW x \in Locals, Become(a, x),
         CopyInv(x, container', faults'),
         \/ row' = row
         \/ /\ row' \in Rows /\ row'.status \notin InMemory
            /\ Sound(row', container', faults')
  PROVE  Inv'
<1>1. \A b \in Actors : actor'[b] = IF b = a THEN x ELSE actor[b]
  BY DEF Become, Inv, TypeOK
<1>2. actor' \in [Actors -> Locals]
  BY DEF Become, Inv, TypeOK, Locals
<1>3. TypeOK'
  BY <1>2 DEF Inv, TypeOK, Monotone, Locals, InMemory
<1>4. \A r : Sound(r, container, faults) => Sound(r, container', faults')
  BY DEF Sound, Monotone
<1>5. \A y : CopyInv(y, container, faults) => CopyInv(y, container', faults')
  BY <1>4 DEF CopyInv
<1>6. \A b \in Actors : CopyInv(actor'[b], container', faults')
  BY <1>1, <1>5 DEF Inv
<1>7. Sound(row', container', faults')
  BY <1>4 DEF Inv
<1> QED
  BY <1>3, <1>6, <1>7 DEF Inv

(* The locals of every actor have their types; ending is always sound.     *)
LEMMA Ends ==
  ASSUME Inv, Monotone, NEW a \in Actors, End(a),
         \/ row' = row
         \/ /\ row' \in Rows /\ row'.status \notin InMemory
            /\ Sound(row', container', faults')
  PROVE  Inv'
<1> DEFINE x == Actor(IF a \in Sweepers THEN "idle" ELSE "done", NoRow)
<1>1. NoRow \in Rows
  BY NoRowTypes
<1>2. x \in Locals /\ x.stage \in {"idle", "done"}
  BY <1>1 DEF Locals, Actor, Stages, NoRow, Statuses
<1>3. CopyInv(x, container', faults')
  BY <1>2 DEF CopyInv
<1>4. Become(a, x)
  BY DEF End
<1> QED
  <2> HIDE DEF x
  <2> QED
    BY <1>2, <1>3, <1>4, ActorStep

(* An actor that goes on with a changed copy.                              *)
LEMMA GoesOn ==
  ASSUME Inv, Monotone, NEW a \in Actors, NEW copy \in Rows, NEW stage \in Stages,
         Set(a, copy, stage), UNCHANGED row,
         Sound(copy, container', faults'),
         stage \in {"save", "flush", "callback"} => copy.status \notin InMemory
  PROVE  Inv'
<1> DEFINE x == [actor[a] EXCEPT !.copy = copy, !.stage = stage]
<1>1. actor[a] \in Locals
  BY DEF Inv, TypeOK, Locals
<1>2. x \in Locals /\ x.copy = copy /\ x.stage = stage
  BY <1>1 DEF Locals
<1>3. Become(a, x)
  BY DEF Set
<1> HIDE DEF x
<1>4. CopyInv(x, container', faults')
  BY <1>2 DEF CopyInv
<1> QED
  BY <1>2, <1>3, <1>4, ActorStep

(* An actor that reads the row.                                            *)
LEMMA Reads ==
  ASSUME Inv, NEW a \in Actors, NEW stage \in Stages \ {"wait", "activate", "poll", "save", "flush"},
         Become(a, Actor(stage, row)), UNCHANGED <<row, container, faults>>
  PROVE  Inv'
<1> DEFINE x == Actor(stage, row)
<1>1. x \in Locals /\ x.stage = stage /\ x.copy = row
  BY NoRowTypes DEF Locals, Actor, Inv, TypeOK, Rows
<1>2. Monotone
  BY DEF Monotone, Inv, TypeOK
<1>3. Become(a, x)
  OBVIOUS
<1>4. row.status \notin InMemory /\ Sound(row, container', faults')
  BY DEF Inv, TypeOK, InMemory
<1> HIDE DEF x
<1>5. CopyInv(x, container', faults')
  BY <1>1, <1>4 DEF CopyInv
<1> QED
  BY <1>1, <1>2, <1>3, <1>5, ActorStep

(* What the invariant says of one actor.                                   *)
LEMMA OfActor ==
  ASSUME Inv, NEW a \in Actors
  PROVE  /\ actor[a] \in Locals /\ actor[a].copy \in Rows
         /\ CopyInv(actor[a], container, faults)
         /\ container \in {"up", "down", "removed"} /\ faults \in 0..MaxFaults /\ row \in Rows
BY DEF Inv, TypeOK, Locals

(* An actor that gives up, possibly after the container is gone.           *)
LEMMA Quits ==
  ASSUME Inv, NEW a \in Actors, Quit(a), UNCHANGED row,
         container' = container \/ container' = "removed"
  PROVE  Inv'
<1>1. Monotone
  BY OpsAssumption, OfActor DEF Quit, Fault, Monotone
<1> QED
  BY <1>1, Ends DEF Quit

(* A status other than rolled back, on whatever copy.                      *)
LEMMA StatusSet ==
  ASSUME Inv, Monotone, NEW a \in Actors, NEW status \in Statuses \ {"rolled_back"},
         NEW stage \in Stages, Status(a, status, stage), UNCHANGED row,
         actor[a].stage \notin {"idle", "done"},
         stage \in {"save", "flush", "callback"} => status \notin InMemory
  PROVE  Inv'
<1> DEFINE copy == [actor[a].copy EXCEPT !.status = status]
<1>1. copy \in Rows
  BY OfActor, RowTypes
<1>2. copy.status = status /\ copy.infra = actor[a].copy.infra
  BY OfActor DEF Rows
<1>3. Set(a, copy, stage)
  BY DEF Status
<1> HIDE DEF copy
<1>4. Sound(copy, container', faults')
  BY <1>2, OfActor DEF Sound, CopyInv, Monotone
<1> QED
  BY <1>1, <1>2, <1>3, <1>4, GoesOn

-----------------------------------------------------------------------------
(* The actions *)

(* Names of the stages and statuses.                                       *)
LEMMA Names ==
  /\ {"idle", "stop", "restart", "wait", "rollback", "callback", "check", "activate", "poll",
      "save", "flush", "done"} \subseteq Stages
  /\ {"activating", "recovering", "active", "pending_client_action", "degraded", "inactive"}
       \subseteq Statuses \ {"rolled_back"}
  /\ "rolled_back" \in Statuses
BY DEF Stages, Statuses

(* A request reads the row.                                                *)
LEMMA ReadStep ==
  ASSUME Inv, NEW c \in Calls, Read(c)
  PROVE  Inv'
<1>1. PICK kind \in {"stop", "restart", "rollback", "callback"} :
        Accepts(kind) /\ Become(c, Actor(kind, row))
  BY DEF Read
<1>2. kind \in Stages \ {"wait", "activate", "poll", "save", "flush"} /\ c \in Actors
  BY <1>1, Names DEF Actors
<1>3. UNCHANGED <<row, container, faults>>
  BY DEF Read
<1> QED
  BY <1>1, <1>2, <1>3, Reads

(* A sweep reads the row.                                                  *)
LEMMA ListStep ==
  ASSUME Inv, NEW s \in Sweepers, List(s)
  PROVE  Inv'
<1>1. "check" \in Stages \ {"wait", "activate", "poll", "save", "flush"} /\ s \in Actors
  BY Names DEF Actors
<1> QED
  BY <1>1, Reads DEF List

(* Stop and restart mark their copy, unless the container is gone.         *)
LEMMA DockerStep ==
  ASSUME Inv, NEW c \in Calls, Stop(c) \/ Restart(c)
  PROVE  Inv'
<1>1. c \in Actors /\ actor[c].stage \notin {"idle", "done"} /\ UNCHANGED row
  BY DEF Actors, Stop, Restart, At
<1>2. Monotone
  BY <1>1, OfActor DEF Stop, Restart, Monotone
<1>3. CASE End(c)
  BY <1>1, <1>2, <1>3, Ends
<1>4. CASE Status(c, "inactive", "save") \/ Status(c, "recovering", "wait")
  BY <1>1, <1>2, <1>4, StatusSet, Names DEF InMemory
<1> QED
  BY <1>3, <1>4 DEF Stop, Restart

(* A health probe marks a copy active or degraded.                         *)
LEMMA ProbeStep ==
  ASSUME Inv, NEW a \in Actors, Wait(a) \/ Check(a)
  PROVE  Inv'
<1>1. actor[a].stage \notin {"idle", "done"} /\ UNCHANGED <<row, container, faults>>
  BY DEF Wait, Check, At
<1>2. Monotone
  BY <1>1, OfActor DEF Monotone
<1>3. Status(a, "active", "save") \/ Status(a, "degraded", "save")
  BY DEF Wait, Check
<1> QED
  BY <1>1, <1>2, <1>3, StatusSet, Names DEF InMemory

(* The activation ends active, degraded, waiting for the client or rolled back. *)
LEMMA ActivationStep ==
  ASSUME Inv, NEW a \in Actors, Activate(a) \/ EndPolling(a)
  PROVE  Inv'
<1>1. actor[a].stage \notin {"idle", "done"} /\ UNCHANGED <<row, container, faults>>
  BY DEF Activate, EndPolling, At
<1>2. Monotone
  BY <1>1, OfActor DEF Monotone
<1>3. \/ Status(a, "degraded", "save") \/ Status(a, "active", "save")
      \/ Status(a, "pending_client_action", "save")
      \/ Status(a, "activating", "poll") \/ Status(a, "activating", "rollback")
  BY DEF Activate, EndPolling
<1> QED
  BY <1>1, <1>2, <1>3, StatusSet, Names DEF InMemory

(* Whatever the rollback does, the copy it leaves tells the truth.         *)
LEMMA RollbackStep ==
  ASSUME Inv, NEW a \in Actors, Rollback(a)
  PROVE  Inv'
<1> DEFINE copy == [actor[a].copy EXCEPT !.status = "rolled_back", !.infra = FALSE]
<1>1. UNCHANGED row /\ Sound(actor[a].copy, container, faults)
  BY OfActor DEF Rollback, At, CopyInv
<1>2. CASE container' = Removed(a) /\ Quit(a)
  BY <1>1, <1>2, Quits DEF Removed
<1>3. CASE /\ Set(a, copy, "save")
           /\ \/ container' = Removed(a) /\ UNCHANGED faults
              \/ Fault /\ UNCHANGED container
  <2>1. copy \in Rows /\ copy.status = "rolled_back" /\ ~copy.infra
    BY OfActor, RowTypes, Names DEF Rows
  <2>2. Monotone
    BY <1>3, OpsAssumption, OfActor DEF Monotone, Removed, Fault
  <2>3. faults' = 0 => container' = "removed"
    BY <1>1, <1>3, OpsAssumption, OfActor DEF Removed, Fault, Sound, Rows
  <2>4. Sound(copy, container', faults')
    BY <2>1, <2>3 DEF Sound
  <2> HIDE DEF copy
  <2> QED
    BY <1>1, <1>3, <2>1, <2>2, <2>4, GoesOn, Names DEF InMemory
<1> QED
  BY <1>2, <1>3 DEF Rollback

(* The integrations of a copy change; its status and container do not.     *)
LEMMA LinksSet ==
  ASSUME Inv, NEW a \in Actors, UNCHANGED <<row, container, faults>>,
         NEW links \in [DOMAIN actor[a].copy.links -> Links],
         NEW stage \in {"save", "poll"},
         Set(a, [actor[a].copy EXCEPT !.links = links], stage),
         actor[a].stage \in {"callback", "poll"},
         stage = "poll" <=> actor[a].stage = "poll"
  PROVE  Inv'
<1> DEFINE copy == [actor[a].copy EXCEPT !.links = links]
<1>1. Monotone
  BY OfActor DEF Monotone
<1>2. copy \in Rows
  <2>1. actor[a].copy.status \in Statuses
    BY OfActor DEF Rows
  <2> QED
    BY <2>1, OfActor, RowTypes
<1>3. copy.status = actor[a].copy.status /\ copy.infra = actor[a].copy.infra
  BY OfActor DEF Rows
<1>4. Set(a, copy, stage) /\ stage \in Stages
  BY Names
<1> HIDE DEF copy
<1>5. Sound(copy, container', faults')
  BY <1>3, OfActor DEF Sound, CopyInv
<1> QED
  BY <1>1, <1>2, <1>3, <1>4, <1>5, OfActor, GoesOn DEF CopyInv

(* The callback looks at the integrations only.                            *)
LEMMA CallbackStep ==
  ASSUME Inv, NEW a \in Actors, Callback(a)
  PROVE  Inv'
<1>1. PICK t \in Tools, link \in {"connected", "failed"} :
        Set(a, [actor[a].copy EXCEPT !.links =
                 [u \in DOMAIN @ |-> IF u = t THEN link ELSE @[u]]], "save")
  BY DEF Callback
<1> DEFINE links == [u \in DOMAIN actor[a].copy.links |->
                       IF u = t THEN link ELSE actor[a].copy.links[u]]
<1>2. actor[a].copy.links \in [DOMAIN actor[a].copy.links -> Links]
  BY OfActor DEF Rows
<1>3. links \in [DOMAIN actor[a].copy.links -> Links]
  BY <1>2 DEF Links
<1>4. Set(a, [actor[a].copy EXCEPT !.links = links], "save")
  BY <1>1
<1> HIDE DEF links
<1> QED
  BY <1>3, <1>4, LinksSet DEF Callback, At

(* So does the poll of the activation.                                     *)
LEMMA RefreshStep ==
  ASSUME Inv, NEW a \in Actors, Refresh(a)
  PROVE  Inv'
<1>1. PICK answered \in SUBSET DOMAIN actor[a].copy.links \ {{}} :
        Set(a, [actor[a].copy EXCEPT !.links =
                 [t \in DOMAIN @ |-> IF t \in answered THEN "connected" ELSE @[t]]], "poll")
  BY DEF Refresh
<1> DEFINE links == [t \in DOMAIN actor[a].copy.links |->
                       IF t \in answered THEN "connected" ELSE actor[a].copy.links[t]]
<1>2. actor[a].copy.links \in [DOMAIN actor[a].copy.links -> Links]
  BY OfActor DEF Rows
<1>3. links \in [DOMAIN actor[a].copy.links -> Links]
  BY <1>2 DEF Links
<1>4. Set(a, [actor[a].copy EXCEPT !.links = links], "poll")
  BY <1>1
<1> HIDE DEF links
<1> QED
  BY <1>3, <1>4, LinksSet DEF Refresh, At

(* Fetching the row changes neither the row nor the copy.                  *)
LEMMA FetchStep ==
  ASSUME Inv, NEW a \in Actors, Fetch(a)
  PROVE  Inv'
<1> DEFINE x == [actor[a] EXCEPT !.stage = "flush", !.seen = row]
<1>1. x \in Locals /\ x.stage = "flush" /\ x.copy = actor[a].copy
  BY OfActor, Names DEF Locals
<1>2. Monotone /\ UNCHANGED <<row, container, faults>> /\ actor[a].stage = "save"
  BY OfActor DEF Fetch, Monotone, At
<1>3. Become(a, x)
  BY DEF Fetch
<1> HIDE DEF x
<1>4. CopyInv(x, container', faults')
  BY <1>1, <1>2, OfActor DEF CopyInv
<1> QED
  BY <1>1, <1>2, <1>3, <1>4, ActorStep

(* Every column saved is the copy's or the row's, and both are sound.      *)
LEMMA SaveStep ==
  ASSUME Inv, NEW a \in Actors, Save(a)
  PROVE  Inv'
<1>1. Monotone /\ UNCHANGED <<container, faults>>
  BY OfActor DEF Save, Monotone
<1>2. /\ row'.status \in {row.status, actor[a].copy.status}
      /\ row'.infra \in {row.infra, actor[a].copy.infra}
      /\ row' \in Rows
  BY OfActor DEF Save, Saved, Column, Rows
<1>3. row'.status \notin InMemory
  BY <1>2, OfActor DEF Save, At, CopyInv, Inv, TypeOK, InMemory
<1>4. Sound(row', container', faults')
  BY <1>1, <1>2, OfActor DEF Save, At, CopyInv, Inv, Sound
<1> QED
  BY <1>1, <1>2, <1>3, <1>4, Ends DEF Save

(* An actor that dies or raises leaves its copy unsaved.                   *)
LEMMA FailsStep ==
  ASSUME Inv, NEW a \in Actors, Fails(a)
  PROVE  Inv'
BY Quits DEF Fails

(* The container's end takes nothing back that was removed.                *)
LEMMA ExitsStep ==
  ASSUME Inv, Exits
  PROVE  Inv'
BY DEF Exits, Inv, TypeOK, Sound, CopyInv

-----------------------------------------------------------------------------
(* The theorems *)

(* The row that _deploy_build saves first is sound.                        *)
LEMMA InvInit == Init => Inv
<1> SUFFICES ASSUME Init PROVE Inv
  OBVIOUS
<1>1. PICK used \in SUBSET Tools :
        row = [ status |-> IF used = {} THEN "provisioning" ELSE "connecting", infra |-> TRUE,
                links |-> [t \in used |-> "pending"] ]
  BY DEF Init, FirstSave
<1>2. row \in Rows /\ row.infra /\ row.status \in {"provisioning", "connecting"}
  <2>1. [t \in used |-> "pending"] \in UNION {[T -> Links] : T \in SUBSET Tools}
    <3>1. [t \in used |-> "pending"] \in [used -> Links]
      BY DEF Links
    <3> QED
      BY <3>1
  <2> QED
    BY <1>1, <2>1 DEF Rows, Statuses
<1>3. NoRow \in Rows
  BY NoRowTypes
<1> DEFINE first == [Actor("activate", row) EXCEPT !.copy.status = "activating"]
           idle == Actor("idle", NoRow)
<1>4. /\ first \in Locals /\ first.stage = "activate" /\ first.copy.infra
      /\ first.copy.status = "activating"
  <2>1. [row EXCEPT !.status = "activating"] \in Rows
    BY <1>2, RowTypes, Names
  <2>2. first = [stage |-> "activate", read |-> row.status,
                 copy |-> [row EXCEPT !.status = "activating"], seen |-> NoRow]
    BY DEF Actor
  <2> QED
    BY <1>2, <1>3, <2>1, <2>2, Names DEF Locals, Rows
<1>5. idle \in Locals /\ idle.stage = "idle"
  BY <1>3, Names DEF Locals, Actor, NoRow
<1>6. actor = [a \in Actors |-> IF a = Activator THEN first ELSE idle]
  BY DEF Init
<1> HIDE DEF first, idle
<1>7. CopyInv(first, container, faults) /\ CopyInv(idle, container, faults)
  BY <1>4, <1>5 DEF CopyInv, Sound
<1>8. actor \in [Actors -> Locals] /\ \A a \in Actors : CopyInv(actor[a], container, faults)
  BY <1>4, <1>5, <1>6, <1>7
<1> QED
  BY <1>2, <1>8, OpsAssumption DEF Inv, TypeOK, Sound, Init, Locals

(* Every step of every actor and of the container preserves the invariant. *)
LEMMA InvStep == Inv /\ [Next]_vars => Inv'
<1> SUFFICES ASSUME Inv, [Next]_vars PROVE Inv'
  OBVIOUS
<1>1. CASE UNCHANGED vars
  BY <1>1 DEF vars, Inv, TypeOK, Sound, CopyInv
<1>2. ASSUME NEW c \in Calls, Read(c) \/ CallStep(c)
      PROVE  Inv'
  <2>1. c \in Actors
    BY DEF Actors
  <2> QED
    BY <1>2, <2>1, ReadStep, DockerStep, ProbeStep, RollbackStep, CallbackStep, FetchStep,
       SaveStep
       DEF CallStep
<1>3. ASSUME NEW s \in Sweepers, List(s) \/ SweepStep(s)
      PROVE  Inv'
  <2>1. s \in Actors
    BY DEF Actors
  <2> QED
    BY <1>3, <2>1, ListStep, ProbeStep, FetchStep, SaveStep DEF SweepStep
<1>4. CASE ActivatorStep
  <2>1. Activator \in Actors
    BY DEF Actors
  <2> QED
    BY <1>4, <2>1, ActivationStep, RefreshStep, RollbackStep, FetchStep, SaveStep DEF ActivatorStep
<1>5. ASSUME NEW a \in Actors, Fails(a)
      PROVE  Inv'
  BY <1>5, FailsStep
<1>6. CASE Exits
  BY <1>6, ExitsStep
<1> QED
  BY <1>1, <1>2, <1>3, <1>4, <1>5, <1>6 DEF Next

(* The row and every copy in flight are sound at all times.                *)
THEOREM OpsInv == Spec => []Inv
  BY InvInit, InvStep, PTL DEF Spec

(* Types, and that activating and recovering are never saved.              *)
THEOREM OpsTypeOK == Spec => []TypeOK
<1>1. Inv => TypeOK
  BY DEF Inv
<1> QED
  BY <1>1, OpsInv, PTL

(* A row that says rolled back stands for a container that is gone.        *)
THEOREM OpsRolledBackIsGone == Spec => []RolledBackIsGone
<1>1. Inv => RolledBackIsGone
  BY DEF Inv, Sound, RolledBackIsGone
<1> QED
  BY <1>1, OpsInv, PTL

(* A container that is still there is named by the row.                    *)
THEOREM OpsContainerIsNamed == Spec => []ContainerIsNamed
<1>1. Inv => ContainerIsNamed
  BY DEF Inv, TypeOK, Rows, Sound, ContainerIsNamed
<1> QED
  BY <1>1, OpsInv, PTL

-----------------------------------------------------------------------------
(* Who may change a settled row *)

(* What an actor at work has read: a sweep an active row, the activation   *)
(* the row it saved itself.                                                *)
ReaderInv(a, x) ==
  x.stage \notin {"idle", "done"} =>
    /\ a \in Sweepers => x.read = "active"
    /\ a = Activator => x.read \in {"provisioning", "connecting"}

ReadersInv == \A a \in Actors : ReaderInv(a, actor[a])

(* It is enough to look at the actor that moves.                           *)
LEMMA ReaderStep ==
  ASSUME Inv, ReadersInv, NEW a \in Actors, NEW x, Become(a, x), ReaderInv(a, x)
  PROVE  ReadersInv'
<1>1. \A b \in Actors : actor'[b] = IF b = a THEN x ELSE actor[b]
  BY DEF Become, Inv, TypeOK
<1> QED
  BY <1>1 DEF ReadersInv

(* Going on keeps what was read.                                           *)
LEMMA ReaderGoesOn ==
  ASSUME Inv, ReadersInv, NEW a \in Actors, NEW x, Become(a, x), x.read = actor[a].read,
         actor[a].stage \notin {"idle", "done"}
  PROVE  ReadersInv'
BY ReaderStep DEF ReaderInv, ReadersInv

(* A changed copy is going on.                                             *)
LEMMA ReaderSets ==
  ASSUME Inv, ReadersInv, NEW a \in Actors, NEW copy, NEW stage, Set(a, copy, stage),
         actor[a].stage \notin {"idle", "done"}
  PROVE  ReadersInv'
<1> DEFINE x == [actor[a] EXCEPT !.copy = copy, !.stage = stage]
<1>1. x.read = actor[a].read
  BY OfActor DEF Locals
<1>2. Become(a, x)
  BY DEF Set
<1> HIDE DEF x
<1> QED
  BY <1>1, <1>2, ReaderGoesOn

(* And ending forgets it.                                                  *)
LEMMA ReaderEnds ==
  ASSUME Inv, ReadersInv, NEW a \in Actors, End(a)
  PROVE  ReadersInv'
<1> DEFINE x == Actor(IF a \in Sweepers THEN "idle" ELSE "done", NoRow)
<1>1. x.stage \in {"idle", "done"} /\ Become(a, x)
  BY DEF Actor, End
<1> HIDE DEF x
<1> QED
  BY <1>1, ReaderStep DEF ReaderInv

(* Every step keeps the readers' invariant.                                *)
LEMMA ReadersStep == Inv /\ ReadersInv /\ [Next]_vars => ReadersInv'
<1> SUFFICES ASSUME Inv, ReadersInv, [Next]_vars PROVE ReadersInv'
  OBVIOUS
<1>1. CASE UNCHANGED vars
  BY <1>1 DEF vars, ReadersInv
<1>2. ASSUME NEW c \in Calls, Read(c)
      PROVE  ReadersInv'
  <2>1. PICK kind \in {"stop", "restart", "rollback", "callback"} :
          Accepts(kind) /\ Become(c, Actor(kind, row))
    BY <1>2 DEF Read
  <2>2. c \in Actors /\ c \notin Sweepers /\ c # Activator
    BY OpsAssumption DEF Actors
  <2> QED
    BY <2>1, <2>2, ReaderStep DEF ReaderInv
<1>3. ASSUME NEW s \in Sweepers, List(s)
      PROVE  ReadersInv'
  <2>1. s \in Actors /\ s # Activator
    BY OpsAssumption DEF Actors
  <2>2. ReaderInv(s, Actor("check", row)) /\ Become(s, Actor("check", row))
    BY <1>3, <2>1 DEF ReaderInv, Actor, List, Listed
  <2> QED
    BY <2>1, <2>2, ReaderStep
<1>4. ASSUME NEW a \in Actors, \/ Stop(a) \/ Restart(a) \/ Wait(a) \/ Check(a) \/ Activate(a)
                               \/ EndPolling(a) \/ Rollback(a) \/ Callback(a) \/ Refresh(a)
      PROVE  ReadersInv'
  <2>1. actor[a].stage \notin {"idle", "done"}
    BY <1>4 DEF Stop, Restart, Wait, Check, Activate, EndPolling, Rollback, Callback, Refresh, At
  <2>2. ASSUME NEW copy, NEW stage, Set(a, copy, stage)
        PROVE  ReadersInv'
    BY <2>1, <2>2, ReaderSets
  <2>3. ASSUME NEW status, NEW stage, Status(a, status, stage)
        PROVE  ReadersInv'
    BY <2>2, <2>3 DEF Status
  <2>4. CASE End(a) \/ Quit(a)
    BY <2>4, ReaderEnds DEF Quit
  <2>5. CASE Rollback(a)
    BY <2>2, <2>4, <2>5 DEF Rollback
  <2>6. CASE Callback(a) \/ Refresh(a)
    BY <2>2, <2>6 DEF Callback, Refresh
  <2> QED
    BY <1>4, <2>3, <2>4, <2>5, <2>6 DEF Stop, Restart, Wait, Check, Activate, EndPolling
<1>5. ASSUME NEW a \in Actors, Fetch(a)
      PROVE  ReadersInv'
  <2> DEFINE x == [actor[a] EXCEPT !.stage = "flush", !.seen = row]
  <2>1. x.read = actor[a].read
    BY OfActor DEF Locals
  <2>2. Become(a, x) /\ actor[a].stage \notin {"idle", "done"}
    BY <1>5 DEF Fetch, At
  <2> HIDE DEF x
  <2> QED
    BY <2>1, <2>2, ReaderGoesOn
<1>6. ASSUME NEW a \in Actors, Save(a) \/ Fails(a)
      PROVE  ReadersInv'
  BY <1>6, ReaderEnds DEF Save, Fails, Quit
<1>7. CASE Exits
  BY <1>7 DEF Exits, ReadersInv
<1> QED
  BY <1>1, <1>2, <1>3, <1>4, <1>5, <1>6, <1>7
     DEF Next, CallStep, SweepStep, ActivatorStep, Actors

(* A stopped or rolled-back deployment changes its status only by a call   *)
(* or by a writer with an older copy: no sweep that begins later does.     *)
THEOREM OpsSettledStays == Spec => SettledStays
<1>1. Init => ReadersInv
  <2> SUFFICES ASSUME Init, NEW a \in Actors PROVE ReaderInv(a, actor[a])
    BY DEF ReadersInv
  <2>1. row.status \in {"provisioning", "connecting"}
    BY DEF Init, FirstSave
  <2>2. CASE a = Activator
    <3>1. actor[a].read = row.status
      BY <2>2 DEF Init, Actor
    <3> QED
      BY <2>1, <2>2, <3>1, OpsAssumption DEF ReaderInv
  <2>3. CASE a # Activator
    <3>1. actor[a].stage = "idle"
      BY <2>3 DEF Init, Actor
    <3> QED
      BY <3>1 DEF ReaderInv
  <2> QED
    BY <2>2, <2>3
<1>2. Inv /\ ReadersInv /\ [Next]_vars
        => [row.status \in {"inactive", "rolled_back"} /\ row'.status # row.status
             => \E a \in Actors : /\ At(a, "flush") /\ row'.status = actor[a].copy.status
                                  /\ actor[a].read # row.status \/ a \in Calls]_row
  <2> SUFFICES ASSUME Inv, ReadersInv, [Next]_vars, row.status \in {"inactive", "rolled_back"},
                      row'.status # row.status
               PROVE  \E a \in Actors : /\ At(a, "flush") /\ row'.status = actor[a].copy.status
                                        /\ actor[a].read # row.status \/ a \in Calls
    OBVIOUS
  <2>1. PICK a \in Actors : Save(a)
    <3>1. \A b \in Actors : Stop(b) \/ Restart(b) \/ Wait(b) \/ Rollback(b) \/ Callback(b)
                             \/ Check(b) \/ Activate(b) \/ Refresh(b) \/ EndPolling(b) \/ Fails(b)
                             \/ Read(b) \/ List(b) \/ Fetch(b) => UNCHANGED row
      BY DEF Stop, Restart, Wait, Rollback, Callback, Check, Activate, Refresh, EndPolling, Fails,
             Read, List, Fetch
    <3>2. Exits \/ UNCHANGED vars => UNCHANGED row
      BY DEF Exits, vars
    <3> QED
      BY <3>1, <3>2 DEF Next, CallStep, SweepStep, ActivatorStep, Actors
  <2>2. At(a, "flush") /\ row'.status = actor[a].copy.status
    BY <2>1 DEF Save, Saved, Column
  <2>3. ReaderInv(a, actor[a])
    BY DEF ReadersInv
  <2>4. actor[a].read # row.status \/ a \in Calls
    BY <2>2, <2>3 DEF ReaderInv, At, Actors
  <2> QED
    BY <2>2, <2>4
<1> QED
  BY <1>1, <1>2, ReadersStep, OpsInv, PTL DEF Spec, SettledStays
=============================================================================
