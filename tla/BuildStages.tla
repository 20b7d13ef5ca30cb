------------------------------ MODULE BuildStages ------------------------------
(***************************************************************************)
(* One build of one commission from the inside of its stages: the          *)
(* architect's blueprint, the build directory, the generator's             *)
(* conversation with a model, the Docker image and its exports, and the    *)
(* container the evaluator runs.  BuildPipeline has the races around a     *)
(* build; here one task runs at a time, and a failed build may be retried. *)
(***************************************************************************)
EXTENDS Architect, ModelRouting, Evaluation

CONSTANTS
  Requirements,   \* the requirements documents of the clients
  ComponentLists, \* what a model may propose; {} when none answers
  Conducts,       \* what the suites may observe of a packaged employee
  Routers,        \* the generator's clients: [router, key: an Anthropic key is set]
  MaxIter,        \* max_generation_iterations
  MaxTasks        \* bound on the tasks of the build: the first and its retries

ASSUME StagesAssumption ==
  /\ MaxIter \in Nat \ {0} /\ MaxTasks \in Nat \ {0}
  /\ \A r \in Requirements : r.tools \subseteq Tools

VARIABLES
  client,     \* the order and the factory's settings: [req, router, key, format]
  at,         \* where the task is: [stage, left, tries]
  attempt,    \* which task of the build this is
  blueprint,  \* the architect's blueprint, or NoBlueprint
  build,      \* status, iteration, and what metadata names: its status and iteration, and what metadata names
  modules,    \* the module file of each spec in generated/
  docker,     \* what Docker's image of the build's tag was built from
  containers, \* evaluation containers that Docker runs: of which attempt
  asked,      \* history: requests to models since the generator began
  leaked      \* history: docker stop failed, or the worker died in an evaluation

vars == <<client, at, attempt, blueprint, build, modules, docker, containers, asked, leaked>>

-----------------------------------------------------------------------------
NoBlueprint == [specs |-> {}, gaps_by |-> "none"]

(* A module file satisfies the contract whenever it is written; its tests  *)
(* may have passed since.                                                  *)
Files == {"none", "written", "proven"}

(* Where a copy of the build directory came from.                          *)
Copy(n, files) == [attempt |-> n, files |-> files]
NoCopy == Copy(0, [t \in Tools |-> "none"])

(* A new task has no metadata: the row does not carry any.                 *)
NewBuild == [status |-> "queued", iter |-> 1, listed |-> {},
             tag |-> FALSE, tar |-> NoCopy, installers |-> NoCopy, bundle |-> NoCopy]

Place(stage, left, tries) == [stage |-> stage, left |-> left, tries |-> tries]
Goto(stage) == at' = Place(stage, {}, 0)
At(stage) == at.stage = stage

(* The specs are generated one after the other.                            *)
Current == CHOOSE t \in at.left : TRUE

Set(status, stage) == build' = [build EXCEPT !.status = status] /\ Goto(stage)

Init ==
  /\ \E r \in Requirements, g \in Routers, format \in {"web", "desktop", "server"} :
       client = [req |-> r, router |-> g.router, key |-> g.key, format |-> format]
  /\ at = Place("design", {}, 0)
  /\ attempt = 1
  /\ blueprint = NoBlueprint
  /\ build = NewBuild
  /\ modules = [t \in Tools |-> "none"]
  /\ docker = NoCopy
  /\ containers = {}
  /\ asked = 0
  /\ leaked = FALSE

-----------------------------------------------------------------------------
(* The exception of a stage ends the task; start_pipeline saves "failed".  *)
Raise == Set("failed", "end")

(* Whether AnthropicProvider gets a text out of its requests.              *)
Answered == {ProviderCompletes(a) : a \in [1..MaxAttempts -> {"text", "unavailable", "auth"}]}

(* design_employee, for whatever its models propose.                       *)
Design ==
  /\ At("design")
  /\ \E p \in ComponentLists, answered \in Answered :
       LET designs == Blueprints(client.req, p, client.key, answered) IN
         \/ \E b \in designs : blueprint' = b /\ Goto("assemble") /\ UNCHANGED build
         \/ designs = {} /\ Raise /\ UNCHANGED blueprint
  /\ UNCHANGED <<client, attempt, modules, docker, containers, asked, leaked>>

(* assemble clears the directory and fills it; a component without a       *)
(* source file raises.                                                     *)
Assemble ==
  /\ At("assemble")
  /\ modules' = [t \in Tools |-> "none"]
  /\ IF blueprint.components \subseteq Library
     THEN Set("assembling", "generate") ELSE Raise
  /\ UNCHANGED <<client, attempt, blueprint, docker, containers, asked, leaked>>

-----------------------------------------------------------------------------
(* generate *)

Generate ==
  /\ At("generate")
  /\ asked' = 0
  /\ build' = [build EXCEPT !.status = "generating"]
  /\ at' = IF blueprint.specs = {} THEN Place("package", {}, 0)
           ELSE Place("module", blueprint.specs, 1)
  /\ UNCHANGED <<client, attempt, blueprint, modules, docker, containers, leaked>>

(* The models a call asks, and whether one of them returns a text.         *)
Outcomes ==
  LET r == client.router IN
    {[asked |-> Len(Asked(r, r.primary, a)), ok |-> Completes(r, r.primary, a)] :
       a \in [{r.primary, r.fallback} -> {"text", "rate_limit", "auth"}]}

(* _call_model: the client raises, or its text is used.                    *)
CallModel(Use) ==
  \E o \in Outcomes :
    /\ asked' = asked + o.asked
    /\ IF o.ok THEN Use ELSE Raise /\ UNCHANGED modules

(* The generator returns: its verdict, and the files it lists in metadata  *)
(* and in the manifest.  Only correction_loop goes on after a failure.     *)
Return(status, listed) ==
  /\ build' = [build EXCEPT !.status = status, !.listed = listed]
  /\ Goto(IF status = "failed" /\ build.iter = 1 THEN "end" ELSE "package")

(* The specs whose module and tests have been written.                     *)
Listed(accepted) == (blueprint.specs \ at.left) \cup accepted

MoreTries == at.tries < MaxIter

Again(stage) == at' = [at EXCEPT !.stage = stage, !.tries = @ + 1]

(* A module that does not satisfy the contract is asked for again; one     *)
(* that does is written.                                                   *)
WriteModule ==
  /\ At("module")
  /\ CallModel(
       \/ /\ modules' = [modules EXCEPT ![Current] = "written"]
          /\ at' = [at EXCEPT !.stage = "tests", !.tries = 1]
          /\ UNCHANGED build
       \/ /\ UNCHANGED modules
          /\ IF MoreTries THEN Again("module") /\ UNCHANGED build
             ELSE Return("failed", Listed({})))
  /\ UNCHANGED <<client, attempt, blueprint, docker, containers, leaked>>

(* The generated tests are written next to it.                             *)
WriteTests ==
  /\ At("tests")
  /\ CallModel(/\ at' = [at EXCEPT !.stage = "pytest"]
               /\ UNCHANGED <<build, modules>>)
  /\ UNCHANGED <<client, attempt, blueprint, docker, containers, leaked>>

NextSpec ==
  IF at.left = {Current} THEN Return("generating", blueprint.specs)
  ELSE at' = Place("module", at.left \ {Current}, 1) /\ UNCHANGED build

(* pytest passes, fails or does not end in time.                           *)
Pytest ==
  /\ At("pytest")
  /\ \/ modules' = [modules EXCEPT ![Current] = "proven"] /\ NextSpec
     \/ /\ UNCHANGED modules
        /\ IF MoreTries THEN Again("fix") /\ UNCHANGED build
           ELSE Return("failed", Listed({Current}))
     \/ Raise /\ UNCHANGED modules
  /\ UNCHANGED <<client, attempt, blueprint, docker, containers, asked, leaked>>

(* A fixed module that does not satisfy the contract raises.               *)
Fix ==
  /\ At("fix")
  /\ CallModel(
       \/ /\ modules' = [modules EXCEPT ![Current] = "written"]
          /\ at' = [at EXCEPT !.stage = "pytest"]
          /\ UNCHANGED build
       \/ Raise /\ UNCHANGED modules)
  /\ UNCHANGED <<client, attempt, blueprint, docker, containers, leaked>>

-----------------------------------------------------------------------------
(* package *)

Here == Copy(attempt, modules)

(* Mutation of Package: the tag is recorded before the image is built.     *)
Package_TagFirst ==
  /\ At("package")
  /\ \/ build' = [build EXCEPT !.status = "packaging", !.tag = TRUE] /\ Goto("docker")
     \/ build' = [build EXCEPT !.status = "failed", !.tag = TRUE] /\ Goto("evaluate")
     \/ Raise
  /\ UNCHANGED <<client, attempt, blueprint, modules, docker, containers, asked, leaked>>

(* npm compiles the frontend, fails or does not end in time.               *)
Package ==
  /\ At("package")
  /\ \/ Set("packaging", IF client.format = "desktop" THEN "desktop" ELSE "docker")
     \/ Set("failed", "evaluate")
     \/ Raise
  /\ UNCHANGED <<client, attempt, blueprint, modules, docker, containers, asked, leaked>>

(* The desktop installers: what electron-builder leaves in dist is stored  *)
(* and named; when it left nothing (or was skipped), dist has at most those*)
(* of the last iteration.                                                  *)
Desktop ==
  /\ At("desktop")
  /\ \/ \E found \in {Here, build.installers} :
          build' = [build EXCEPT !.installers = found] /\ Goto("docker")
     \/ Set("failed", "evaluate")
     \/ Raise
  /\ UNCHANGED <<client, attempt, blueprint, modules, docker, containers, asked, leaked>>

(* docker build tags the image, fails or times out; docker cannot be run.  *)
DockerBuild ==
  /\ At("docker")
  /\ \/ docker' = Here /\ Goto("save") /\ UNCHANGED build
     \/ Set("failed", "evaluate") /\ UNCHANGED docker
     \/ Raise /\ UNCHANGED docker
  /\ UNCHANGED <<client, attempt, blueprint, modules, containers, asked, leaked>>

(* docker save writes the tarball; only then metadata names the image.     *)
DockerSave ==
  /\ At("save")
  /\ \/ /\ build' = [build EXCEPT !.tag = TRUE, !.tar = docker]
        /\ Goto(IF client.format = "server" THEN "bundle" ELSE "evaluate")
     \/ Set("failed", "evaluate")
     \/ Raise
  /\ UNCHANGED <<client, attempt, blueprint, modules, docker, containers, asked, leaked>>

(* _build_server_bundle zips the directory, not the image.                 *)
ServerBundle ==
  /\ At("bundle")
  /\ \/ build' = [build EXCEPT !.bundle = Here] /\ Goto("evaluate")
     \/ Raise
  /\ UNCHANGED <<client, attempt, blueprint, modules, docker, containers, asked, leaked>>

-----------------------------------------------------------------------------
(* evaluate *)

(* docker run starts the tagged image.                                     *)
StartContainer ==
  /\ At("evaluate")
  /\ \/ ~build.tag /\ Set("failed", "correct") /\ UNCHANGED containers
     \/ /\ build.tag
        /\ \/ containers' = containers \cup {docker.attempt} /\ Set("evaluating", "suites")
           \/ Raise /\ UNCHANGED containers
  /\ UNCHANGED <<client, attempt, blueprint, modules, docker, asked, leaked>>

(* What the image was configured with.                                     *)
Config ==
  RuntimeConfig(client.req.role, client.req.tools, blueprint.workflow, blueprint.tool_permissions)

(* The container never gets healthy, a request of a suite raises, or the   *)
(* five suites judge what they observe.                                    *)
Verdicts ==
  {"failed", "raises"}
    \cup {IF SuitesPass(SuiteProfile(client.req.role, blueprint.workflow), Config, conduct)
          THEN "passed" ELSE "failed" : conduct \in Conducts}

(* Mutation of StopContainer: an unhealthy container is left running.      *)
StopContainer_Unless(v) ==
  IF v = "failed" THEN UNCHANGED <<containers, leaked>>
  ELSE containers' = containers \ {attempt} /\ UNCHANGED leaked

(* The finally clause; docker's exit code is not looked at.                *)
StopContainer(v) ==
  \/ containers' = containers \ {attempt} /\ UNCHANGED leaked
  \/ leaked' = TRUE /\ UNCHANGED containers

RunSuites ==
  /\ At("suites")
  /\ \E v \in Verdicts :
       /\ StopContainer(v)
       /\ CASE v = "passed" -> Set("passed", "end")
            [] v = "failed" -> Set("failed", "correct")
            [] v = "raises" -> Raise
  /\ UNCHANGED <<client, attempt, blueprint, modules, docker, asked>>

(* Mutation of Correct: the iteration is not counted.                      *)
Correct_Uncounted ==
  /\ At("correct")
  /\ IF build.iter < MaxIter THEN Goto("generate") ELSE Goto("end")
  /\ UNCHANGED <<client, attempt, blueprint, build, modules, docker, containers, asked, leaked>>

(* Mutation of Correct: one iteration too many.                            *)
Correct_OneMore ==
  /\ At("correct")
  /\ IF build.iter <= MaxIter
     THEN build' = [build EXCEPT !.iter = @ + 1] /\ Goto("generate")
     ELSE Goto("end") /\ UNCHANGED build
  /\ UNCHANGED <<client, attempt, blueprint, modules, docker, containers, asked, leaked>>

(* correction_loop: the generator again, with the same blueprint.          *)
Correct ==
  /\ At("correct")
  /\ IF build.iter < MaxIter
     THEN build' = [build EXCEPT !.iter = @ + 1] /\ Goto("generate")
     ELSE Goto("end") /\ UNCHANGED build
  /\ UNCHANGED <<client, attempt, blueprint, modules, docker, containers, asked, leaked>>

-----------------------------------------------------------------------------
(* The worker dies: nothing takes the task up again.                       *)
Die ==
  /\ at.stage \notin {"end", "dead"}
  /\ Goto("dead")
  /\ leaked' = (leaked \/ At("suites"))
  /\ UNCHANGED <<client, attempt, blueprint, build, modules, docker, containers, asked>>

(* retry_build: a new task for a failed build, with the same id, directory *)
(* and image tag.                                                          *)
Retry ==
  /\ At("end") /\ build.status = "failed" /\ attempt < MaxTasks
  /\ attempt' = attempt + 1
  /\ build' = NewBuild
  /\ blueprint' = NoBlueprint
  /\ asked' = 0
  /\ Goto("design")
  /\ UNCHANGED <<client, modules, docker, containers, leaked>>

Stage ==
  \/ Design \/ Assemble
  \/ Generate \/ WriteModule \/ WriteTests \/ Pytest \/ Fix
  \/ Package \/ Desktop \/ DockerBuild \/ DockerSave \/ ServerBundle
  \/ StartContainer \/ RunSuites \/ Correct

Next == Stage \/ Die \/ Retry

(* Every stage returns or raises: its subprocesses have time limits, and   *)
(* the requests to the models too.                                         *)
Spec == Init /\ [][Next]_vars /\ WF_vars(Stage)

-----------------------------------------------------------------------------
(* Every variable keeps its type.                                          *)
TypeOK ==
  LET copies == [attempt : 0..attempt, files : [Tools -> Files]] IN
  /\ client.req \in Requirements
  /\ \E g \in Routers : client.router = g.router /\ client.key = g.key
  /\ at.left \subseteq Tools /\ at.tries \in Nat
  /\ attempt \in 1..MaxTasks
  /\ blueprint.specs \subseteq client.req.tools
  /\ build.status \in {"queued", "assembling", "generating", "packaging", "evaluating",
                       "passed", "failed"}
  /\ build.iter \in 1..MaxIter
  /\ build.listed \subseteq blueprint.specs
  /\ build.tag \in BOOLEAN /\ {build.tar, build.installers, build.bundle} \subseteq copies
  /\ modules \in [Tools -> Files] /\ docker \in copies
  /\ containers \subseteq 1..attempt
  /\ asked \in Nat /\ leaked \in BOOLEAN

(* Whatever component list a model proposes, every tool the client asked   *)
(* for is served by a permitted component or by custom code, if the gaps   *)
(* are found by the rules (component_selector.py:211, gap_analyzer.py:72). *)
DesignServesClient == blueprint.gaps_by = "rules" => Serves(blueprint, client.req)

(* The image under evaluation, its tarball, the installers and the server  *)
(* bundle are of this attempt's directory, although the tag and the paths are those of   *)
(* the attempts before it (packager.py:38, 127).                           *)
NothingStaleIsNamed ==
  /\ build.tag => docker.attempt = attempt /\ build.tar.attempt = attempt
  /\ {build.installers.attempt, build.bundle.attempt} \subseteq {0, attempt}
  /\ At("suites") => attempt \in containers /\ docker.attempt = attempt

(* An evaluation container outlives its evaluation only if Docker did not  *)
(* stop it or the worker died (test_runner.py:96-100).                     *)
NoStrayContainer == containers # {} => leaked \/ At("suites")

(* A task ends, whatever the models, the tests and Docker answer, unless   *)
(* its worker dies.                                                        *)
TasksEnd == []<>(At("end") \/ At("dead"))
=============================================================================
