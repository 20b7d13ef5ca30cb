-------------------------- MODULE BuildStages_proofs --------------------------
(***************************************************************************)
(* For any client, library vocabulary and number of iterations and         *)
(* retries: nothing of an earlier attempt is named or evaluated, no        *)
(* container strays, designs serve their client, and no build of an        *)
(* accounting employee ever passes its evaluation.                         *)
(***************************************************************************)
EXTENDS BuildStages, TLAPS

-----------------------------------------------------------------------------
(* The baseline suite and the packs *)

(* The first pack of a selection is chosen by the word accounting.         *)
LEMMA SelectedPacks ==
  ASSUME NEW role, NEW toolNames
  PROVE  /\ "accounting" \in role => AccountingOpsPack \in ToSet(SelectPacks(role, toolNames))
         /\ "accounting" \notin role =>
              ToSet(SelectPacks(role, toolNames))
                \subseteq {ExecutiveAssistantPack, LegalIntakePack, OperationsCoordinatorPack}
<1>. DEFINE P == {AccountingOpsPack, ExecutiveAssistantPack, LegalIntakePack, OperationsCoordinatorPack}
            a == IF "accounting" \in role THEN AccountingOpsPack ELSE ExecutiveAssistantPack
            s == IF "legal" \in role THEN <<LegalIntakePack>> ELSE <<>>
            t == IF "operations" \in role \/ toolNames \cap SystemNames # {}
                 THEN <<OperationsCoordinatorPack>> ELSE <<>>
<1>1. SelectPacks(role, toolNames) = <<a>> \o s \o t
  BY DEF SelectPacks
<1>2. a \in P /\ s \in Seq(P) /\ t \in Seq(P) /\ Len(s) \in {0, 1} /\ Len(t) \in {0, 1}
      /\ (Len(s) = 1 => s[1] = LegalIntakePack) /\ (Len(t) = 1 => t[1] = OperationsCoordinatorPack)
  <2>1. a \in P /\ LegalIntakePack \in P /\ OperationsCoordinatorPack \in P
    OBVIOUS
  <2>2. s = <<>> \/ s = <<LegalIntakePack>>
    OBVIOUS
  <2>3. t = <<>> \/ t = <<OperationsCoordinatorPack>>
    OBVIOUS
  <2>. HIDE DEF P, a, s, t
  <2>5. s \in Seq(P) /\ Len(s) \in {0, 1} /\ (Len(s) = 1 => s[1] = LegalIntakePack)
    <3>1. CASE s = <<>>
      BY <3>1
    <3>2. CASE s = <<LegalIntakePack>>
      BY <2>1, <3>2
    <3> QED
      BY <2>2, <3>1, <3>2
  <2>6. t \in Seq(P) /\ Len(t) \in {0, 1} /\ (Len(t) = 1 => t[1] = OperationsCoordinatorPack)
    <3>1. CASE t = <<>>
      BY <3>1
    <3>2. CASE t = <<OperationsCoordinatorPack>>
      BY <2>1, <3>2
    <3> QED
      BY <2>3, <3>1, <3>2
  <2> QED
    BY <2>1, <2>5, <2>6
<1>3. ("accounting" \in role => a = AccountingOpsPack) /\ ("accounting" \notin role => a = ExecutiveAssistantPack)
  OBVIOUS
<1>. HIDE DEF P, a, s, t
<1>4. /\ <<a>> \o s \o t \in Seq(P) /\ Len(<<a>> \o s \o t) = 1 + Len(s) + Len(t)
      /\ (<<a>> \o s \o t)[1] = a
  BY <1>2
<1>5. \A i \in 1..Len(<<a>> \o s \o t) : i # 1 => (<<a>> \o s \o t)[i] \in {LegalIntakePack, OperationsCoordinatorPack}
  BY <1>2, <1>4
<1> QED
  BY <1>1, <1>3, <1>4, <1>5 DEF ToSet

(* The baseline suite expects of every employee the lanes that the packs   *)
(* of all roles but accounting give: "ap" of accounts payable occurs in    *)
(* approval, so that an accounting employee plans the business process as  *)
(* a hybrid (baseline_tests.py:29, packs.py:83, kernel.py:84).             *)
THEOREM BaselineLanes ==
  ASSUME NEW role, NEW toolNames
  PROVE  (\A case \in BaselineCases : LaneIsExpected(case, SelectPacks(role, toolNames)))
           <=> "accounting" \notin role
<1>. DEFINE packs == SelectPacks(role, toolNames)
<1>0. \A text : /\ Plan(text, packs).lane = Lane(Matched(text, packs))
                /\ Matched(text, packs).knowledge = (text \cap KnowledgeTerms) \cup Hinted(text, packs, "knowledge_work")
                /\ Matched(text, packs).process = (text \cap ProcessTerms) \cup Hinted(text, packs, "business_process")
  BY DEF Plan, Matched
<1>1. CASE "accounting" \in role
  <2>. DEFINE text == {"checklist", "route", "approval", "notify", "owner", "ap"}
              case == Case("business_process", text)
  <2>1. case \in BaselineCases /\ case.expected = "business_process" /\ case.text = text
    BY DEF BaselineCases, Case
  <2>2. "ap" \in Hinted(text, packs, "knowledge_work")
    <3>1. AccountingOpsPack \in ToSet(packs)
      BY <1>1, SelectedPacks
    <3>2. "knowledge_work" \in AccountingOpsPack.lanes /\ "ap" \in AccountingOpsPack.hints
      BY DEF AccountingOpsPack, Pack, EveryLane
    <3> HIDE DEF packs
    <3> QED
      BY <3>1, <3>2 DEF Hinted
  <2>3. "route" \in text \cap ProcessTerms
    BY DEF ProcessTerms
  <2>. HIDE DEF text, packs, case
  <2>4. Plan(text, packs).lane = "hybrid"
    BY <1>0, <2>2, <2>3 DEF Lane
  <2> QED
    BY <1>1, <2>1, <2>4 DEF LaneIsExpected, packs
<1>2. CASE "accounting" \notin role
  <2>. DEFINE others == {ExecutiveAssistantPack, LegalIntakePack, OperationsCoordinatorPack}
  <2>1. ToSet(packs) \subseteq others
    BY <1>2, SelectedPacks
  <2>. HIDE DEF packs
  <2>2. ASSUME NEW text, NEW lane,
               \A p \in others : lane \in p.lanes => p.hints \cap text = {}
        PROVE  Hinted(text, packs, lane) = {}
    BY <2>1, <2>2 DEF Hinted
  <2>. USE DEF ExecutiveAssistantPack, LegalIntakePack, OperationsCoordinatorPack, Pack, EveryLane
  <2>3. Plan({"prepare", "client-ready", "ar"}, packs).lane = "knowledge_work"
    <3>. DEFINE text == {"prepare", "client-ready", "ar"}
    <3>1. Hinted(text, packs, "business_process") = {}
      <4>1. \A p \in others : p.hints \cap text = {}
        <5>1. ExecutiveAssistantPack.hints \cap text = {}
          OBVIOUS
        <5>2. LegalIntakePack.hints \cap text = {}
          OBVIOUS
        <5>3. OperationsCoordinatorPack.hints \cap text = {}
          OBVIOUS
        <5> HIDE DEF ExecutiveAssistantPack, LegalIntakePack, OperationsCoordinatorPack, text
        <5> QED
          BY <5>1, <5>2, <5>3
      <4> HIDE DEF others, text
      <4> QED
        BY <2>2, <4>1
    <3>2. text \cap ProcessTerms = {}
      BY DEF ProcessTerms
    <3> QED
      BY <1>0, <3>1, <3>2 DEF Lane
  <2>4. Plan({"checklist", "route", "approval", "notify", "owner", "ap"}, packs).lane = "business_process"
    <3>. DEFINE text == {"checklist", "route", "approval", "notify", "owner", "ap"}
    <3>1. Hinted(text, packs, "knowledge_work") = {}
      <4>1. \A p \in others : "knowledge_work" \in p.lanes => p.hints \cap text = {}
        <5>1. ExecutiveAssistantPack.hints \cap text = {} /\ LegalIntakePack.hints \cap text = {}
          <6>1. ExecutiveAssistantPack.hints \cap text = {}
            OBVIOUS
          <6>2. LegalIntakePack.hints \cap text = {}
            OBVIOUS
          <6> QED
            BY <6>1, <6>2
        <5>2. "knowledge_work" \notin OperationsCoordinatorPack.lanes
          OBVIOUS
        <5> HIDE DEF ExecutiveAssistantPack, LegalIntakePack, OperationsCoordinatorPack, text
        <5> QED
          BY <5>1, <5>2
      <4> HIDE DEF others, text
      <4> QED
        BY <2>2, <4>1
    <3>2. text \cap KnowledgeTerms = {} /\ "route" \in text \cap ProcessTerms
      BY DEF KnowledgeTerms, ProcessTerms
    <3> QED
      BY <1>0, <3>1, <3>2 DEF Lane
  <2>5. Plan({"draft", "follow-up", "schedule", "meeting", "crm", "record"}, packs).lane = "hybrid"
    <3>. DEFINE text == {"draft", "follow-up", "schedule", "meeting", "crm", "record"}
    <3>1. "draft" \in text \cap KnowledgeTerms /\ "schedule" \in text \cap ProcessTerms
      BY DEF KnowledgeTerms, ProcessTerms
    <3>. HIDE DEF text
    <3>2. Plan(text, packs).lane = "hybrid"
      BY <1>0, <3>1 DEF Lane
    <3> QED
      BY <3>2 DEF text
  <2> QED
    BY <1>2, <2>3, <2>4, <2>5 DEF BaselineCases, Case, LaneIsExpected, packs
<1> QED
  BY <1>1, <1>2

-----------------------------------------------------------------------------
(* The inductive invariant *)

Statuses == {"queued", "assembling", "generating", "packaging", "evaluating", "passed", "failed"}
Copies(n) == [attempt : 0..n, files : [Tools -> Files]]
Builds(n) ==
  [status : Statuses, iter : 1..MaxIter, listed : SUBSET Tools, tag : BOOLEAN,
   tar : Copies(n), installers : Copies(n), bundle : Copies(n)]
Stages ==
  {"design", "assemble", "generate", "module", "tests", "pytest", "fix", "package", "desktop", "docker",
   "save", "bundle", "evaluate", "suites", "correct", "end", "dead"}
Places == [stage : Stages, left : SUBSET Tools, tries : Nat]

StageTypes ==
  /\ client.req \in Requirements
  /\ \E g \in Routers : client.router = g.router /\ client.key = g.key
  /\ at \in Places
  /\ attempt \in 1..MaxTasks
  /\ blueprint.specs \subseteq client.req.tools
  /\ build \in Builds(attempt) /\ build.listed \subseteq blueprint.specs
  /\ modules \in [Tools -> Files] /\ docker \in Copies(attempt)
  /\ containers \subseteq 1..attempt
  /\ asked \in Nat /\ leaked \in BOOLEAN

PerSpec == {"module", "tests", "pytest", "fix"}

(* While a spec is generated there is one; before the design is there      *)
(* nothing is listed.                                                      *)
InPlace ==
  /\ at.left \subseteq blueprint.specs
  /\ at.stage \in PerSpec => at.left # {}
  /\ At("design") => build.listed = {}

(* Docker's image is of this attempt from docker build on, and the only    *)
(* container is the one under evaluation, unless Docker lost one.          *)
ImageIsFresh ==
  /\ NothingStaleIsNamed
  /\ At("save") => docker.attempt = attempt
  /\ ~leaked => containers = IF At("suites") THEN {attempt} ELSE {}

PassedIsNotAccounting == build.status = "passed" => "accounting" \notin client.req.role

StagesInv ==
  StageTypes /\ InPlace /\ ImageIsFresh /\ PassedIsNotAccounting /\ DesignServesClient

LEMMA PlaceTypes ==
  /\ \A stage \in Stages : /\ Place(stage, {}, 0) \in Places
                           /\ Place(stage, {}, 0).stage = stage /\ Place(stage, {}, 0).left = {}
  /\ \A stage \in Stages, left \in SUBSET Tools, n \in Nat :
       /\ Place(stage, left, n) \in Places
       /\ Place(stage, left, n).stage = stage /\ Place(stage, left, n).left = left
  BY DEF Place, Places

LEMMA Staged ==
  /\ PerSpec \subseteq Stages /\ \A stage \in PerSpec : stage \in Stages
  /\ "design" \in Stages /\ "assemble" \in Stages /\ "generate" \in Stages
  /\ "module" \in Stages /\ "tests" \in Stages /\ "pytest" \in Stages /\ "package" \in Stages
  /\ "desktop" \in Stages /\ "docker" \in Stages /\ "save" \in Stages /\ "bundle" \in Stages /\ "evaluate" \in Stages
  /\ "suites" \in Stages /\ "correct" \in Stages /\ "end" \in Stages /\ "dead" \in Stages
  BY DEF Stages, PerSpec

(* Leaving a stage with some fields of the build changed.                  *)
LEMMA BuildTypes ==
  ASSUME StageTypes, NEW status \in Statuses
  PROVE  /\ LET b == [build EXCEPT !.status = status] IN
              /\ b \in Builds(attempt) /\ b.status = status /\ b.listed = build.listed
              /\ b.tag = build.tag /\ b.tar = build.tar /\ b.bundle = build.bundle
              /\ b.installers = build.installers
         /\ \A listed \in SUBSET Tools :
              LET b == [build EXCEPT !.status = status, !.listed = listed] IN
                /\ b \in Builds(attempt) /\ b.status = status /\ b.listed = listed
                /\ b.tag = build.tag /\ b.tar = build.tar /\ b.bundle = build.bundle
                /\ b.installers = build.installers
  BY DEF StageTypes, Builds

(* The steps that touch neither Docker nor what the build names of it.     *)
Quiet ==
  /\ UNCHANGED <<client, attempt, docker, containers, leaked>>
  /\ build'.tag = build.tag /\ build'.tar = build.tar /\ build'.bundle = build.bundle /\ build'.installers = build.installers
  /\ build'.status # "passed" \/ build'.status = build.status
  /\ at.stage # "suites" /\ at'.stage \notin {"suites", "save"}

LEMMA QuietKeeps ==
  ASSUME StagesInv, Quiet
  PROVE  ImageIsFresh' /\ PassedIsNotAccounting'
  BY DEF StagesInv, Quiet, ImageIsFresh, NothingStaleIsNamed, PassedIsNotAccounting, At

(* What the quiet steps are made of.                                       *)
LEMMA RaiseTypes ==
  ASSUME StagesInv, Raise
  PROVE  /\ at' \in Places /\ at'.stage = "end" /\ at'.left = {}
         /\ build' \in Builds(attempt) /\ build'.listed = build.listed /\ build'.status = "failed"
         /\ build'.tag = build.tag /\ build'.tar = build.tar /\ build'.bundle = build.bundle /\ build'.installers = build.installers
<1>1. "failed" \in Statuses
  BY DEF Statuses
<1> QED
  BY <1>1, Staged, BuildTypes, PlaceTypes DEF Raise, Set, Goto, StagesInv

LEMMA SetTypes ==
  ASSUME StagesInv, NEW status \in Statuses, NEW stage \in Stages, Set(status, stage)
  PROVE  /\ at' \in Places /\ at'.stage = stage /\ at'.left = {}
         /\ build' \in Builds(attempt) /\ build'.listed = build.listed /\ build'.status = status
         /\ build'.tag = build.tag /\ build'.tar = build.tar /\ build'.bundle = build.bundle /\ build'.installers = build.installers
  BY BuildTypes, PlaceTypes DEF Set, Goto, StagesInv

LEMMA ReturnTypes ==
  ASSUME StagesInv, NEW status \in {"failed", "generating"}, NEW listed \in SUBSET Tools,
         Return(status, listed)
  PROVE  /\ at' \in Places /\ at'.stage \in {"end", "package"} /\ at'.left = {}
         /\ build' \in Builds(attempt) /\ build'.listed = listed /\ build'.status = status
         /\ build'.tag = build.tag /\ build'.tar = build.tar /\ build'.bundle = build.bundle /\ build'.installers = build.installers
<1>1. status \in Statuses
  BY DEF Statuses
<1>2. at' = Place("end", {}, 0) \/ at' = Place("package", {}, 0)
  BY DEF Return, Goto
<1>3. at' \in Places /\ at'.stage \in {"end", "package"} /\ at'.left = {}
  BY <1>2, Staged, PlaceTypes
<1>4. build' = [build EXCEPT !.status = status, !.listed = listed] /\ StageTypes
  BY DEF Return, StagesInv
<1>5. /\ build' \in Builds(attempt) /\ build'.listed = listed /\ build'.status = status
      /\ build'.tag = build.tag /\ build'.tar = build.tar /\ build'.bundle = build.bundle /\ build'.installers = build.installers
  BY <1>1, <1>4 DEF StageTypes, Builds
<1> QED
  BY <1>3, <1>5

LEMMA CurrentTypes ==
  ASSUME StagesInv, at.stage \in PerSpec
  PROVE  /\ Current \in at.left /\ Current \in blueprint.specs /\ Current \in Tools
         /\ Listed({}) \subseteq blueprint.specs /\ Listed({Current}) \subseteq blueprint.specs
         /\ blueprint.specs \in SUBSET Tools
         /\ \A file \in Files : [modules EXCEPT ![Current] = file] \in [Tools -> Files]
  BY StagesAssumption DEF StagesInv, StageTypes, InPlace, PerSpec, Current, Listed

(* A design for the client of this build serves it, if rules found its     *)
(* gaps, whatever list was proposed.                                       *)
LEMMA DesignServes ==
  ASSUME NEW req, NEW proposed, NEW key, NEW answered, NEW b \in Blueprints(req, proposed, key, answered)
  PROVE  b.specs \subseteq req.tools /\ (b.gaps_by = "rules" => Serves(b, req))
<1>1. PICK c \in Selections(req, proposed) :
        b \in {Blueprint(req, c, g.gaps, g.by) : g \in GapsFound(req, c, key, answered)}
  BY DEF Blueprints
<1>2. PICK g \in GapsFound(req, c, key, answered) : b = Blueprint(req, c, g.gaps, g.by)
  BY <1>1
<1>3. b.specs = g.gaps /\ b.gaps_by = g.by /\ b.tool_permissions = c \cap ToolComponents
  BY <1>2 DEF Blueprint
<1>4. CASE answered
  BY <1>3, <1>4 DEF GapsFound
<1>5. CASE ~answered
  <2>1. g = [gaps |-> Gaps(req, c), by |-> "rules"]
    BY <1>5 DEF GapsFound
  <2>2. \A t \in req.tools : FirstMatch(t) \subseteq Named(t)
    BY DEF FirstMatch, Named
  <2>3. b.specs = Gaps(req, c)
    BY <1>3, <2>1
  <2> QED
    BY <1>3, <2>2, <2>3 DEF Gaps, Serves
<1> QED
  BY <1>4, <1>5

-----------------------------------------------------------------------------
(* Quiet steps *)

(* What a quiet step leaves behind.                                        *)
Steady ==
  /\ Quiet
  /\ at' \in Places /\ at'.left \subseteq blueprint'.specs
  /\ at'.stage \in PerSpec => at'.left # {}
  /\ at'.stage # "design"
  /\ build' \in Builds(attempt) /\ build'.listed \subseteq blueprint'.specs
  /\ modules' \in [Tools -> Files] /\ asked' \in Nat

LEMMA SteadyKeeps ==
  ASSUME StagesInv, Steady,
         blueprint'.specs \subseteq client.req.tools,
         blueprint'.gaps_by = "rules" => Serves(blueprint', client.req)
  PROVE  StagesInv'
<1>1. ImageIsFresh' /\ PassedIsNotAccounting'
  BY QuietKeeps DEF Steady
<1>2. StageTypes'
  BY DEF Steady, Quiet, StagesInv, StageTypes
<1>3. InPlace'
  BY DEF Steady, InPlace, At
<1>4. DesignServesClient'
  BY DEF Steady, Quiet, DesignServesClient
<1> QED
  BY <1>1, <1>2, <1>3, <1>4 DEF StagesInv

LEMMA SteadySame ==
  ASSUME StagesInv, Steady, UNCHANGED blueprint
  PROVE  StagesInv'
<1>1. blueprint'.specs \subseteq client.req.tools /\ (blueprint'.gaps_by = "rules" => Serves(blueprint', client.req))
  BY DEF StagesInv, StageTypes, DesignServesClient
<1> QED
  BY <1>1, SteadyKeeps

(* The ways the stages of the generator end.                               *)
LEMMA RaiseSteady ==
  ASSUME StagesInv, Raise, UNCHANGED <<client, attempt, docker, containers, leaked, blueprint>>,
         at.stage # "suites", modules' \in [Tools -> Files], asked' \in Nat
  PROVE  Steady
<1>1. build.listed \subseteq blueprint.specs
  BY DEF StagesInv, StageTypes
<1> QED
  BY <1>1, RaiseTypes DEF Steady, Quiet, PerSpec

LEMMA ReturnSteady ==
  ASSUME StagesInv, NEW status \in {"failed", "generating"}, NEW listed \in SUBSET blueprint.specs,
         Return(status, listed),
         UNCHANGED <<client, attempt, docker, containers, leaked, blueprint>>,
         at.stage # "suites", modules' \in [Tools -> Files], asked' \in Nat
  PROVE  Steady
<1>1. blueprint.specs \subseteq Tools
  BY StagesAssumption DEF StagesInv, StageTypes
<1>2. listed \in SUBSET Tools
  BY <1>1
<1> QED
  BY <1>2, ReturnTypes DEF Steady, Quiet, PerSpec

(* The task stays with its spec and the build as it is.                    *)
LEMMA MoveSteady ==
  ASSUME StagesInv, UNCHANGED <<client, attempt, docker, containers, leaked, blueprint, build>>,
         at.stage \in PerSpec, at' \in Places, at'.stage \in PerSpec,
         at'.left \subseteq at.left, at'.left # {},
         modules' \in [Tools -> Files], asked' \in Nat
  PROVE  Steady
  BY DEF Steady, Quiet, PerSpec, StagesInv, StageTypes, InPlace

LEMMA AgainMoves ==
  ASSUME StagesInv, NEW stage \in PerSpec, Again(stage), at.stage \in PerSpec
  PROVE  at' \in Places /\ at'.stage = stage /\ at'.left = at.left /\ at'.left # {}
<1>1. at \in Places /\ at.left # {} /\ stage \in Stages
  BY Staged DEF StagesInv, StageTypes, InPlace
<1>2. at' = [at EXCEPT !.stage = stage, !.tries = at.tries + 1] /\ at.tries + 1 \in Nat
  BY <1>1 DEF Again, Places
<1> QED
  BY <1>1, <1>2 DEF Places

LEMMA OutcomeTypes ==
  ASSUME NEW o \in Outcomes
  PROVE  o.asked \in Nat
<1>. DEFINE r == client.router
            A == [{r.primary, r.fallback} -> {"text", "rate_limit", "auth"}]
            f(a) == [asked |-> Len(Asked(r, r.primary, a)), ok |-> Completes(r, r.primary, a)]
<1>1. o \in {f(a) : a \in A}
  BY DEF Outcomes
<1>2. PICK a \in A : o = f(a)
  BY <1>1
<1>3. \A m, g : Len(<<m>> \o <<g>>) \in Nat /\ Len(<<m>> \o <<>>) \in Nat
  OBVIOUS
<1>4. Len(Asked(r, r.primary, a)) \in Nat
  BY <1>3 DEF Asked
<1>5. o.asked = Len(Asked(r, r.primary, a))
  BY <1>2
<1> QED
  BY <1>4, <1>5

-----------------------------------------------------------------------------
(* Every step *)

LEMMA DesignStep == ASSUME StagesInv, Design PROVE StagesInv'
<1>1. at.stage = "design" /\ UNCHANGED <<client, attempt, modules, docker, containers, asked, leaked>>
  BY DEF Design, At
<1>2. modules' \in [Tools -> Files] /\ asked' \in Nat /\ build \in Builds(attempt) /\ build.listed = {}
  BY <1>1 DEF StagesInv, StageTypes, InPlace, At
<1>3. PICK p \in ComponentLists, answered \in Answered :
        LET designs == Blueprints(client.req, p, client.key, answered) IN
          \/ \E b \in designs : blueprint' = b /\ Goto("assemble") /\ UNCHANGED build
          \/ designs = {} /\ Raise /\ UNCHANGED blueprint
  BY DEF Design
<1>4. CASE blueprint' \in Blueprints(client.req, p, client.key, answered) /\ Goto("assemble") /\ UNCHANGED build
  <2>1. blueprint'.specs \subseteq client.req.tools /\ (blueprint'.gaps_by = "rules" => Serves(blueprint', client.req))
    BY <1>4, DesignServes
  <2>2. at' \in Places /\ at'.stage = "assemble" /\ at'.left = {}
    BY <1>4, Staged, PlaceTypes DEF Goto
  <2>3. Steady
    BY <1>1, <1>2, <1>4, <2>2 DEF Steady, Quiet, PerSpec
  <2> QED
    BY <2>1, <2>3, SteadyKeeps
<1>5. CASE Raise /\ UNCHANGED blueprint
  BY <1>1, <1>2, <1>5, RaiseSteady, SteadySame
<1> QED
  BY <1>3, <1>4, <1>5

LEMMA AssembleStep == ASSUME StagesInv, Assemble PROVE StagesInv'
<1>1. at.stage = "assemble" /\ UNCHANGED <<client, attempt, blueprint, docker, containers, asked, leaked>>
  BY DEF Assemble, At
<1>2. modules' \in [Tools -> Files] /\ asked' \in Nat /\ build.listed \subseteq blueprint.specs
  BY <1>1 DEF Assemble, StagesInv, StageTypes, Files
<1>3. CASE Set("assembling", "generate")
  <2>1. "assembling" \in Statuses
    BY DEF Statuses
  <2> QED
    BY <1>1, <1>2, <1>3, <2>1, Staged, SetTypes, SteadySame DEF Steady, Quiet, PerSpec
<1>4. CASE Raise
  BY <1>1, <1>2, <1>4, RaiseSteady, SteadySame
<1> QED
  BY <1>3, <1>4 DEF Assemble

LEMMA GenerateStep == ASSUME StagesInv, Generate PROVE StagesInv'
<1>1. /\ at.stage = "generate" /\ asked' = 0
      /\ UNCHANGED <<client, attempt, blueprint, modules, docker, containers, leaked>>
  BY DEF Generate, At
<1>2. modules' \in [Tools -> Files] /\ build.listed \subseteq blueprint.specs /\ blueprint.specs \in SUBSET Tools
  BY <1>1, StagesAssumption DEF StagesInv, StageTypes
<1>3. /\ build' \in Builds(attempt) /\ build'.listed = build.listed /\ build'.status = "generating"
      /\ build'.tag = build.tag /\ build'.tar = build.tar /\ build'.bundle = build.bundle /\ build'.installers = build.installers
  <2>1. "generating" \in Statuses
    BY DEF Statuses
  <2> QED
    BY <2>1, BuildTypes DEF Generate, StagesInv
<1>4. /\ at' \in Places /\ at'.stage \in {"package", "module"} /\ at'.left \subseteq blueprint.specs
      /\ at'.stage = "module" => at'.left # {}
  <2>1. CASE blueprint.specs = {}
    BY <2>1, Staged, PlaceTypes DEF Generate
  <2>2. CASE blueprint.specs # {}
    <3>1. at' = Place("module", blueprint.specs, 1)
      BY <2>2 DEF Generate
    <3> QED
      BY <1>2, <2>2, <3>1, Staged, PlaceTypes
  <2> QED
    BY <2>1, <2>2
<1> QED
  BY <1>1, <1>2, <1>3, <1>4, SteadySame DEF Steady, Quiet, PerSpec

(* A call to the models raises, or leaves the step to what its text is     *)
(* used for.                                                               *)
LEMMA WriteModuleStep == ASSUME StagesInv, WriteModule PROVE StagesInv'
<1>1. at.stage = "module" /\ UNCHANGED <<client, attempt, blueprint, docker, containers, leaked>>
  BY DEF WriteModule, At
<1>2. at.stage \in PerSpec /\ modules \in [Tools -> Files] /\ asked \in Nat /\ at \in Places
      /\ at.left # {}
  BY <1>1 DEF PerSpec, StagesInv, StageTypes, InPlace
<1>3. PICK o \in Outcomes :
        /\ asked' = asked + o.asked
        /\ IF o.ok
           THEN \/ /\ modules' = [modules EXCEPT ![Current] = "written"]
                   /\ at' = [at EXCEPT !.stage = "tests", !.tries = 1]
                   /\ UNCHANGED build
                \/ /\ UNCHANGED modules
                   /\ IF MoreTries THEN Again("module") /\ UNCHANGED build
                      ELSE Return("failed", Listed({}))
           ELSE Raise /\ UNCHANGED modules
  BY DEF WriteModule, CallModel
<1>4. asked' \in Nat
  BY <1>2, <1>3, OutcomeTypes
<1>5. CASE /\ modules' = [modules EXCEPT ![Current] = "written"]
           /\ at' = [at EXCEPT !.stage = "tests", !.tries = 1]
           /\ UNCHANGED build
  <2>1. modules' \in [Tools -> Files]
    BY <1>2, <1>5, CurrentTypes DEF Files
  <2>2. at' \in Places /\ at'.stage = "tests" /\ at'.left = at.left
    BY <1>2, <1>5, Staged DEF Places
  <2>3. at'.stage \in PerSpec
    BY <2>2 DEF PerSpec
  <2>4. UNCHANGED build
    BY <1>5
  <2> QED
    BY <1>1, <1>2, <1>4, <2>1, <2>2, <2>3, <2>4, MoveSteady, SteadySame
<1>6. CASE UNCHANGED modules /\ Again("module") /\ UNCHANGED build
  <2>1. at' \in Places /\ at'.stage \in PerSpec /\ at'.left = at.left /\ at'.left # {}
    BY <1>2, <1>6, AgainMoves DEF PerSpec
  <2> QED
    BY <1>1, <1>2, <1>4, <1>6, <2>1, MoveSteady, SteadySame
<1>7. CASE UNCHANGED modules /\ Return("failed", Listed({}))
  BY <1>1, <1>2, <1>4, <1>7, CurrentTypes, ReturnSteady, SteadySame
<1>8. CASE Raise /\ UNCHANGED modules
  BY <1>1, <1>2, <1>4, <1>8, RaiseSteady, SteadySame
<1> QED
  BY <1>3, <1>5, <1>6, <1>7, <1>8

LEMMA WriteTestsStep == ASSUME StagesInv, WriteTests PROVE StagesInv'
<1>1. at.stage = "tests" /\ UNCHANGED <<client, attempt, blueprint, docker, containers, leaked>>
  BY DEF WriteTests, At
<1>2. at.stage \in PerSpec /\ modules \in [Tools -> Files] /\ asked \in Nat /\ at \in Places
      /\ at.left # {}
  BY <1>1 DEF PerSpec, StagesInv, StageTypes, InPlace
<1>3. PICK o \in Outcomes :
        /\ asked' = asked + o.asked
        /\ IF o.ok THEN at' = [at EXCEPT !.stage = "pytest"] /\ UNCHANGED <<build, modules>>
           ELSE Raise /\ UNCHANGED modules
  BY DEF WriteTests, CallModel
<1>4. asked' \in Nat
  BY <1>2, <1>3, OutcomeTypes
<1>5. CASE at' = [at EXCEPT !.stage = "pytest"] /\ UNCHANGED <<build, modules>>
  <2>1. at' \in Places /\ at'.stage \in PerSpec /\ at'.left = at.left
    BY <1>2, <1>5, Staged DEF Places, PerSpec
  <2>2. UNCHANGED <<build, modules>>
    BY <1>5
  <2> QED
    BY <1>1, <1>2, <1>4, <2>1, <2>2, MoveSteady, SteadySame
<1>6. CASE Raise /\ UNCHANGED modules
  BY <1>1, <1>2, <1>4, <1>6, RaiseSteady, SteadySame
<1> QED
  BY <1>3, <1>5, <1>6

LEMMA PytestStep == ASSUME StagesInv, Pytest PROVE StagesInv'
<1>1. at.stage = "pytest" /\ UNCHANGED <<client, attempt, blueprint, docker, containers, asked, leaked>>
  BY DEF Pytest, At
<1>2. at.stage \in PerSpec /\ modules \in [Tools -> Files] /\ asked' \in Nat
  BY <1>1 DEF PerSpec, StagesInv, StageTypes
<1>3. modules' \in [Tools -> Files]
  BY <1>2, CurrentTypes DEF Pytest, Files
<1>4. CASE Return("generating", blueprint.specs) \/ Return("failed", Listed({Current}))
  BY <1>1, <1>2, <1>3, <1>4, CurrentTypes, ReturnSteady, SteadySame
<1>5. CASE at.left # {Current} /\ at' = Place("module", at.left \ {Current}, 1) /\ UNCHANGED build
  <2>1. Current \in at.left /\ at.left \subseteq blueprint.specs /\ blueprint.specs \in SUBSET Tools
    BY <1>2, CurrentTypes DEF StagesInv, InPlace
  <2>2. at.left \ {Current} \in SUBSET Tools /\ at.left \ {Current} # {}
    BY <1>5, <2>1
  <2>3. at' \in Places /\ at'.stage = "module" /\ at'.left = at.left \ {Current}
    BY <1>5, <2>2, Staged, PlaceTypes
  <2>4. at'.stage \in PerSpec /\ at'.left \subseteq at.left /\ at'.left # {} /\ at' \in Places
    BY <2>2, <2>3 DEF PerSpec
  <2> QED
    BY <1>1, <1>2, <1>3, <1>5, <2>4, MoveSteady, SteadySame
<1>6. CASE Again("fix") /\ UNCHANGED build
  <2>1. at' \in Places /\ at'.stage \in PerSpec /\ at'.left = at.left /\ at'.left # {}
    BY <1>2, <1>6, AgainMoves DEF PerSpec
  <2> QED
    BY <1>1, <1>2, <1>3, <1>6, <2>1, MoveSteady, SteadySame
<1>7. CASE Raise
  BY <1>1, <1>2, <1>3, <1>7, RaiseSteady, SteadySame
<1> QED
  BY <1>4, <1>5, <1>6, <1>7 DEF Pytest, NextSpec

LEMMA FixStep == ASSUME StagesInv, Fix PROVE StagesInv'
<1>1. at.stage = "fix" /\ UNCHANGED <<client, attempt, blueprint, docker, containers, leaked>>
  BY DEF Fix, At
<1>2. at.stage \in PerSpec /\ modules \in [Tools -> Files] /\ asked \in Nat /\ at \in Places
      /\ at.left # {}
  BY <1>1 DEF PerSpec, StagesInv, StageTypes, InPlace
<1>3. PICK o \in Outcomes :
        /\ asked' = asked + o.asked
        /\ IF o.ok
           THEN \/ /\ modules' = [modules EXCEPT ![Current] = "written"]
                   /\ at' = [at EXCEPT !.stage = "pytest"]
                   /\ UNCHANGED build
                \/ Raise /\ UNCHANGED modules
           ELSE Raise /\ UNCHANGED modules
  BY DEF Fix, CallModel
<1>4. asked' \in Nat
  BY <1>2, <1>3, OutcomeTypes
<1>5. CASE /\ modules' = [modules EXCEPT ![Current] = "written"]
           /\ at' = [at EXCEPT !.stage = "pytest"]
           /\ UNCHANGED build
  <2>1. modules' \in [Tools -> Files]
    BY <1>2, <1>5, CurrentTypes DEF Files
  <2>2. at' \in Places /\ at'.stage = "pytest" /\ at'.left = at.left
    BY <1>2, <1>5, Staged DEF Places
  <2>3. at'.stage \in PerSpec /\ UNCHANGED build
    BY <1>5, <2>2 DEF PerSpec
  <2> QED
    BY <1>1, <1>2, <1>4, <2>1, <2>2, <2>3, MoveSteady, SteadySame
<1>6. CASE Raise /\ UNCHANGED modules
  BY <1>1, <1>2, <1>4, <1>6, RaiseSteady, SteadySame
<1> QED
  BY <1>3, <1>5, <1>6

LEMMA PackageStep == ASSUME StagesInv, Package PROVE StagesInv'
<1>1. at.stage = "package" /\ UNCHANGED <<client, attempt, blueprint, modules, docker, containers, asked, leaked>>
  BY DEF Package, At
<1>2. modules' \in [Tools -> Files] /\ asked' \in Nat /\ build.listed \subseteq blueprint.specs
  BY <1>1 DEF StagesInv, StageTypes
<1>3. CASE Raise
  BY <1>1, <1>2, <1>3, RaiseSteady, SteadySame
<1>4. ASSUME NEW status \in {"packaging", "failed"}, NEW stage \in {"desktop", "docker", "evaluate"}, Set(status, stage)
      PROVE  StagesInv'
  <2>1. status \in Statuses /\ stage \in Stages
    BY Staged DEF Statuses
  <2> QED
    BY <1>1, <1>2, <1>4, <2>1, SetTypes, SteadySame DEF Steady, Quiet, PerSpec
<1> QED
  BY <1>3, <1>4 DEF Package

LEMMA CorrectStep == ASSUME StagesInv, Correct PROVE StagesInv'
<1>1. at.stage = "correct" /\ UNCHANGED <<client, attempt, blueprint, modules, docker, containers, asked, leaked>>
  BY DEF Correct, At
<1>2. /\ modules' \in [Tools -> Files] /\ asked' \in Nat /\ build.listed \subseteq blueprint.specs
      /\ build \in Builds(attempt)
  BY <1>1 DEF StagesInv, StageTypes
<1>3. PICK stage \in {"generate", "end"} : Goto(stage)
  BY DEF Correct
<1>4. at' \in Places /\ at'.stage \in {"generate", "end"} /\ at'.left = {}
  BY <1>3, Staged, PlaceTypes DEF Goto
<1>5. /\ build' \in Builds(attempt) /\ build'.listed = build.listed /\ build'.status = build.status
      /\ build'.tag = build.tag /\ build'.tar = build.tar /\ build'.bundle = build.bundle /\ build'.installers = build.installers
  <2>1. CASE build.iter < MaxIter
    <3>1. build.iter + 1 \in 1..MaxIter
      BY <1>2, <2>1, StagesAssumption DEF Builds
    <3>2. build' = [build EXCEPT !.iter = build.iter + 1]
      BY <1>2, <2>1 DEF Correct
    <3> QED
      BY <1>2, <3>1, <3>2 DEF Builds
  <2>2. CASE ~(build.iter < MaxIter)
    BY <1>2, <2>2 DEF Correct
  <2> QED
    BY <2>1, <2>2
<1> QED
  BY <1>1, <1>2, <1>4, <1>5, SteadySame DEF Steady, Quiet, PerSpec

-----------------------------------------------------------------------------
(* The steps that touch Docker *)

(* What such a step has to show when it keeps the blueprint and ends       *)
(* outside the generator.                                                  *)
Settled ==
  /\ at' \in Places /\ at'.left = {} /\ at'.stage \notin PerSpec \cup {"design"}
  /\ attempt' = attempt /\ client' = client /\ blueprint' = blueprint /\ modules' = modules
  /\ asked' = asked
  /\ build' \in Builds(attempt) /\ build'.listed = build.listed
  /\ docker' \in Copies(attempt) /\ containers' \subseteq 1..attempt /\ leaked' \in BOOLEAN

LEMMA SettledKeeps ==
  ASSUME StagesInv, Settled, ImageIsFresh', PassedIsNotAccounting'
  PROVE  StagesInv'
<1>1. StageTypes'
  BY DEF Settled, StagesInv, StageTypes
<1>2. InPlace'
  BY DEF Settled, InPlace, At, StagesInv
<1>3. DesignServesClient'
  BY DEF Settled, DesignServesClient, StagesInv
<1> QED
  BY <1>1, <1>2, <1>3 DEF StagesInv

(* The build directory of this attempt.                                    *)
LEMMA HereTypes ==
  ASSUME StagesInv
  PROVE  Here \in Copies(attempt) /\ Here.attempt = attempt
<1>1. attempt \in 1..MaxTasks /\ MaxTasks \in Nat /\ modules \in [Tools -> Files]
  BY StagesAssumption DEF StagesInv, StageTypes
<1>2. attempt \in 0..attempt
  BY <1>1
<1> QED
  BY <1>1, <1>2 DEF Here, Copy, Copies

LEMMA DockerBuildStep == ASSUME StagesInv, DockerBuild PROVE StagesInv'
<1>1. at.stage = "docker" /\ UNCHANGED <<client, attempt, blueprint, modules, containers, asked, leaked>>
  BY DEF DockerBuild, At
<1>2. /\ modules' \in [Tools -> Files] /\ asked' \in Nat /\ build.listed \subseteq blueprint.specs
      /\ build \in Builds(attempt) /\ containers \subseteq 1..attempt /\ leaked \in BOOLEAN
  BY <1>1 DEF StagesInv, StageTypes
<1>3. CASE docker' = Here /\ Goto("save") /\ UNCHANGED build
  <2>1. at' \in Places /\ at'.stage = "save" /\ at'.left = {}
    BY <1>3, Staged, PlaceTypes DEF Goto
  <2>2. docker' \in Copies(attempt) /\ docker'.attempt = attempt
    BY <1>3, HereTypes
  <2>3. Settled
    BY <1>1, <1>2, <1>3, <2>1, <2>2 DEF Settled, PerSpec
  <2>4. ImageIsFresh'
    BY <1>1, <1>3, <2>1, <2>2 DEF StagesInv, ImageIsFresh, NothingStaleIsNamed, At
  <2>5. PassedIsNotAccounting'
    BY <1>1, <1>3 DEF StagesInv, PassedIsNotAccounting
  <2> QED
    BY <2>3, <2>4, <2>5, SettledKeeps
<1>4. CASE Set("failed", "evaluate") /\ UNCHANGED docker
  <2>1. "failed" \in Statuses /\ "evaluate" \in Stages
    BY Staged DEF Statuses
  <2> QED
    BY <1>1, <1>2, <1>4, <2>1, SetTypes, SteadySame DEF Steady, Quiet, PerSpec
<1>5. CASE Raise /\ UNCHANGED docker
  BY <1>1, <1>2, <1>5, RaiseSteady, SteadySame
<1> QED
  BY <1>3, <1>4, <1>5 DEF DockerBuild

LEMMA DockerSaveStep == ASSUME StagesInv, DockerSave PROVE StagesInv'
<1>1. at.stage = "save" /\ UNCHANGED <<client, attempt, blueprint, modules, docker, containers, asked, leaked>>
  BY DEF DockerSave, At
<1>2. /\ modules' \in [Tools -> Files] /\ asked' \in Nat /\ build.listed \subseteq blueprint.specs
      /\ build \in Builds(attempt) /\ containers \subseteq 1..attempt /\ leaked \in BOOLEAN
      /\ docker \in Copies(attempt)
  BY <1>1 DEF StagesInv, StageTypes
<1>3. ASSUME NEW stage \in {"bundle", "evaluate"}, Goto(stage),
             build' = [build EXCEPT !.tag = TRUE, !.tar = docker]
      PROVE  StagesInv'
  <2>1. at' \in Places /\ at'.stage \in {"bundle", "evaluate"} /\ at'.left = {}
    BY <1>3, Staged, PlaceTypes DEF Goto
  <2>2. /\ build' \in Builds(attempt) /\ build'.listed = build.listed /\ build'.status = build.status
        /\ build'.tar = docker /\ build'.bundle = build.bundle /\ build'.installers = build.installers
    BY <1>2, <1>3 DEF Builds
  <2>3. Settled
    BY <1>1, <1>2, <2>1, <2>2 DEF Settled, PerSpec
  <2>4. ImageIsFresh'
    BY <1>1, <2>1, <2>2 DEF StagesInv, ImageIsFresh, NothingStaleIsNamed, At
  <2>5. PassedIsNotAccounting'
    BY <1>1, <2>2 DEF StagesInv, PassedIsNotAccounting
  <2> QED
    BY <2>3, <2>4, <2>5, SettledKeeps
<1>4. CASE Set("failed", "evaluate")
  <2>1. "failed" \in Statuses /\ "evaluate" \in Stages
    BY Staged DEF Statuses
  <2> QED
    BY <1>1, <1>2, <1>4, <2>1, SetTypes, SteadySame DEF Steady, Quiet, PerSpec
<1>5. CASE Raise
  BY <1>1, <1>2, <1>5, RaiseSteady, SteadySame
<1> QED
  BY <1>3, <1>4, <1>5 DEF DockerSave

LEMMA DesktopStep == ASSUME StagesInv, Desktop PROVE StagesInv'
<1>1. at.stage = "desktop" /\ UNCHANGED <<client, attempt, blueprint, modules, docker, containers, asked, leaked>>
  BY DEF Desktop, At
<1>2. /\ modules' \in [Tools -> Files] /\ asked' \in Nat /\ build.listed \subseteq blueprint.specs
      /\ build \in Builds(attempt) /\ containers \subseteq 1..attempt /\ leaked \in BOOLEAN
      /\ docker \in Copies(attempt)
  BY <1>1 DEF StagesInv, StageTypes
<1>3. ASSUME NEW found \in {Here, build.installers},
             build' = [build EXCEPT !.installers = found], Goto("docker")
      PROVE  StagesInv'
  <2>1. at' \in Places /\ at'.stage = "docker" /\ at'.left = {}
    BY <1>3, Staged, PlaceTypes DEF Goto
  <2>2. found \in Copies(attempt) /\ found.attempt \in {0, attempt}
    BY <1>2, HereTypes DEF Builds, StagesInv, ImageIsFresh, NothingStaleIsNamed
  <2>3. /\ build' \in Builds(attempt) /\ build'.listed = build.listed /\ build'.status = build.status
        /\ build'.tag = build.tag /\ build'.tar = build.tar /\ build'.bundle = build.bundle
        /\ build'.installers = found
    BY <1>2, <1>3, <2>2 DEF Builds
  <2>4. Settled
    BY <1>1, <1>2, <2>1, <2>3 DEF Settled, PerSpec
  <2>5. ImageIsFresh'
    BY <1>1, <2>1, <2>2, <2>3 DEF StagesInv, ImageIsFresh, NothingStaleIsNamed, At
  <2>6. PassedIsNotAccounting'
    BY <1>1, <2>3 DEF StagesInv, PassedIsNotAccounting
  <2> QED
    BY <2>4, <2>5, <2>6, SettledKeeps
<1>4. CASE Set("failed", "evaluate")
  <2>1. "failed" \in Statuses /\ "evaluate" \in Stages
    BY Staged DEF Statuses
  <2> QED
    BY <1>1, <1>2, <1>4, <2>1, SetTypes, SteadySame DEF Steady, Quiet, PerSpec
<1>5. CASE Raise
  BY <1>1, <1>2, <1>5, RaiseSteady, SteadySame
<1> QED
  BY <1>3, <1>4, <1>5 DEF Desktop

LEMMA ServerBundleStep == ASSUME StagesInv, ServerBundle PROVE StagesInv'
<1>1. at.stage = "bundle" /\ UNCHANGED <<client, attempt, blueprint, modules, docker, containers, asked, leaked>>
  BY DEF ServerBundle, At
<1>2. /\ modules' \in [Tools -> Files] /\ asked' \in Nat /\ build.listed \subseteq blueprint.specs
      /\ build \in Builds(attempt) /\ containers \subseteq 1..attempt /\ leaked \in BOOLEAN
      /\ docker \in Copies(attempt)
  BY <1>1 DEF StagesInv, StageTypes
<1>3. CASE build' = [build EXCEPT !.bundle = Here] /\ Goto("evaluate")
  <2>1. at' \in Places /\ at'.stage = "evaluate" /\ at'.left = {}
    BY <1>3, Staged, PlaceTypes DEF Goto
  <2>2. /\ build' \in Builds(attempt) /\ build'.listed = build.listed /\ build'.status = build.status
        /\ build'.tag = build.tag /\ build'.tar = build.tar /\ build'.bundle.attempt = attempt /\ build'.installers = build.installers
    BY <1>2, <1>3, HereTypes DEF Builds
  <2>3. Settled
    BY <1>1, <1>2, <2>1, <2>2 DEF Settled, PerSpec
  <2>4. ImageIsFresh'
    BY <1>1, <2>1, <2>2 DEF StagesInv, ImageIsFresh, NothingStaleIsNamed, At
  <2>5. PassedIsNotAccounting'
    BY <1>1, <2>2 DEF StagesInv, PassedIsNotAccounting
  <2> QED
    BY <2>3, <2>4, <2>5, SettledKeeps
<1>4. CASE Raise
  BY <1>1, <1>2, <1>4, RaiseSteady, SteadySame
<1> QED
  BY <1>3, <1>4 DEF ServerBundle

LEMMA StartContainerStep == ASSUME StagesInv, StartContainer PROVE StagesInv'
<1>1. at.stage = "evaluate" /\ UNCHANGED <<client, attempt, blueprint, modules, docker, asked, leaked>>
  BY DEF StartContainer, At
<1>2. /\ modules' \in [Tools -> Files] /\ asked' \in Nat /\ build.listed \subseteq blueprint.specs
      /\ build \in Builds(attempt) /\ containers \subseteq 1..attempt /\ leaked \in BOOLEAN
      /\ docker \in Copies(attempt) /\ attempt \in 1..MaxTasks /\ MaxTasks \in Nat
  BY <1>1, StagesAssumption DEF StagesInv, StageTypes
<1>3. "failed" \in Statuses /\ "evaluating" \in Statuses /\ "correct" \in Stages /\ "suites" \in Stages
  BY Staged DEF Statuses
<1>4. CASE Set("failed", "correct") /\ UNCHANGED containers
  BY <1>1, <1>2, <1>3, <1>4, SetTypes, SteadySame DEF Steady, Quiet, PerSpec
<1>5. CASE build.tag /\ containers' = containers \cup {docker.attempt} /\ Set("evaluating", "suites")
  <2>1. /\ at' \in Places /\ at'.stage = "suites" /\ at'.left = {}
        /\ build' \in Builds(attempt) /\ build'.listed = build.listed /\ build'.status = "evaluating"
        /\ build'.tag = build.tag /\ build'.tar = build.tar /\ build'.bundle = build.bundle /\ build'.installers = build.installers
    BY <1>3, <1>5, SetTypes
  <2>2. docker.attempt = attempt
    BY <1>5 DEF StagesInv, ImageIsFresh, NothingStaleIsNamed
  <2>3. containers' = containers \cup {attempt} /\ containers' \subseteq 1..attempt
    BY <1>2, <1>5, <2>2
  <2>4. Settled
    BY <1>1, <1>2, <2>1, <2>3 DEF Settled, PerSpec
  <2>5. ImageIsFresh'
    BY <1>1, <2>1, <2>2, <2>3 DEF StagesInv, ImageIsFresh, NothingStaleIsNamed, At
  <2>6. PassedIsNotAccounting'
    BY <2>1 DEF PassedIsNotAccounting
  <2> QED
    BY <2>4, <2>5, <2>6, SettledKeeps
<1>6. CASE Raise /\ UNCHANGED containers
  BY <1>1, <1>2, <1>6, RaiseSteady, SteadySame
<1> QED
  BY <1>4, <1>5, <1>6 DEF StartContainer

(* An accounting employee does not pass: its packs fail the baseline.      *)
LEMMA PassedVerdict ==
  ASSUME "passed" \in Verdicts
  PROVE  "accounting" \notin client.req.role
<1>1. PICK conduct \in Conducts :
        SuitesPass(SuiteProfile(client.req.role, blueprint.workflow), Config, conduct)
  BY DEF Verdicts
<1>2. \A case \in BaselineCases : LaneIsExpected(case, Config.packs)
  BY <1>1 DEF SuitesPass, BaselinePasses, MeetsContract
<1>3. Config.packs = SelectPacks(client.req.role, client.req.tools)
  BY DEF Config, RuntimeConfig
<1> QED
  BY <1>2, <1>3, BaselineLanes

LEMMA RunSuitesStep == ASSUME StagesInv, RunSuites PROVE StagesInv'
<1>1. at.stage = "suites" /\ UNCHANGED <<client, attempt, blueprint, modules, docker, asked>>
  BY DEF RunSuites, At
<1>2. /\ containers \subseteq 1..attempt /\ leaked \in BOOLEAN /\ docker \in Copies(attempt)
  BY <1>1 DEF StagesInv, StageTypes
<1>3. PICK v \in Verdicts :
        /\ StopContainer(v)
        /\ CASE v = "passed" -> Set("passed", "end")
             [] v = "failed" -> Set("failed", "correct")
             [] v = "raises" -> Raise
  BY DEF RunSuites
<1>4. v \in {"passed", "failed", "raises"}
  BY <1>3 DEF Verdicts
<1>5. /\ at' \in Places /\ at'.stage \in {"end", "correct"} /\ at'.left = {}
      /\ build' \in Builds(attempt) /\ build'.listed = build.listed
      /\ build'.tag = build.tag /\ build'.tar = build.tar /\ build'.bundle = build.bundle /\ build'.installers = build.installers
      /\ build'.status = IF v = "passed" THEN "passed" ELSE "failed"
  <2>1. "failed" \in Statuses /\ "passed" \in Statuses /\ "correct" \in Stages /\ "end" \in Stages
    BY Staged DEF Statuses
  <2>2. CASE v = "passed"
    BY <1>3, <2>1, <2>2, SetTypes
  <2>3. CASE v = "failed"
    BY <1>3, <2>1, <2>3, SetTypes
  <2>4. CASE v = "raises"
    BY <1>3, <2>4, RaiseTypes
  <2> QED
    BY <1>4, <2>2, <2>3, <2>4
<1>6. /\ containers' \subseteq 1..attempt /\ leaked' \in BOOLEAN
      /\ leaked' \/ (containers' = containers \ {attempt} /\ leaked' = leaked)
  BY <1>2, <1>3 DEF StopContainer
<1>7. Settled
  BY <1>1, <1>2, <1>5, <1>6 DEF Settled, PerSpec
<1>8. ImageIsFresh'
  BY <1>1, <1>5, <1>6 DEF StagesInv, ImageIsFresh, NothingStaleIsNamed, At
<1>9. PassedIsNotAccounting'
  BY <1>1, <1>5, PassedVerdict DEF PassedIsNotAccounting
<1> QED
  BY <1>7, <1>8, <1>9, SettledKeeps

LEMMA DieStep == ASSUME StagesInv, Die PROVE StagesInv'
<1>1. /\ UNCHANGED <<client, attempt, blueprint, build, modules, docker, containers, asked>>
      /\ leaked' = (leaked \/ At("suites"))
  BY DEF Die
<1>2. /\ containers \subseteq 1..attempt /\ leaked \in BOOLEAN /\ docker \in Copies(attempt)
      /\ build \in Builds(attempt)
  BY DEF StagesInv, StageTypes
<1>3. at' \in Places /\ at'.stage = "dead" /\ at'.left = {}
  BY Staged, PlaceTypes DEF Die, Goto
<1>4. leaked' \in BOOLEAN
  BY <1>1, <1>2
<1>5. Settled
  BY <1>1, <1>2, <1>3, <1>4 DEF Settled, PerSpec
<1>6. ImageIsFresh'
  BY <1>1, <1>3 DEF StagesInv, ImageIsFresh, NothingStaleIsNamed, At
<1>7. PassedIsNotAccounting'
  BY <1>1 DEF StagesInv, PassedIsNotAccounting
<1> QED
  BY <1>5, <1>6, <1>7, SettledKeeps

-----------------------------------------------------------------------------
(* The first task and its retries *)

(* What the first task starts from, and each retry.                        *)
Fresh ==
  /\ at = Place("design", {}, 0) /\ blueprint = NoBlueprint /\ build = NewBuild

LEMMA FreshTypes ==
  ASSUME Fresh, attempt \in 1..MaxTasks
  PROVE  /\ at \in Places /\ at.stage = "design" /\ at.left = {}
         /\ blueprint.specs = {} /\ blueprint.gaps_by = "none"
         /\ build \in Builds(attempt) /\ build.listed = {} /\ build.status = "queued"
         /\ ~build.tag /\ build.bundle.attempt = 0 /\ build.installers.attempt = 0
<1>1. at \in Places /\ at.stage = "design" /\ at.left = {}
  BY Staged, PlaceTypes DEF Fresh
<1>2. blueprint.specs = {} /\ blueprint.gaps_by = "none"
  BY DEF Fresh, NoBlueprint
<1>3. NoCopy \in Copies(attempt) /\ NoCopy.attempt = 0
  BY StagesAssumption DEF NoCopy, Copy, Copies, Files
<1>4. "queued" \in Statuses /\ 1 \in 1..MaxIter
  BY StagesAssumption DEF Statuses
<1>5. build \in Builds(attempt) /\ build.listed = {} /\ build.status = "queued" /\ ~build.tag
      /\ build.bundle.attempt = 0 /\ build.installers.attempt = 0
  BY <1>3, <1>4 DEF Fresh, NewBuild, Builds
<1> QED
  BY <1>1, <1>2, <1>5

FreshState ==
  /\ Fresh /\ attempt \in 1..MaxTasks
  /\ client.req \in Requirements
  /\ \E g \in Routers : client.router = g.router /\ client.key = g.key
  /\ modules \in [Tools -> Files] /\ docker \in Copies(attempt) /\ containers \subseteq 1..attempt
  /\ asked \in Nat /\ leaked \in BOOLEAN /\ (~leaked => containers = {})

LEMMA FreshInv == FreshState => StagesInv
<1>. SUFFICES ASSUME FreshState PROVE StagesInv
  OBVIOUS
<1>0. Fresh /\ attempt \in 1..MaxTasks
  BY DEF FreshState
<1>1. StageTypes
  BY <1>0, FreshTypes DEF StageTypes, FreshState
<1>2. InPlace
  BY <1>0, FreshTypes DEF InPlace, PerSpec
<1>3. ImageIsFresh
  BY <1>0, FreshTypes DEF ImageIsFresh, NothingStaleIsNamed, At, FreshState
<1>4. PassedIsNotAccounting
  BY <1>0, FreshTypes DEF PassedIsNotAccounting
<1>5. DesignServesClient
  BY <1>0, FreshTypes DEF DesignServesClient
<1> QED
  BY <1>1, <1>2, <1>3, <1>4, <1>5 DEF StagesInv

LEMMA InitInv == Init => StagesInv
<1>. SUFFICES ASSUME Init PROVE FreshState
  BY FreshInv
<1>1. /\ at = Place("design", {}, 0) /\ attempt = 1 /\ blueprint = NoBlueprint /\ build = NewBuild
      /\ modules = [t \in Tools |-> "none"] /\ docker = NoCopy /\ containers = {} /\ asked = 0
      /\ leaked = FALSE
  BY DEF Init
<1>2. 1 \in 1..MaxTasks
  BY StagesAssumption
<1>3. modules \in [Tools -> Files] /\ NoCopy \in Copies(1)
  BY <1>1 DEF Files, NoCopy, Copy, Copies
<1>4. client.req \in Requirements /\ \E g \in Routers : client.router = g.router /\ client.key = g.key
  BY DEF Init
<1> QED
  BY <1>1, <1>2, <1>3, <1>4 DEF FreshState, Fresh

LEMMA RetryStep == ASSUME StagesInv, Retry PROVE StagesInv'
<1>1. /\ at.stage = "end" /\ attempt < MaxTasks /\ attempt' = attempt + 1 /\ build' = NewBuild
      /\ blueprint' = NoBlueprint /\ asked' = 0 /\ at' = Place("design", {}, 0)
      /\ UNCHANGED <<client, modules, docker, containers, leaked>>
  BY DEF Retry, At, Goto
<1>2. /\ attempt \in 1..MaxTasks /\ MaxTasks \in Nat /\ modules \in [Tools -> Files]
      /\ docker \in Copies(attempt) /\ containers \subseteq 1..attempt /\ leaked \in BOOLEAN
      /\ client.req \in Requirements /\ \E g \in Routers : client.router = g.router /\ client.key = g.key
  BY StagesAssumption DEF StagesInv, StageTypes
<1>3. attempt' \in 1..MaxTasks /\ 1..attempt \subseteq 1..attempt' /\ 0..attempt \subseteq 0..attempt'
  BY <1>1, <1>2
<1>4. docker' \in Copies(attempt')
  BY <1>1, <1>2, <1>3 DEF Copies
<1>5. ~leaked => containers = {}
  BY <1>1 DEF StagesInv, ImageIsFresh, At
<1>6. FreshState'
  BY <1>1, <1>2, <1>3, <1>4, <1>5 DEF FreshState, Fresh
<1> QED
  BY <1>6, FreshInv, PTL

-----------------------------------------------------------------------------
(* The invariant and what follows from it *)

(* The invariant of a build: the types, the specs under generation, the    *)
(* freshness of Docker's image (packager.py:38), and that what has passed  *)
(* is no accounting employee.                                              *)
THEOREM StagesInvariant == Spec => []StagesInv
<1>1. Init => StagesInv
  BY InitInv
<1>2. StagesInv /\ [Next]_vars => StagesInv'
  <2>. SUFFICES ASSUME StagesInv, [Next]_vars PROVE StagesInv'
    OBVIOUS
  <2>1. CASE Stage
    BY <2>1, DesignStep, AssembleStep, GenerateStep, WriteModuleStep, WriteTestsStep, PytestStep,
       FixStep, PackageStep, DesktopStep, DockerBuildStep, DockerSaveStep, ServerBundleStep, StartContainerStep,
       RunSuitesStep, CorrectStep DEF Stage
  <2>2. CASE Die
    BY <2>2, DieStep
  <2>3. CASE Retry
    BY <2>3, RetryStep
  <2>4. CASE UNCHANGED vars
    BY <2>4 DEF vars, StagesInv, StageTypes, InPlace, ImageIsFresh, NothingStaleIsNamed,
                PassedIsNotAccounting, DesignServesClient, At
  <2> QED
    BY <2>1, <2>2, <2>3, <2>4 DEF Next
<1> QED
  BY <1>1, <1>2, PTL DEF Spec

(* Every variable of a build keeps its type: the iterations stay within    *)
(* max_generation_iterations (pipeline_worker.py's correction_loop) and    *)
(* metadata lists only files of the blueprint's specs.                     *)
THEOREM StagesTypeOK == Spec => []TypeOK
<1>1. StagesInv => TypeOK
  BY DEF StagesInv, StageTypes, TypeOK, Builds, Copies, Statuses, Places
<1> QED
  BY <1>1, StagesInvariant, PTL

(* Whatever component list a model proposes and whatever follows, each     *)
(* tool the client asked for is served by a permitted component or by      *)
(* custom code when the rules find the gaps (gap_analyzer.py:72).          *)
THEOREM StagesDesignServesClient == Spec => []DesignServesClient
<1>1. StagesInv => DesignServesClient
  BY DEF StagesInv
<1> QED
  BY <1>1, StagesInvariant, PTL

(* Although a retry reuses the image tag and the build directory of the    *)
(* attempts before it, what is evaluated and what metadata names is of     *)
(* this attempt (packager.py:38, 127).                                     *)
THEOREM StagesNothingStaleIsNamed == Spec => []NothingStaleIsNamed
<1>1. StagesInv => NothingStaleIsNamed
  BY DEF StagesInv, ImageIsFresh
<1> QED
  BY <1>1, StagesInvariant, PTL

(* An evaluation container runs after its evaluation only if Docker did    *)
(* not stop it or the worker died in it (test_runner.py:96-100).           *)
THEOREM StagesNoStrayContainer == Spec => []NoStrayContainer
<1>1. StagesInv => NoStrayContainer
  BY DEF StagesInv, ImageIsFresh, NoStrayContainer
<1> QED
  BY <1>1, StagesInvariant, PTL

(* No build of an employee whose role says accounting ever passes its      *)
(* evaluation, whatever the employee does: the words that select the       *)
(* accounting pack put the baseline's business process into the hybrid     *)
(* lane (baseline_tests.py:29, kernel.py:84).                              *)
THEOREM AccountantNeverPasses ==
  Spec => [](build.status = "passed" => "accounting" \notin client.req.role)
<1>1. StagesInv => (build.status = "passed" => "accounting" \notin client.req.role)
  BY DEF StagesInv, PassedIsNotAccounting
<1> QED
  BY <1>1, StagesInvariant, PTL
=============================================================================
