----------------------------- MODULE ServiceState -----------------------------
(***************************************************************************)
(* What the runtime service keeps in the operational memory and in the     *)
(* knowledge base: corrections, settings, the portal's quiet-hours rule    *)
(* and documents.  A handler is one call; each repository, tool or         *)
(* embedding call it awaits is a step of its own, and may raise.           *)
(*                                                                         *)
(* The lists are taken to stay below the 100 entries list_by_category      *)
(* returns.                                                                *)
(***************************************************************************)
EXTENDS Naturals, FiniteSets

CONSTANTS
  Calls,      \* calls of the service
  Tasks,      \* tasks a correction may be about
  Patterns,   \* normalised correction texts
  Documents,  \* knowledge documents
  Workloads,  \* the sets of operations the clients may be using
  MaxFaults,  \* bound on exceptions
  None        \* nothing there

VARIABLES
  workload,   \* the operations this run's clients use
  call,       \* each call: [stage, op, seen, read, count], see NoCall
  corrections,\* the correction:{task}:{n} entries
  learned,    \* the repeat count of each learning:{pattern} entry
  escalated,  \* the forge_escalation:{pattern} entries
  outcome,    \* the correction the row of each task carries
  answered,   \* calls whose correction is in the conversation and in the trail
  prefs,      \* the entries pref:settings_profile and pref:quiet_hours
  portalRule, \* after_hour of the portal's quiet-hours rule
  ruleBefore, \* history: the portal's rule when each call began
  files,      \* the upload each stored file comes from
  chunks,     \* the calls whose chunks each document has
  faults

vars == <<workload, call, corrections, learned, escalated, outcome, answered, prefs, portalRule,
          ruleBefore, files, chunks, faults>>

-----------------------------------------------------------------------------
(* Settings *)

(* quiet stands for communication_preferences.quiet_hours, tone for every  *)
(* other field of the profile.                                             *)
Quiets == {"after_5pm", "after_6pm", "after_7pm", "weekends"}
Tones == {"balanced", "formal"}
Settings == [quiet : Quiets, tone : Tones]
Patches == UNION {[fields -> Quiets \cup Tones] : fields \in SUBSET {"quiet", "tone"}}

Default == [quiet |-> "after_5pm", tone |-> "balanced"]

(* _parse_quiet_hours: other values are no hour.                           *)
HourOf == [after_5pm |-> 17, after_6pm |-> 18, after_7pm |-> 19]

(* Mutation of Merge: communication_preferences is replaced as a whole.    *)
Merge_Shallow(base, patch) ==
  [f \in DOMAIN Default |-> IF f \in DOMAIN patch THEN patch[f] ELSE Default[f]]

(* _merge_nested_dicts: the patch takes precedence, field by field.        *)
Merge(base, patch) ==
  [f \in DOMAIN base \cup DOMAIN patch |-> IF f \in DOMAIN patch THEN patch[f] ELSE base[f]]

Absent == [category |-> "none", value |-> None]
Entry(category, value) == [category |-> category, value |-> value]

(* get_settings lists the entries of one category.                         *)
Preference(key) == prefs[key].category = "preference"

GetSettings ==
  LET profile == IF Preference("profile") THEN Merge(Default, prefs["profile"].value)
                 ELSE Default
  IN  IF Preference("quiet") THEN [profile EXCEPT !.quiet = prefs["quiet"].value.quiet]
      ELSE profile

-----------------------------------------------------------------------------
(* Calls *)

(* An edit of the quiet hours keeps the entry's form.                      *)
Operations ==
  [kind : {"correct"}, task : Tasks, pattern : Patterns]
    \cup [kind : {"put"}, patch : Patches]
    \cup [kind : {"portal"}, hour : {HourOf[q] : q \in DOMAIN HourOf}]
    \cup {e \in [kind : {"edit"}, key : {"profile", "quiet"}, value : Patches,
                  category : {"none", "preference"}] : e.key = "quiet" => "quiet" \in DOMAIN e.value}
    \cup [kind : {"delete"}, key : {"profile", "quiet"}]
    \cup [kind : {"upload", "upsert"}, document : Documents, replace : BOOLEAN]

ASSUME ServiceAssumption ==
  /\ MaxFaults \in Nat /\ None \notin Calls \cup Patterns \cup Patches
  /\ IsFiniteSet(Calls)
  /\ \A w \in Workloads : w \subseteq Operations

(* seen: the calls that had ended when this one began; read: what it read  *)
(* and keeps across its awaits; count: the repeat count of a correction.   *)
NoCall == [stage |-> "idle", op |-> None, seen |-> {}, read |-> None, count |-> 0]

Kind(c) == call[c].op.kind
At(c, stage) == call[c].stage = stage
Goto(c, stage) == call' = [call EXCEPT ![c].stage = stage]
Ended == {c \in Calls : call[c].stage \in {"done", "failed"}}

(* The first await of each handler.                                        *)
Entrance == [correct |-> "list", put |-> "profile", portal |-> "rule", edit |-> "resolve",
             delete |-> "delete", upload |-> "file", upsert |-> "clear"]

Begins(c, op, read) ==
  /\ call[c] = NoCall
  /\ call' = [call EXCEPT ![c] = [stage |-> Entrance[op.kind], op |-> op, seen |-> Ended,
                                  read |-> read, count |-> 0]]

-----------------------------------------------------------------------------
Init ==
  /\ workload \in Workloads
  /\ call = [c \in Calls |-> NoCall]
  /\ corrections = [slot \in Tasks \X (1..Cardinality(Calls)) |-> None]
  /\ learned = [p \in Patterns |-> 0]
  /\ escalated = {}
  /\ outcome = [t \in Tasks |-> None]
  /\ answered = {}
  /\ prefs = [key \in {"profile", "quiet"} |-> Absent]
  /\ portalRule = 0
  /\ ruleBefore = [c \in Calls |-> 0]
  /\ files = [d \in Documents |-> None]
  /\ chunks = [d \in Documents |-> {}]
  /\ faults = 0

settingsVars == <<prefs, portalRule>>
correctionVars == <<corrections, learned, escalated, outcome, answered>>
knowledgeVars == <<files, chunks>>

(* A handler that awaits nothing before its first read or write starts     *)
(* with it: put_settings reads the settings, a correction its task.        *)
Start(c) ==
  /\ \E op \in workload : Begins(c, op, IF op.kind = "put" THEN GetSettings ELSE None)
  /\ ruleBefore' = [ruleBefore EXCEPT ![c] = portalRule]
  /\ UNCHANGED <<workload, correctionVars, settingsVars, knowledgeVars, faults>>

-----------------------------------------------------------------------------
(* record_correction *)

(* Mutation of Repeats: only the corrections of the same task are counted. *)
Repeats_OfTask(c) ==
  1 + Cardinality({slot \in DOMAIN corrections :
                     slot[1] = call[c].op.task /\ corrections[slot] = call[c].op.pattern})

Repeats(c) ==
  1 + Cardinality({slot \in DOMAIN corrections : corrections[slot] = call[c].op.pattern})

ListCorrections(c) ==
  /\ At(c, "list")
  /\ call' = [call EXCEPT ![c].stage = "record", ![c].count = Repeats(c)]
  /\ UNCHANGED <<workload, ruleBefore, correctionVars, settingsVars, knowledgeVars, faults>>

StoreCorrection(c) ==
  /\ At(c, "record")
  /\ corrections' = [corrections EXCEPT ![<<call[c].op.task, call[c].count>>] = call[c].op.pattern]
  /\ Goto(c, "learn")
  /\ UNCHANGED <<workload, ruleBefore, learned, escalated, outcome, answered, settingsVars,
                 knowledgeVars, faults>>

StoreLearning(c) ==
  /\ At(c, "learn")
  /\ learned' = [learned EXCEPT ![call[c].op.pattern] = call[c].count]
  /\ Goto(c, IF call[c].count >= 2 THEN "escalate" ELSE "update")
  /\ UNCHANGED <<workload, ruleBefore, corrections, escalated, outcome, answered, settingsVars,
                 knowledgeVars, faults>>

StoreEscalation(c) ==
  /\ At(c, "escalate")
  /\ escalated' = escalated \cup {call[c].op.pattern}
  /\ Goto(c, "update")
  /\ UNCHANGED <<workload, ruleBefore, corrections, learned, outcome, answered, settingsVars,
                 knowledgeVars, faults>>

(* update_task without a status: the row gets the copy read at the start.  *)
UpdateTask(c) ==
  /\ At(c, "update")
  /\ outcome' = [outcome EXCEPT ![call[c].op.task] = call[c].op.pattern]
  /\ Goto(c, "tell")
  /\ UNCHANGED <<workload, ruleBefore, corrections, learned, escalated, answered, settingsVars,
                 knowledgeVars, faults>>

(* The status_update message, then the audit event.                        *)
Acknowledge(c) ==
  /\ At(c, "tell")
  /\ Goto(c, "audit")
  /\ UNCHANGED <<workload, ruleBefore, correctionVars, settingsVars, knowledgeVars, faults>>

AuditCorrection(c) ==
  /\ At(c, "audit")
  /\ answered' = answered \cup {c}
  /\ Goto(c, "done")
  /\ UNCHANGED <<workload, ruleBefore, corrections, learned, escalated, outcome, settingsVars,
                 knowledgeVars, faults>>

-----------------------------------------------------------------------------
(* put_settings, add_portal_rule *)

NextSettings(c) == Merge(call[c].read, call[c].op.patch)

StoreProfile(c) ==
  /\ At(c, "profile")
  /\ prefs' = [prefs EXCEPT !["profile"] = Entry("preference", NextSettings(c))]
  /\ Goto(c, "quiet")
  /\ UNCHANGED <<workload, ruleBefore, correctionVars, portalRule, knowledgeVars, faults>>

StoreQuietHours(c) ==
  /\ At(c, "quiet")
  /\ prefs' = [prefs EXCEPT !["quiet"] = Entry("preference", [quiet |-> NextSettings(c).quiet])]
  /\ Goto(c, IF NextSettings(c).quiet \in DOMAIN HourOf THEN "rule" ELSE "reread")
  /\ UNCHANGED <<workload, ruleBefore, correctionVars, portalRule, knowledgeVars, faults>>

(* set_portal_quiet_hours: one rule with a fixed id, whoever sets it.      *)
SetPortalRule(c) ==
  /\ At(c, "rule")
  /\ portalRule' = IF Kind(c) = "put" THEN HourOf[NextSettings(c).quiet] ELSE call[c].op.hour
  /\ Goto(c, IF Kind(c) = "put" THEN "reread" ELSE "done")
  /\ UNCHANGED <<workload, ruleBefore, correctionVars, prefs, knowledgeVars, faults>>

(* The reply is read back.                                                 *)
Reread(c) ==
  /\ At(c, "reread")
  /\ Goto(c, "done")
  /\ UNCHANGED <<workload, ruleBefore, correctionVars, settingsVars, knowledgeVars, faults>>

-----------------------------------------------------------------------------
(* update_operational_memory and delete_operational_memory *)

(* Mutation of Resolved: an entry that is not there leaves no category.    *)
Resolved_Blank(op, existing) ==
  IF op.category # "none" THEN op.category ELSE existing.category

Resolved(op, existing) ==
  IF op.category # "none" THEN op.category
  ELSE IF existing.category # "none" THEN existing.category ELSE "general"

Retrieve(c) ==
  /\ At(c, "resolve")
  /\ call' = [call EXCEPT ![c].stage = "store",
                          ![c].read = Resolved(call[c].op, prefs[call[c].op.key])]
  /\ UNCHANGED <<workload, ruleBefore, correctionVars, settingsVars, knowledgeVars, faults>>

StoreEntry(c) ==
  /\ At(c, "store")
  /\ prefs' = [prefs EXCEPT ![call[c].op.key] = Entry(call[c].read, call[c].op.value)]
  /\ Goto(c, "done")
  /\ UNCHANGED <<workload, ruleBefore, correctionVars, portalRule, knowledgeVars, faults>>

DeleteEntry(c) ==
  /\ At(c, "delete")
  /\ prefs' = [prefs EXCEPT ![call[c].op.key] = Absent]
  /\ Goto(c, "done")
  /\ UNCHANGED <<workload, ruleBefore, correctionVars, portalRule, knowledgeVars, faults>>

-----------------------------------------------------------------------------
(* upload_document and upsert_knowledge_document *)

(* The file store replaces the file of that name.                          *)
UploadFile(c) ==
  /\ At(c, "file")
  /\ files' = [files EXCEPT ![call[c].op.document] = c]
  /\ Goto(c, "extract")
  /\ UNCHANGED <<workload, ruleBefore, correctionVars, settingsVars, chunks, faults>>

ExtractText(c) ==
  /\ At(c, "extract")
  /\ Goto(c, "clear")
  /\ UNCHANGED <<workload, ruleBefore, correctionVars, settingsVars, knowledgeVars, faults>>

(* Mutation of ClearDocument: replace_existing is read the wrong way.      *)
ClearDocument_Inverted(c) ==
  /\ At(c, "clear")
  /\ chunks' = [chunks EXCEPT ![call[c].op.document] = IF call[c].op.replace THEN @ ELSE {}]
  /\ Goto(c, "embed")
  /\ UNCHANGED <<workload, ruleBefore, correctionVars, settingsVars, files, faults>>

(* The deletion commits by itself, before the new text is embedded.        *)
ClearDocument(c) ==
  /\ At(c, "clear")
  /\ chunks' = [chunks EXCEPT ![call[c].op.document] = IF call[c].op.replace THEN {} ELSE @]
  /\ Goto(c, "embed")
  /\ UNCHANGED <<workload, ruleBefore, correctionVars, settingsVars, files, faults>>

(* One awaited embedding for each chunk.                                   *)
Embed(c) ==
  /\ At(c, "embed")
  /\ Goto(c, "insert")
  /\ UNCHANGED <<workload, ruleBefore, correctionVars, settingsVars, knowledgeVars, faults>>

(* ingest adds all the chunks in one transaction.                          *)
InsertChunks(c) ==
  /\ At(c, "insert")
  /\ chunks' = [chunks EXCEPT ![call[c].op.document] = @ \cup {c}]
  /\ Goto(c, "documents")
  /\ UNCHANGED <<workload, ruleBefore, correctionVars, settingsVars, files, faults>>

ListDocuments(c) ==
  /\ At(c, "documents")
  /\ Goto(c, "done")
  /\ UNCHANGED <<workload, ruleBefore, correctionVars, settingsVars, knowledgeVars, faults>>

-----------------------------------------------------------------------------
(* An await raises: the handler ends, what it has written stays.           *)
Raise(c) ==
  /\ faults < MaxFaults
  /\ call[c].stage \notin {"idle", "done", "failed"}
  /\ faults' = faults + 1
  /\ Goto(c, "failed")
  /\ UNCHANGED <<workload, ruleBefore, correctionVars, settingsVars, knowledgeVars>>

Next ==
  \E c \in Calls :
    \/ Start(c) \/ Raise(c)
    \/ ListCorrections(c) \/ StoreCorrection(c) \/ StoreLearning(c) \/ StoreEscalation(c)
    \/ UpdateTask(c) \/ Acknowledge(c) \/ AuditCorrection(c)
    \/ StoreProfile(c) \/ StoreQuietHours(c) \/ SetPortalRule(c) \/ Reread(c)
    \/ Retrieve(c) \/ StoreEntry(c) \/ DeleteEntry(c)
    \/ UploadFile(c) \/ ExtractText(c) \/ ClearDocument(c) \/ Embed(c) \/ InsertChunks(c)
    \/ ListDocuments(c)

Spec == Init /\ [][Next]_vars

-----------------------------------------------------------------------------
Done(c) == call[c].stage = "done"
Started(c) == call[c].stage # "idle"

(* Every variable keeps its type; an entry of the memory has a category.   *)
TypeOK ==
  /\ workload \in Workloads
  /\ \A c \in Calls : /\ call[c].op \in workload \cup {None}
                      /\ call[c].seen \subseteq Calls \ {c}
                      /\ call[c].count \in 0..Cardinality(Calls)
  /\ corrections \in [Tasks \X (1..Cardinality(Calls)) -> Patterns \cup {None}]
  /\ learned \in [Patterns -> 0..Cardinality(Calls)]
  /\ escalated \subseteq Patterns
  /\ outcome \in [Tasks -> Patterns \cup {None}]
  /\ answered \subseteq Calls
  /\ \A key \in DOMAIN prefs :
       /\ prefs[key].category \in {"none", "general", "preference"}
       /\ prefs[key].category = "none" <=> prefs[key].value = None
  /\ portalRule \in {0, 17, 18, 19} /\ ruleBefore \in [Calls -> {0, 17, 18, 19}]
  /\ files \in [Documents -> Calls \cup {None}]
  /\ chunks \in [Documents -> SUBSET Calls]
  /\ faults \in 0..MaxFaults

(* A correction given twice, the second time after the first was           *)
(* acknowledged, is escalated to the factory, whatever runs beside it, as  *)
(* long as the first one's task was not corrected for another reason,      *)
(* whose entry would have the same key (api.py:640-661).                   *)
RepeatEscalates ==
  \A c, d \in Calls :
    /\ Done(c) /\ Done(d) /\ Kind(c) = "correct" /\ Kind(d) = "correct"
    /\ c \in call[d].seen
    /\ call[c].op.pattern = call[d].op.pattern
    /\ \A e \in Calls : (Started(e) /\ Kind(e) = "correct" /\ call[e].op.task = call[c].op.task)
                          => call[e].op.pattern = call[c].op.pattern
    => call[c].op.pattern \in escalated

WritesSettings(c) == Started(c) /\ Kind(c) \in {"put", "edit", "delete"}

(* The last settings update, when no other writer of the settings          *)
(* overlapped it, changed exactly its own fields of what was there,        *)
(* whatever failed before it (api.py:1091-1116).  Unless a portal call     *)
(* overlapped or followed it, the rule the daily loop suppresses by has    *)
(* the updated hour when _parse_quiet_hours knows it; when it does not,    *)
(* the rule of before the update stays in force, whatever the settings     *)
(* now say (api.py:1107, 1972-1982).                                       *)
LastPutCounts ==
  \A c \in Calls :
    /\ Done(c) /\ Kind(c) = "put"
    /\ \A e \in Calls \ {c} : WritesSettings(e) => e \in call[c].seen
    => /\ \A field \in {"quiet", "tone"} :
            GetSettings[field] = IF field \in DOMAIN call[c].op.patch THEN call[c].op.patch[field]
                                 ELSE call[c].read[field]
       /\ \/ \E e \in Calls \ call[c].seen : Started(e) /\ Kind(e) = "portal"
          \/ portalRule = IF GetSettings.quiet \in DOMAIN HourOf
                          THEN HourOf[GetSettings.quiet] ELSE ruleBefore[c]

Ingests(c) == Started(c) /\ Kind(c) \in {"upload", "upsert"}

(* A replacing upload leaves nothing of the uploads that ended before it,  *)
(* and what an upload put in is lost only to a replacing upload that did   *)
(* not end before it (api.py:919-925).                                     *)
UploadsLand ==
  \A c \in Calls :
    Done(c) /\ Ingests(c) =>
      LET document == call[c].op.document IN
        /\ call[c].op.replace => chunks[document] \cap call[c].seen = {}
        /\ \/ c \in chunks[document]
           \/ \E e \in Calls \ ({c} \cup call[c].seen) :
                Ingests(e) /\ call[e].op.document = document /\ call[e].op.replace
=============================================================================
