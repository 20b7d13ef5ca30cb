------------------------------ MODULE DailyLoop ------------------------------
(***************************************************************************)
(* The daily loop of an employee (PulseEngine): each POST to it is a run   *)
(* that briefs the supervisor, works through unread messages, answers or   *)
(* escalates them, and reports.  Runs may overlap, supervisors store       *)
(* behavior rules meanwhile, and a refused or failed tool call ends a run  *)
(* where it stands: nothing in the loop catches it.                        *)
(*                                                                         *)
(* A step below ends where the run awaits a tool, the workflow or the      *)
(* database.                                                               *)
(***************************************************************************)
EXTENDS Autonomy, BehaviorRules

CONSTANTS
  Runs,        \* calls of POST /autonomy/daily-loop
  Messages,    \* the inbox, numbered in its order: 1..n
  Anonymous,   \* those without a sender
  Employees,   \* the kinds of employee: [tools, managed, tier, tenant]
  RuleBook,    \* rules supervisors may store
  Hours,       \* hours of the day a run may be for
  MaxItems,    \* max_items of every request
  MaxRules,    \* bound on the rules stored
  MaxFaults    \* bound on exceptions of awaited calls

ASSUME LoopAssumption ==
  /\ Messages \subseteq Nat /\ Anonymous \subseteq Messages
  /\ \A e \in Employees : e \in [tools : SUBSET STRING, managed : BOOLEAN, tier : RiskTiers, tenant : TenantPolicies]
  /\ \A rule \in RuleBook : rule \in [source : Sources, after : Int, quiet : BOOLEAN, channels : SUBSET Channels]
  /\ Hours \subseteq 0..23
  /\ MaxItems \in Nat /\ MaxRules \in Nat /\ MaxFaults \in Nat

VARIABLES
  employee,   \* its tool_permissions, and whether and how a manager guards them
  rules,      \* the behavior rules in operational memory
  made,       \* rules stored so far
  stage,      \* where each run is
  hour,       \* the hour each run is for
  known,      \* history: the quiet direct commands each run began with
  items,      \* the messages each run has yet to finish
  kind,       \* the notice each run is at: briefing, escalate or summary
  ask,        \* the channels whose rules it still has to read
  send,       \* the channels it still has to use
  delivery,   \* each run's response_delivery for each message
  unread,     \* messages not marked read
  replies,    \* answers sent to each message's sender
  notices,    \* what the supervisor was sent: <<run, kind, message, channel>>
  latest,     \* the run of daily_loop:latest, or {}
  faults,     \* exceptions so far
  disturbed   \* history: a run began while another was active, or one failed

given  == <<employee, hour, known>>
memory == <<rules, made>>
notice == <<kind, ask, send>>
world  == <<unread, replies, notices, latest, faults, disturbed>>
vars   == <<given, memory, stage, items, notice, delivery, world>>

-----------------------------------------------------------------------------
Deliveries == {"none", "sent", "suppressed", "escalated"}

Active(r) == stage[r] \notin {"idle", "done", "failed"}

Goto(r, next) == stage' = [stage EXCEPT ![r] = next]

(* The message at hand: the loop keeps the order of the inbox.             *)
Current(r) == CHOOSE m \in items[r] : \A n \in items[r] : m <= n

(* Mutation of Batch: the first messages, read or not.                     *)
Batch_Read == {m \in Messages : Cardinality({n \in Messages : n <= m}) <= MaxItems}

(* The first MaxItems unread messages.                                     *)
Batch == {m \in unread : Cardinality({n \in unread : n <= m}) <= MaxItems}

(* Whether the broker lets a call pass: the loop gives no confidence, which *)
(* the broker reads as 1.0, and one recipient at most.                     *)
Cleared(type) ==
  \/ ~employee.managed
  \/ Decide(employee.tenant, [tier |-> employee.tier, type |-> type,
                              confidence |-> 100, recipients |-> 1]) = "autonomous"

ChannelTool == [email |-> "email_tool", messaging |-> "messaging_tool"]
Open == {c \in Channels : ChannelTool[c] \in employee.tools}

(* The loop asks about and uses email before messaging.                    *)
FirstOf(channels) == IF "email" \in channels THEN "email" ELSE "messaging"

(* What a notice is about: the run's briefing or summary, or a message.    *)
Topic(r) == IF kind[r] = "escalate" THEN Current(r) ELSE 0

(* Where the loop goes once a notice is out.                               *)
AfterNotice(k) ==
  CASE k = "briefing" -> "fetch" [] k = "escalate" -> "mark" [] k = "summary" -> "store"

(* The broker raises PermissionError, and no one up the stack catches it.  *)
Refused(r) ==
  /\ Goto(r, "failed")
  /\ disturbed' = TRUE
  /\ UNCHANGED <<given, memory, items, notice, delivery, unread, replies, notices, latest, faults>>

Delivered(r, how) == delivery' = [delivery EXCEPT ![r][Current(r)] = how]

(* _notify_supervisor with the channels that are open: none, and it is     *)
(* over at once.  An escalated message is so whatever was sent.            *)
Notified(r, k, channels) ==
  /\ Goto(r, IF channels = {} THEN AfterNotice(k) ELSE "notify")
  /\ kind' = [kind EXCEPT ![r] = k]
  /\ ask' = [ask EXCEPT ![r] = {}]
  /\ send' = [send EXCEPT ![r] = channels]
  /\ IF k = "escalate" THEN Delivered(r, "escalated") ELSE UNCHANGED delivery

-----------------------------------------------------------------------------
Init ==
  /\ employee \in Employees
  /\ rules = {} /\ made = 0
  /\ stage = [r \in Runs |-> "idle"] /\ hour = [r \in Runs |-> 0]
  /\ known = [r \in Runs |-> {}] /\ items = [r \in Runs |-> {}]
  /\ kind = [r \in Runs |-> "briefing"]
  /\ ask = [r \in Runs |-> {}] /\ send = [r \in Runs |-> {}]
  /\ delivery = [r \in Runs |-> [m \in Messages |-> "none"]]
  /\ unread = Messages
  /\ replies = [m \in Messages |-> 0]
  /\ notices = {}
  /\ latest = {}
  /\ faults = 0 /\ disturbed = FALSE

(* add_direct_command, add_portal_rule, add_adaptive_pattern.              *)
StoreRule(rule) ==
  /\ made < MaxRules
  /\ made' = made + 1
  /\ rules' = Stored(rules, rule, made + 1)
  /\ UNCHANGED <<given, stage, items, notice, delivery, world>>

(* run_daily_loop up to the morning briefing: the overnight review counts  *)
(* the inbox and changes nothing.  A briefing is important, so no rule is  *)
(* asked about it.                                                         *)
Start(r, h) ==
  /\ stage[r] = "idle"
  /\ IF "email_tool" \in employee.tools /\ ~Cleared("reversible") THEN Refused(r)
     ELSE /\ Notified(r, "briefing", Open)
          /\ hour' = [hour EXCEPT ![r] = h]
          /\ known' = [known EXCEPT ![r] = {d \in rules : d.source = "direct_command" /\ d.quiet}]
          /\ disturbed' = (disturbed \/ \E s \in Runs : Active(s))
          /\ UNCHANGED <<employee, memory, items, unread, replies, notices, latest, faults>>

-----------------------------------------------------------------------------
(* _notify_supervisor *)

(* Only the wind-down summary is normal: the rules are read once for each  *)
(* channel the employee may use.                                           *)
Resolve(r) ==
  /\ stage[r] = "resolve"
  /\ LET channel == FirstOf(ask[r])  left == ask[r] \ {channel} IN
       \E some \in Listed(rules) :
         LET open == send[r] \cup IF Suppressed(some, channel, hour[r], FALSE) THEN {} ELSE {channel}
         IN  IF left = {} THEN Notified(r, "summary", open)
             ELSE /\ ask' = [ask EXCEPT ![r] = left]
                  /\ send' = [send EXCEPT ![r] = open]
                  /\ UNCHANGED <<stage, kind, delivery>>
  /\ UNCHANGED <<given, memory, items, world>>

Send(r) ==
  /\ stage[r] = "notify"
  /\ IF ~Cleared("irreversible") THEN Refused(r)
     ELSE LET channel == FirstOf(send[r]) IN
       /\ notices' = notices \cup {<<r, kind[r], Topic(r), channel>>}
       /\ Notified(r, kind[r], send[r] \ {channel})
       /\ UNCHANGED <<given, memory, items, unread, replies, latest, faults, disturbed>>

-----------------------------------------------------------------------------
(* _active_hours *)

Fetch(r) ==
  /\ stage[r] = "fetch"
  /\ Goto(r, "work")
  /\ items' = [items EXCEPT ![r] = IF "email_tool" \in employee.tools THEN Batch ELSE {}]
  /\ UNCHANGED <<given, memory, notice, delivery, world>>

(* The workflow runs on the message, without a row of employee_tasks; then *)
(* its events go to the calendar and its sender to the CRM.  These leave   *)
(* nothing that is kept here, so they are one step.  A result that asks    *)
(* for approval is only told to the supervisor.                            *)
ProcessMessage(r, asks, events) ==
  /\ stage[r] = "work" /\ items[r] # {}
  /\ LET calls == (IF events THEN {"calendar_tool"} ELSE {})
                     \cup IF Current(r) \in Anonymous THEN {} ELSE {"crm_tool"}
     IN  IF calls \cap employee.tools # {} /\ ~Cleared("semi_reversible") THEN Refused(r)
         ELSE /\ IF asks THEN Notified(r, "escalate", Open)
                 ELSE Goto(r, "respond") /\ UNCHANGED <<notice, delivery>>
              /\ UNCHANGED <<given, memory, items, world>>

(* _maybe_send_response up to the send.                                    *)
Respond(r) ==
  /\ stage[r] = "respond"
  /\ \E some \in Listed(rules) :
       IF Current(r) \in Anonymous \/ Suppressed(some, "email", hour[r], FALSE)
       THEN Goto(r, "mark") /\ Delivered(r, "suppressed")
       ELSE Goto(r, "reply") /\ UNCHANGED delivery
  /\ UNCHANGED <<given, memory, items, notice, world>>

Reply(r) ==
  /\ stage[r] = "reply"
  /\ IF ~Cleared("irreversible") THEN Refused(r)
     ELSE /\ Goto(r, "mark") /\ Delivered(r, "sent")
          /\ replies' = [replies EXCEPT ![Current(r)] = @ + 1]
          /\ UNCHANGED <<given, memory, items, notice, unread, notices, latest, faults, disturbed>>

(* Mutation of MarkRead: the whole inbox is marked.                        *)
MarkRead_All(r) ==
  /\ stage[r] = "mark"
  /\ unread' = {}
  /\ Goto(r, "work")
  /\ items' = [items EXCEPT ![r] = @ \ {Current(r)}]
  /\ UNCHANGED <<given, memory, notice, delivery, replies, notices, latest, faults, disturbed>>

(* mark_read is the last thing done to a message.                          *)
MarkRead(r) ==
  /\ stage[r] = "mark"
  /\ unread' = unread \ {Current(r)}
  /\ Goto(r, "work")
  /\ items' = [items EXCEPT ![r] = @ \ {Current(r)}]
  /\ UNCHANGED <<given, memory, notice, delivery, replies, notices, latest, faults, disturbed>>

EndOfItems(r) ==
  /\ stage[r] = "work" /\ items[r] = {}
  /\ IF Open = {} THEN Notified(r, "summary", {})
     ELSE /\ Goto(r, "resolve")
          /\ kind' = [kind EXCEPT ![r] = "summary"]
          /\ ask' = [ask EXCEPT ![r] = Open]
          /\ UNCHANGED <<send, delivery>>
  /\ UNCHANGED <<given, memory, items, world>>

-----------------------------------------------------------------------------
(* _persist_report: under the run's own key and as daily_loop:latest.      *)
PersistReport(r) ==
  /\ stage[r] = "store"
  /\ latest' = {r}
  /\ Goto(r, "done")
  /\ UNCHANGED <<given, memory, items, notice, delivery, unread, replies, notices, faults, disturbed>>

(* Any awaited call may raise, a tool's also after it has acted.           *)
Fault(r) ==
  /\ faults < MaxFaults /\ faults' = faults + 1
  /\ Active(r)
  /\ Goto(r, "failed")
  /\ disturbed' = TRUE
  /\ \/ UNCHANGED <<unread, replies>>
     \/ /\ stage[r] = "reply" /\ Cleared("irreversible")
        /\ replies' = [replies EXCEPT ![Current(r)] = @ + 1]
        /\ UNCHANGED unread
     \/ /\ stage[r] = "mark"
        /\ unread' = unread \ {Current(r)}
        /\ UNCHANGED replies
  /\ UNCHANGED <<given, memory, items, notice, delivery, notices, latest>>

Step(r) ==
  \/ Resolve(r) \/ Send(r) \/ Fetch(r) \/ Respond(r) \/ Reply(r) \/ MarkRead(r) \/ EndOfItems(r)
  \/ \E asks, events \in BOOLEAN : ProcessMessage(r, asks, events)
  \/ PersistReport(r)

Next ==
  \/ \E rule \in RuleBook : StoreRule(rule)
  \/ \E r \in Runs : (\E h \in Hours : Start(r, h)) \/ Step(r) \/ Fault(r)

(* A started run is always resumed: the tools, the workflow and the        *)
(* database answer or raise.                                               *)
Spec == Init /\ [][Next]_vars /\ \A r \in Runs : WF_vars(Step(r))

-----------------------------------------------------------------------------
(* A sender gets a second answer to one message only if two runs were at   *)
(* work at once or a run broke off (pulse_engine.py:153-199).              *)
AnsweredOnce == disturbed \/ \A m \in Messages : replies[m] <= 1

(* A message marked read was dealt with by a run: answered, or the         *)
(* supervisor told by every channel that was open, or its answer           *)
(* suppressed by a rule or for want of a sender.  Nothing is read and lost *)
(* (pulse_engine.py:182-199).                                              *)
ReadIsDealtWith ==
  \A m \in Messages \ unread :
    \E r \in Runs :
      \/ delivery[r][m] = "sent" /\ replies[m] > 0
      \/ delivery[r][m] = "suppressed"
      \/ /\ delivery[r][m] = "escalated"
         /\ \A c \in Open : <<r, "escalate", m, c>> \in notices

(* A run sends no answer after hours if a direct command has asked for     *)
(* quiet since before the run and no later one lifts it, whatever other    *)
(* rules say, as long as the rules fit the query's limit (behavior_manager.py:160-182).          *)
QuietIsKept ==
  \A r \in Runs, m \in Messages :
    delivery[r][m] = "sent" /\ Cardinality(rules) <= RuleLimit =>
      ~ \E d \in known[r] :
          /\ Applies(d, "email", hour[r])
          /\ \A e \in rules : e.source = "direct_command" /\ e.made > d.made /\ Applies(e, "email", hour[r])
                            => e.quiet
=============================================================================
