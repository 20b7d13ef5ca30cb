-------------------------- MODULE DailyLoop_proofs --------------------------
(***************************************************************************)
(* Proofs about the daily loop for every set of runs, messages, rules and  *)
(* kinds of employee, and for any number of exceptions.                    *)
(***************************************************************************)
EXTENDS DailyLoop, FiniteSetTheorems, WellFoundedInduction, TLAPS

Less == OpToRel(<, Nat)

(* A set of numbers that is not empty has a least one.                     *)
LEMMA LeastNumber ==
  ASSUME NEW S \in SUBSET Nat, S # {}
  PROVE  \E m \in S : \A n \in S : m <= n
<1>1. IsWellFoundedOn(Less, Nat)
  BY NatLessThanWellFounded, Zenon DEF Less
<1>2. PICK m \in S : \A n \in S : ~ (<<n, m>> \in Less)
  BY <1>1, WFMin
<1>3. \A n \in S : <<n, m>> \in Less <=> n < m
  BY DEF Less, OpToRel
<1>4. \A n \in S : ~ (n < m)
  BY <1>2, <1>3, Zenon
<1>. QED
  BY <1>4

(* A bounded one has a greatest.                                           *)
LEMMA GreatestNumber ==
  ASSUME NEW b \in Nat, NEW S \in SUBSET (0..b), S # {}
  PROVE  \E m \in S : \A n \in S : n <= m
<1>. DEFINE T == {b - n : n \in S}
<1>0. \A n \in S : n \in Int /\ 0 <= n /\ n <= b
  OBVIOUS
<1>1. T \in SUBSET Nat /\ T # {}
  <2>1. \A n \in S : b - n \in Nat
    BY <1>0
  <2>. QED
    BY <2>1
<1>2. PICK t \in T : \A u \in T : t <= u
  BY <1>1, LeastNumber, Zenon
<1>3. PICK m \in S : t = b - m
  BY <1>2
<1>4. ASSUME NEW n \in S PROVE n <= m
  <2>1. b - n \in T
    OBVIOUS
  <2>2. b - m <= b - n
    BY <1>2, <1>3, <2>1
  <2>. QED
    BY <1>0, <2>2
<1>. QED
  BY <1>4

-----------------------------------------------------------------------------
Stages == {"idle", "done", "failed", "notify", "fetch", "work", "respond", "reply", "mark", "resolve", "store"}
Stamped == [source : Sources, after : Int, quiet : BOOLEAN, channels : SUBSET Channels, made : Nat]

Types ==
  /\ rules \subseteq Stamped /\ made \in Nat
  /\ stage \in [Runs -> Stages]
  /\ hour \in [Runs -> Nat]
  /\ known \in [Runs -> SUBSET Stamped]
  /\ items \in [Runs -> SUBSET Messages]
  /\ kind \in [Runs -> {"briefing", "escalate", "summary"}]
  /\ ask \in [Runs -> SUBSET Channels] /\ send \in [Runs -> SUBSET Channels]
  /\ delivery \in [Runs -> [Messages -> Deliveries]]
  /\ unread \subseteq Messages
  /\ replies \in [Messages -> Nat]
  /\ disturbed \in BOOLEAN

(* The message at hand is one of the run's.                                *)
LEMMA CurrentIsOne ==
  ASSUME Types, NEW r \in Runs, items[r] # {}
  PROVE  Current(r) \in items[r] /\ Current(r) \in Messages
<1>1. items[r] \in SUBSET Nat /\ items[r] \subseteq Messages
  BY LoopAssumption DEF Types
<1>2. \E m \in items[r] : \A n \in items[r] : m <= n
  BY <1>1, LeastNumber, Zenon
<1>. QED
  BY <1>1, <1>2 DEF Current

LEMMA GoesTo ==
  ASSUME Types, NEW r \in Runs, NEW s \in Stages, Goto(r, s)
  PROVE  stage' \in [Runs -> Stages]
  BY DEF Types, Goto

LEMMA DeliversTo ==
  ASSUME Types, NEW r \in Runs, NEW how \in Deliveries, Delivered(r, how)
  PROVE  delivery' \in [Runs -> [Messages -> Deliveries]]
  BY DEF Types, Delivered

LEMMA NotifiesTo ==
  ASSUME Types, NEW r \in Runs, NEW k \in {"briefing", "escalate", "summary"},
         NEW channels \in SUBSET Channels, Notified(r, k, channels)
  PROVE  /\ stage' \in [Runs -> Stages]
         /\ kind' \in [Runs -> {"briefing", "escalate", "summary"}]
         /\ ask' \in [Runs -> SUBSET Channels] /\ send' \in [Runs -> SUBSET Channels]
         /\ delivery' \in [Runs -> [Messages -> Deliveries]]
<1>1. (IF channels = {} THEN AfterNotice(k) ELSE "notify") \in Stages
  BY DEF AfterNotice, Stages
<1>2. stage' \in [Runs -> Stages]
  BY <1>1, GoesTo DEF Notified
<1>3. delivery' \in [Runs -> [Messages -> Deliveries]]
  <2>1. CASE k = "escalate"
    BY <2>1, DeliversTo DEF Notified, Deliveries
  <2>2. CASE k # "escalate"
    BY <2>2 DEF Notified, Types
  <2>. QED
    BY <2>1, <2>2
<1>. QED
  BY <1>2, <1>3 DEF Notified, Types

LEMMA RefusedTypes ==
  ASSUME Types, NEW r \in Runs, Refused(r)
  PROVE  Types'
<1>1. stage' \in [Runs -> Stages]
  BY GoesTo DEF Refused, Stages
<1>. QED
  BY <1>1 DEF Refused, Types, given, memory, notice

LEMMA StoredTypes ==
  ASSUME Types, NEW rule \in RuleBook, StoreRule(rule)
  PROVE  Types'
<1>1. [source |-> rule.source, after |-> rule.after, quiet |-> rule.quiet,
       channels |-> rule.channels, made |-> made + 1] \in Stamped
  BY LoopAssumption DEF Types, Stamped
<1>2. rules' \subseteq Stamped /\ made' \in Nat
  BY <1>1 DEF Types, StoreRule, Stored
<1>. QED
  BY <1>2 DEF StoreRule, Types, given, memory, notice, world

LEMMA StartTypes ==
  ASSUME Types, NEW r \in Runs, NEW h \in Hours, Start(r, h)
  PROVE  Types'
<1>1. CASE Refused(r)
  BY <1>1, RefusedTypes
<1>2. CASE ~Refused(r)
  <2>1. /\ Notified(r, "briefing", Open)
        /\ hour' = [hour EXCEPT ![r] = h]
        /\ known' = [known EXCEPT ![r] = {d \in rules : d.source = "direct_command" /\ d.quiet}]
        /\ disturbed' = (disturbed \/ \E s \in Runs : Active(s))
        /\ UNCHANGED <<employee, memory, items, unread, replies, notices, latest, faults>>
    BY <1>2 DEF Start
  <2>2. hour' \in [Runs -> Nat] /\ known' \in [Runs -> SUBSET Stamped] /\ disturbed' \in BOOLEAN
    BY <2>1, LoopAssumption DEF Types
  <2>3. Open \in SUBSET Channels
    BY DEF Open
  <2>. QED
    BY <2>1, <2>2, <2>3, NotifiesTo DEF Types, memory
<1>. QED
  BY <1>1, <1>2

LEMMA ResolveTypes ==
  ASSUME Types, NEW r \in Runs, Resolve(r)
  PROVE  Types'
<1>. DEFINE channel == FirstOf(ask[r])
            left == ask[r] \ {channel}
            open(some) == send[r] \cup IF Suppressed(some, channel, hour[r], FALSE) THEN {} ELSE {channel}
<1>1. PICK some \in Listed(rules) :
        IF left = {} THEN Notified(r, "summary", open(some))
        ELSE /\ ask' = [ask EXCEPT ![r] = left]
             /\ send' = [send EXCEPT ![r] = open(some)]
             /\ UNCHANGED <<stage, kind, delivery>>
  BY DEF Resolve
<1>2. channel \in Channels
  BY DEF FirstOf, Channels
<1>3. open(some) \in SUBSET Channels /\ left \in SUBSET Channels
  BY <1>2 DEF Types
<1>4. UNCHANGED <<given, memory, items, world>>
  BY DEF Resolve
<1>. HIDE DEF channel, left, open
<1>5. CASE left = {}
  BY <1>1, <1>3, <1>4, <1>5, NotifiesTo DEF Types, given, memory, world
<1>6. CASE left # {}
  BY <1>1, <1>3, <1>4, <1>6 DEF Types, given, memory, world
<1>. QED
  BY <1>5, <1>6

LEMMA SendTypes ==
  ASSUME Types, NEW r \in Runs, Send(r)
  PROVE  Types'
<1>1. CASE Refused(r)
  BY <1>1, RefusedTypes
<1>2. CASE ~Refused(r)
  <2>1. /\ Notified(r, kind[r], send[r] \ {FirstOf(send[r])})
        /\ UNCHANGED <<given, memory, items, unread, replies, latest, faults, disturbed>>
    BY <1>2 DEF Send
  <2>2. /\ kind[r] \in {"briefing", "escalate", "summary"}
        /\ send[r] \ {FirstOf(send[r])} \in SUBSET Channels
    BY DEF Types
  <2>. QED
    BY <2>1, <2>2, NotifiesTo DEF Types, given, memory
<1>. QED
  BY <1>1, <1>2

LEMMA FetchTypes ==
  ASSUME Types, NEW r \in Runs, Fetch(r)
  PROVE  Types'
<1>1. stage' \in [Runs -> Stages]
  BY GoesTo DEF Fetch, Stages
<1>2. Batch \subseteq Messages
  BY DEF Types, Batch
<1>. QED
  BY <1>1, <1>2 DEF Fetch, Types, given, memory, notice, world

LEMMA ProcessTypes ==
  ASSUME Types, NEW r \in Runs, NEW asks \in BOOLEAN, NEW events \in BOOLEAN,
         ProcessMessage(r, asks, events)
  PROVE  Types'
<1>1. CASE Refused(r)
  BY <1>1, RefusedTypes
<1>2. CASE ~Refused(r)
  <2>1. UNCHANGED <<given, memory, items, world>>
    BY <1>2 DEF ProcessMessage
  <2>2. CASE asks
    <3>1. Notified(r, "escalate", Open)
      BY <1>2, <2>2 DEF ProcessMessage
    <3>2. Open \in SUBSET Channels
      BY DEF Open
    <3>. QED
      BY <2>1, <3>1, <3>2, NotifiesTo DEF Types, given, memory, world
  <2>3. CASE ~asks
    <3>1. Goto(r, "respond") /\ UNCHANGED <<notice, delivery>>
      BY <1>2, <2>3 DEF ProcessMessage
    <3>2. stage' \in [Runs -> Stages]
      BY <3>1, GoesTo DEF Stages
    <3>. QED
      BY <2>1, <3>1, <3>2 DEF Types, given, memory, notice, world
  <2>. QED
    BY <2>2, <2>3
<1>. QED
  BY <1>1, <1>2

LEMMA RespondTypes ==
  ASSUME Types, NEW r \in Runs, Respond(r)
  PROVE  Types'
<1>1. \/ Goto(r, "mark") /\ Delivered(r, "suppressed")
      \/ Goto(r, "reply") /\ UNCHANGED delivery
  BY DEF Respond
<1>2. stage' \in [Runs -> Stages]
  BY <1>1, GoesTo DEF Stages
<1>3. delivery' \in [Runs -> [Messages -> Deliveries]]
  BY <1>1, DeliversTo DEF Types, Deliveries
<1>. QED
  BY <1>2, <1>3 DEF Respond, Types, given, memory, notice, world

LEMMA ReplyTypes ==
  ASSUME Types, NEW r \in Runs, Reply(r)
  PROVE  Types'
<1>1. CASE Refused(r)
  BY <1>1, RefusedTypes
<1>2. CASE ~Refused(r)
  <2>1. /\ Goto(r, "mark") /\ Delivered(r, "sent")
        /\ replies' = [replies EXCEPT ![Current(r)] = @ + 1]
        /\ UNCHANGED <<given, memory, items, notice, unread, notices, latest, faults, disturbed>>
    BY <1>2 DEF Reply
  <2>2. stage' \in [Runs -> Stages]
    BY <2>1, GoesTo DEF Stages
  <2>3. delivery' \in [Runs -> [Messages -> Deliveries]]
    BY <2>1, DeliversTo DEF Deliveries
  <2>4. replies' \in [Messages -> Nat]
    <3>1. replies \in [Messages -> Nat]
      BY DEF Types
    <3>2. replies' = [replies EXCEPT ![Current(r)] = @ + 1]
      BY <2>1
    <3>3. CASE Current(r) \in Messages
      <4>1. replies[Current(r)] + 1 \in Nat
        BY <3>1, <3>3
      <4>. QED
        BY <3>1, <3>2, <4>1
    <3>4. CASE Current(r) \notin Messages
      BY <3>1, <3>2, <3>4
    <3>. QED
      BY <3>3, <3>4
  <2>. QED
    BY <2>1, <2>2, <2>3, <2>4 DEF Types, given, memory, notice
<1>. QED
  BY <1>1, <1>2

LEMMA MarkReadTypes ==
  ASSUME Types, NEW r \in Runs, MarkRead(r)
  PROVE  Types'
<1>1. stage' \in [Runs -> Stages]
  BY GoesTo DEF MarkRead, Stages
<1>2. items' \in [Runs -> SUBSET Messages]
  BY DEF MarkRead, Types
<1>. QED
  BY <1>1, <1>2 DEF MarkRead, Types, given, memory, notice

LEMMA EndOfItemsTypes ==
  ASSUME Types, NEW r \in Runs, EndOfItems(r)
  PROVE  Types'
<1>1. UNCHANGED <<given, memory, items, world>>
  BY DEF EndOfItems
<1>2. CASE Open = {}
  <2>1. Notified(r, "summary", {}) /\ {} \in SUBSET Channels
    BY <1>2 DEF EndOfItems
  <2>. QED
    BY <1>1, <2>1, NotifiesTo DEF Types, given, memory, world
<1>3. CASE Open # {}
  <2>1. stage' \in [Runs -> Stages]
    BY <1>3, GoesTo DEF EndOfItems, Stages
  <2>2. ask' \in [Runs -> SUBSET Channels]
    BY <1>3 DEF EndOfItems, Open, Types
  <2>. QED
    BY <1>1, <1>3, <2>1, <2>2 DEF EndOfItems, Types, given, memory, world
<1>. QED
  BY <1>2, <1>3

LEMMA PersistTypes ==
  ASSUME Types, NEW r \in Runs, PersistReport(r)
  PROVE  Types'
<1>1. stage' \in [Runs -> Stages]
  BY GoesTo DEF PersistReport, Stages
<1>. QED
  BY <1>1 DEF PersistReport, Types, given, memory, notice

LEMMA FaultTypes ==
  ASSUME Types, NEW r \in Runs, Fault(r)
  PROVE  Types'
<1>1. stage' \in [Runs -> Stages]
  BY GoesTo DEF Fault, Stages
<1>2. replies' \in [Messages -> Nat] /\ unread' \subseteq Messages
  BY DEF Fault, Types
<1>. QED
  BY <1>1, <1>2 DEF Fault, Types, given, memory, notice

LEMMA LoopTypeStep == Types /\ [Next]_vars => Types'
<1>. SUFFICES ASSUME Types, [Next]_vars PROVE Types'
  OBVIOUS
<1>1. CASE UNCHANGED vars
  BY <1>1 DEF Types, vars, given, memory, notice, world
<1>. QED
  BY <1>1, StoredTypes, StartTypes, ResolveTypes, SendTypes, FetchTypes, ProcessTypes, RespondTypes,
     ReplyTypes, MarkReadTypes, EndOfItemsTypes, PersistTypes, FaultTypes DEF Next, Step

LEMMA LoopTypes == Spec => []Types
<1>1. ASSUME Init PROVE Types
  <2>1. stage \in [Runs -> Stages]
    BY <1>1 DEF Init, Stages
  <2>2. delivery \in [Runs -> [Messages -> Deliveries]]
    BY <1>1 DEF Init, Deliveries
  <2>3. replies \in [Messages -> Nat]
    BY <1>1 DEF Init
  <2>4. /\ rules \subseteq Stamped /\ made \in Nat /\ disturbed \in BOOLEAN /\ unread \subseteq Messages
        /\ hour \in [Runs -> Nat] /\ known \in [Runs -> SUBSET Stamped]
        /\ items \in [Runs -> SUBSET Messages]
        /\ kind \in [Runs -> {"briefing", "escalate", "summary"}]
        /\ ask \in [Runs -> SUBSET Channels] /\ send \in [Runs -> SUBSET Channels]
    BY <1>1 DEF Init
  <2>. QED
    BY <2>1, <2>2, <2>3, <2>4 DEF Types
<1>. QED
  BY <1>1, LoopTypeStep, PTL DEF Spec
-----------------------------------------------------------------------------
(* A run that works on a message has one, one that notifies has a channel. *)
Handling(r) ==
  \/ stage[r] \in {"respond", "reply", "mark"}
  \/ stage[r] = "notify" /\ kind[r] = "escalate"

InHand ==
  \A r \in Runs : /\ Handling(r) => items[r] # {}
                  /\ stage[r] = "notify" => send[r] # {}
                  /\ stage[r] = "idle" => items[r] = {} /\ \A m \in Messages : delivery[r][m] = "none"

(* While nothing went wrong, one run at a time works through messages that *)
(* are unread, and the only unread message answered is at its last step.   *)
OneAtATime == \A r, s \in Runs : Active(r) /\ Active(s) => r = s
HasUnread == \A r \in Runs : Active(r) => items[r] \subseteq unread
AnsweredAtMark ==
  \A m \in Messages : /\ replies[m] <= 1
                      /\ m \in unread /\ replies[m] # 0 =>
                           \E r \in Runs : stage[r] = "mark" /\ m = Current(r)

Undisturbed == disturbed \/ (OneAtATime /\ HasUnread /\ AnsweredAtMark)

(* What a run did about a message.                                         *)
DealtBy(r, m) ==
  \/ delivery[r][m] = "sent" /\ replies[m] > 0
  \/ delivery[r][m] = "suppressed"
  \/ delivery[r][m] = "escalated" /\ \A c \in Open : <<r, "escalate", m, c>> \in notices

(* At the mark the message was dealt with; the notices of an escalation    *)
(* are out but for the channels to come; and a message that is read was    *)
(* dealt with by a run that has left it behind.                            *)
DealtAtMark == \A r \in Runs, m \in Messages : stage[r] = "mark" /\ m = Current(r) => DealtBy(r, m)
Telling ==
  \A r \in Runs, m \in Messages :
    stage[r] = "notify" /\ kind[r] = "escalate" /\ m = Current(r) =>
      /\ delivery[r][m] = "escalated"
      /\ \A c \in Open \ send[r] : <<r, "escalate", m, c>> \in notices
LeftBehind ==
  \A m \in Messages \ unread :
    \E r \in Runs : DealtBy(r, m) /\ (m \notin items[r] \/ stage[r] = "failed")

(* The rules are numbered in order, and one at most is the portal's.       *)
RulesInOrder ==
  /\ IsFiniteSet(rules)
  /\ \A e \in rules : e.made \in 1..made
  /\ \A d, e \in rules : d.made = e.made \/ (d.source = "portal_rule" /\ e.source = "portal_rule") => d = e

(* A direct command that asks for quiet and that no later one lifts.       *)
AsksForQuiet(r, d) ==
  /\ Applies(d, "email", hour[r])
  /\ \A e \in rules : e.source = "direct_command" /\ e.made > d.made /\ Applies(e, "email", hour[r])
                      => e.quiet

KnownStays == \A r \in Runs : \A d \in known[r] : d \in rules /\ d.source = "direct_command" /\ d.quiet

MayAnswer ==
  Cardinality(rules) <= RuleLimit =>
    \A r \in Runs : stage[r] = "reply" \/ (\E m \in Messages : delivery[r][m] = "sent") =>
      ~ \E d \in known[r] : AsksForQuiet(r, d)

-----------------------------------------------------------------------------
(* What a step of run r leaves alone: the other runs.                      *)
Same(r) ==
  \A s \in Runs : s # r =>
    /\ stage'[s] = stage[s] /\ items'[s] = items[s] /\ kind'[s] = kind[s] /\ send'[s] = send[s]
    /\ delivery'[s] = delivery[s] /\ hour'[s] = hour[s] /\ known'[s] = known[s]
    /\ Current(s)' = Current(s)

(* Run r marks what it did about the message at hand, and no other.        *)
Notes(r, how) ==
  /\ delivery'[r][Current(r)] = how
  /\ \A m \in Messages : m # Current(r) => delivery'[r][m] = delivery[r][m]

(* A run that breaks off.                                                  *)
Fails(r) ==
  /\ stage[r] \notin {"done", "failed"}
  /\ stage'[r] = "failed" /\ disturbed' = TRUE
  /\ UNCHANGED <<items, kind, send, delivery, hour, known, rules, made, employee, notices>>
  /\ \/ UNCHANGED <<unread, replies>>
     \/ UNCHANGED unread /\ \A m \in Messages : replies'[m] >= replies[m]
     \/ UNCHANGED replies /\ stage[r] = "mark" /\ unread' = unread \ {Current(r)}

Notifies(r, k, channels) ==
  /\ stage'[r] = IF channels = {} THEN AfterNotice(k) ELSE "notify"
  /\ kind'[r] = k /\ send'[r] = channels
  /\ k = "escalate" /\ items[r] # {} => Notes(r, "escalated")
  /\ k # "escalate" => UNCHANGED delivery

LEMMA NotifiedDoes ==
  ASSUME Types, NEW r \in Runs, NEW k, NEW channels, Notified(r, k, channels)
  PROVE  /\ Notifies(r, k, channels)
         /\ \A s \in Runs : s # r =>
              /\ stage'[s] = stage[s] /\ kind'[s] = kind[s] /\ send'[s] = send[s]
              /\ delivery'[s] = delivery[s]
<1>1. /\ stage'[r] = IF channels = {} THEN AfterNotice(k) ELSE "notify"
      /\ \A s \in Runs : s # r => stage'[s] = stage[s]
  BY DEF Notified, Goto, Types
<1>2. /\ kind'[r] = k /\ send'[r] = channels
      /\ \A s \in Runs : s # r => kind'[s] = kind[s] /\ send'[s] = send[s]
  BY DEF Notified, Types
<1>3. ASSUME k = "escalate", items[r] # {} PROVE Notes(r, "escalated")
  BY <1>3, CurrentIsOne DEF Notified, Delivered, Notes, Types
<1>4. k # "escalate" => UNCHANGED delivery
  BY DEF Notified
<1>5. \A s \in Runs : s # r => delivery'[s] = delivery[s]
  BY DEF Notified, Delivered, Types
<1>. QED
  BY <1>1, <1>2, <1>3, <1>4, <1>5 DEF Notifies

LEMMA RefusedDoes ==
  ASSUME Types, NEW r \in Runs, stage[r] \notin {"done", "failed"}, Refused(r)
  PROVE  Fails(r) /\ Same(r)
<1>1. stage'[r] = "failed" /\ \A s \in Runs : s # r => stage'[s] = stage[s]
  BY DEF Refused, Goto, Types
<1>. QED
  BY <1>1 DEF Refused, Fails, Same, given, memory, notice, Current

LEMMA FaultDoes ==
  ASSUME Types, NEW r \in Runs, Fault(r)
  PROVE  Fails(r) /\ Same(r)
<1>1. stage'[r] = "failed" /\ \A s \in Runs : s # r => stage'[s] = stage[s]
  BY DEF Fault, Goto, Types
<1>2. stage[r] \notin {"done", "failed"} /\ disturbed' = TRUE
  BY DEF Fault, Active
<1>3. \/ UNCHANGED <<unread, replies>>
      \/ UNCHANGED unread /\ \A m \in Messages : replies'[m] >= replies[m]
      \/ UNCHANGED replies /\ stage[r] = "mark" /\ unread' = unread \ {Current(r)}
  BY DEF Fault, Types
<1>. QED
  BY <1>1, <1>2, <1>3 DEF Fault, Fails, Same, given, memory, notice, Current

(* The steps that are neither, as what they do to their own run.           *)
Begins(r) ==
  /\ stage[r] = "idle"
  /\ Notifies(r, "briefing", Open)
  /\ known'[r] = {d \in rules : d.source = "direct_command" /\ d.quiet}
  /\ disturbed' = (disturbed \/ \E s \in Runs : Active(s))
  /\ UNCHANGED <<items, rules, made, employee, unread, replies, notices>>

LEMMA StartDoes ==
  ASSUME Types, NEW r \in Runs, NEW h \in Hours, Start(r, h)
  PROVE  (Fails(r) \/ Begins(r)) /\ Same(r)
<1>1. CASE Refused(r)
  BY <1>1, RefusedDoes DEF Start
<1>2. CASE ~Refused(r)
  <2>1. /\ Notified(r, "briefing", Open)
        /\ hour' = [hour EXCEPT ![r] = h]
        /\ known' = [known EXCEPT ![r] = {d \in rules : d.source = "direct_command" /\ d.quiet}]
        /\ disturbed' = (disturbed \/ \E s \in Runs : Active(s))
        /\ UNCHANGED <<employee, memory, items, unread, replies, notices, latest, faults>>
    BY <1>2 DEF Start
  <2>2. known'[r] = {d \in rules : d.source = "direct_command" /\ d.quiet}
    BY <2>1 DEF Types
  <2>3. \A s \in Runs : s # r => hour'[s] = hour[s] /\ known'[s] = known[s]
    BY <2>1 DEF Types
  <2>. QED
    BY <2>1, <2>2, <2>3, NotifiedDoes DEF Start, Begins, Same, memory, Current
<1>. QED
  BY <1>1, <1>2

(* The wind-down and the report: nothing is done about a message.          *)
Winds(r) ==
  /\ stage[r] \in {"work", "resolve", "store"}
  /\ stage'[r] \in {"resolve", "notify", "store", "done"}
  /\ stage'[r] = "notify" => kind'[r] = "summary" /\ send'[r] # {}
  /\ UNCHANGED <<items, delivery, hour, known, rules, made, employee, unread, replies, notices, disturbed>>

LEMMA ResolveDoes ==
  ASSUME Types, NEW r \in Runs, Resolve(r)
  PROVE  Winds(r) /\ Same(r)
<1>. DEFINE channel == FirstOf(ask[r])
            left == ask[r] \ {channel}
            open(some) == send[r] \cup IF Suppressed(some, channel, hour[r], FALSE) THEN {} ELSE {channel}
<1>1. PICK some \in Listed(rules) :
        IF left = {} THEN Notified(r, "summary", open(some))
        ELSE /\ ask' = [ask EXCEPT ![r] = left]
             /\ send' = [send EXCEPT ![r] = open(some)]
             /\ UNCHANGED <<stage, kind, delivery>>
  BY DEF Resolve
<1>2. stage[r] = "resolve" /\ UNCHANGED <<given, memory, items, world>>
  BY DEF Resolve
<1>. HIDE DEF channel, left, open
<1>3. CASE left = {}
  BY <1>1, <1>2, <1>3, NotifiedDoes DEF Notifies, AfterNotice, Winds, Same, given, memory, world, Current
<1>4. CASE left # {}
  BY <1>1, <1>2, <1>4 DEF Winds, Same, given, memory, world, Current, Types
<1>. QED
  BY <1>3, <1>4

LEMMA EndOfItemsDoes ==
  ASSUME Types, NEW r \in Runs, EndOfItems(r)
  PROVE  Winds(r) /\ Same(r)
<1>1. stage[r] = "work" /\ UNCHANGED <<given, memory, items, world>>
  BY DEF EndOfItems
<1>2. CASE Open = {}
  <2>1. Notified(r, "summary", {})
    BY <1>2 DEF EndOfItems
  <2>. QED
    BY <1>1, <2>1, NotifiedDoes DEF Notifies, AfterNotice, Winds, Same, given, memory, world, Current
<1>3. CASE Open # {}
  <2>1. stage'[r] = "resolve" /\ \A s \in Runs : s # r => stage'[s] = stage[s]
    BY <1>3 DEF EndOfItems, Goto, Types
  <2>2. \A s \in Runs : s # r => kind'[s] = kind[s]
    BY <1>3 DEF EndOfItems, Types
  <2>3. UNCHANGED <<send, delivery>>
    BY <1>3 DEF EndOfItems
  <2>. QED
    BY <1>1, <2>1, <2>2, <2>3 DEF Winds, Same, given, memory, world, Current
<1>. QED
  BY <1>2, <1>3

LEMMA PersistDoes ==
  ASSUME Types, NEW r \in Runs, PersistReport(r)
  PROVE  Winds(r) /\ Same(r)
<1>1. stage'[r] = "done" /\ \A s \in Runs : s # r => stage'[s] = stage[s]
  BY DEF PersistReport, Goto, Types
<1>. QED
  BY <1>1 DEF PersistReport, Winds, Same, given, memory, notice, Current

Sends(r, channel) ==
  /\ stage[r] = "notify"
  /\ Notifies(r, kind[r], send[r] \ {channel})
  /\ notices' = notices \cup {<<r, kind[r], Topic(r), channel>>}
  /\ UNCHANGED <<items, hour, known, rules, made, employee, unread, replies, disturbed>>

LEMMA SendDoes ==
  ASSUME Types, NEW r \in Runs, Send(r)
  PROVE  (Fails(r) \/ Sends(r, FirstOf(send[r]))) /\ Same(r)
<1>1. CASE Refused(r)
  BY <1>1, RefusedDoes DEF Send
<1>2. CASE ~Refused(r)
  <2>1. /\ stage[r] = "notify"
        /\ notices' = notices \cup {<<r, kind[r], Topic(r), FirstOf(send[r])>>}
        /\ Notified(r, kind[r], send[r] \ {FirstOf(send[r])})
        /\ UNCHANGED <<given, memory, items, unread, replies, latest, faults, disturbed>>
    BY <1>2 DEF Send
  <2>. QED
    BY <2>1, NotifiedDoes DEF Sends, Same, given, memory, Current
<1>. QED
  BY <1>1, <1>2

Fetches(r) ==
  /\ stage[r] = "fetch" /\ stage'[r] = "work"
  /\ items'[r] \subseteq unread
  /\ UNCHANGED <<kind, send, delivery, hour, known, rules, made, employee, unread, replies, notices, disturbed>>

LEMMA FetchDoes ==
  ASSUME Types, NEW r \in Runs, Fetch(r)
  PROVE  Fetches(r) /\ Same(r)
<1>1. stage'[r] = "work" /\ \A s \in Runs : s # r => stage'[s] = stage[s]
  BY DEF Fetch, Goto, Types
<1>2. Batch \subseteq unread
  BY DEF Batch
<1>3. items'[r] \subseteq unread /\ \A s \in Runs : s # r => items'[s] = items[s]
  BY <1>2 DEF Fetch, Types
<1>. QED
  BY <1>1, <1>3 DEF Fetch, Fetches, Same, given, memory, notice, world, Current

(* A run takes a message up, and escalates it or is about to answer.       *)
TakesUp(r) ==
  /\ stage[r] = "work" /\ items[r] # {}
  /\ \/ Notifies(r, "escalate", Open)
     \/ stage'[r] = "respond" /\ UNCHANGED <<kind, send, delivery>>
  /\ UNCHANGED <<items, hour, known, rules, made, employee, unread, replies, notices, disturbed>>

LEMMA ProcessDoes ==
  ASSUME Types, NEW r \in Runs, NEW asks \in BOOLEAN, NEW events \in BOOLEAN,
         ProcessMessage(r, asks, events)
  PROVE  (Fails(r) \/ TakesUp(r)) /\ Same(r)
<1>0. stage[r] = "work" /\ items[r] # {}
  BY DEF ProcessMessage
<1>1. CASE Refused(r)
  BY <1>0, <1>1, RefusedDoes
<1>2. CASE ~Refused(r)
  <2>1. UNCHANGED <<given, memory, items, world>>
    BY <1>2 DEF ProcessMessage
  <2>2. CASE asks
    <3>1. Notified(r, "escalate", Open)
      BY <1>2, <2>2 DEF ProcessMessage
    <3>. QED
      BY <1>0, <2>1, <3>1, NotifiedDoes DEF TakesUp, Same, given, memory, world, Current
  <2>3. CASE ~asks
    <3>1. Goto(r, "respond") /\ UNCHANGED <<notice, delivery>>
      BY <1>2, <2>3 DEF ProcessMessage
    <3>2. stage'[r] = "respond" /\ \A s \in Runs : s # r => stage'[s] = stage[s]
      BY <3>1 DEF Goto, Types
    <3>. QED
      BY <1>0, <2>1, <3>1, <3>2 DEF TakesUp, Same, given, memory, notice, world, Current
  <2>. QED
    BY <2>2, <2>3
<1>. QED
  BY <1>1, <1>2

(* It drops the answer, or no rule it was shown stands against it.         *)
Answers(r) ==
  /\ stage[r] = "respond"
  /\ \/ stage'[r] = "mark" /\ Notes(r, "suppressed")
     \/ /\ stage'[r] = "reply" /\ UNCHANGED delivery
        /\ \E some \in Listed(rules) : ~Suppressed(some, "email", hour[r], FALSE)
  /\ UNCHANGED <<items, kind, send, hour, known, rules, made, employee, unread, replies, notices, disturbed>>

LEMMA RespondDoes ==
  ASSUME Types, InHand, NEW r \in Runs, Respond(r)
  PROVE  Answers(r) /\ Same(r)
<1>1. stage[r] = "respond" /\ items[r] # {} /\ UNCHANGED <<given, memory, items, notice, world>>
  BY DEF Respond, InHand, Handling
<1>2. CASE Goto(r, "mark") /\ Delivered(r, "suppressed")
  <2>1. stage'[r] = "mark" /\ \A s \in Runs : s # r => stage'[s] = stage[s]
    BY <1>2 DEF Goto, Types
  <2>2. Notes(r, "suppressed") /\ \A s \in Runs : s # r => delivery'[s] = delivery[s]
    BY <1>1, <1>2, CurrentIsOne DEF Delivered, Notes, Types
  <2>. QED
    BY <1>1, <2>1, <2>2 DEF Answers, Same, given, memory, notice, world, Current
<1>3. CASE ~(Goto(r, "mark") /\ Delivered(r, "suppressed"))
  <2>1. PICK some \in Listed(rules) :
          /\ ~Suppressed(some, "email", hour[r], FALSE)
          /\ Goto(r, "reply") /\ UNCHANGED delivery
    BY <1>3 DEF Respond
  <2>2. stage'[r] = "reply" /\ \A s \in Runs : s # r => stage'[s] = stage[s]
    BY <2>1 DEF Goto, Types
  <2>. QED
    BY <1>1, <2>1, <2>2 DEF Answers, Same, given, memory, notice, world, Current
<1>. QED
  BY <1>2, <1>3

Replies(r) ==
  /\ stage[r] = "reply" /\ stage'[r] = "mark"
  /\ Notes(r, "sent")
  /\ replies'[Current(r)] = replies[Current(r)] + 1
  /\ \A m \in Messages : m # Current(r) => replies'[m] = replies[m]
  /\ UNCHANGED <<items, kind, send, hour, known, rules, made, employee, unread, notices, disturbed>>

LEMMA ReplyDoes ==
  ASSUME Types, InHand, NEW r \in Runs, Reply(r)
  PROVE  (Fails(r) \/ Replies(r)) /\ Same(r)
<1>1. CASE Refused(r)
  BY <1>1, RefusedDoes DEF Reply
<1>2. CASE ~Refused(r)
  <2>1. /\ stage[r] = "reply"
        /\ Goto(r, "mark") /\ Delivered(r, "sent")
        /\ replies' = [replies EXCEPT ![Current(r)] = @ + 1]
        /\ UNCHANGED <<given, memory, items, notice, unread, notices, latest, faults, disturbed>>
    BY <1>2 DEF Reply
  <2>2. items[r] # {}
    BY <2>1 DEF InHand, Handling
  <2>3. stage'[r] = "mark" /\ \A s \in Runs : s # r => stage'[s] = stage[s]
    BY <2>1 DEF Goto, Types
  <2>4. Notes(r, "sent") /\ \A s \in Runs : s # r => delivery'[s] = delivery[s]
    BY <2>1, <2>2, CurrentIsOne DEF Delivered, Notes, Types
  <2>5. /\ replies'[Current(r)] = replies[Current(r)] + 1
        /\ \A m \in Messages : m # Current(r) => replies'[m] = replies[m]
    <3>1. Current(r) \in Messages /\ replies \in [Messages -> Nat]
      BY <2>2, CurrentIsOne DEF Types
    <3>2. replies' = [replies EXCEPT ![Current(r)] = @ + 1]
      BY <2>1
    <3>. QED
      BY <3>1, <3>2
  <2>. QED
    BY <2>1, <2>3, <2>4, <2>5 DEF Replies, Same, given, memory, notice, Current
<1>. QED
  BY <1>1, <1>2

Marks(r) ==
  /\ stage[r] = "mark" /\ stage'[r] = "work"
  /\ unread' = unread \ {Current(r)}
  /\ items'[r] = items[r] \ {Current(r)}
  /\ UNCHANGED <<kind, send, delivery, hour, known, rules, made, employee, replies, notices, disturbed>>

LEMMA MarkReadDoes ==
  ASSUME Types, NEW r \in Runs, MarkRead(r)
  PROVE  Marks(r) /\ Same(r)
<1>1. stage'[r] = "work" /\ \A s \in Runs : s # r => stage'[s] = stage[s]
  BY DEF MarkRead, Goto, Types
<1>2. items'[r] = items[r] \ {Current(r)} /\ \A s \in Runs : s # r => items'[s] = items[s]
  BY DEF MarkRead, Types
<1>. QED
  BY <1>1, <1>2 DEF MarkRead, Marks, Same, given, memory, notice, Current

(* What a step of the loop may do.                                         *)
Does(r) ==
  /\ Same(r)
  /\ \/ Fails(r) \/ Begins(r) \/ Winds(r) \/ Fetches(r) \/ TakesUp(r) \/ Answers(r) \/ Replies(r) \/ Marks(r)
     \/ \E channel \in Channels : Sends(r, channel)

LEMMA LoopStep ==
  ASSUME Types, InHand, [Next]_vars
  PROVE  \/ UNCHANGED vars
         \/ \E rule \in RuleBook : StoreRule(rule)
         \/ \E r \in Runs : Does(r)
<1>1. ASSUME NEW r \in Runs, \/ \E h \in Hours : Start(r, h)
                            \/ Step(r) \/ Fault(r)
      PROVE  Does(r)
  <2>1. FirstOf(send[r]) \in Channels
    BY DEF FirstOf, Channels
  <2>. QED
    BY <1>1, <2>1, FaultDoes, StartDoes, ResolveDoes, SendDoes, FetchDoes, ProcessDoes, RespondDoes,
       ReplyDoes, MarkReadDoes, EndOfItemsDoes, PersistDoes DEF Step, Does
<1>. QED
  BY <1>1 DEF Next

-----------------------------------------------------------------------------
LEMMA StillStep ==
  ASSUME \/ UNCHANGED vars
         \/ \E rule \in RuleBook : StoreRule(rule)
  PROVE  /\ UNCHANGED <<employee, stage, hour, known, items, kind, ask, send, delivery, unread, replies, notices, disturbed>>
         /\ \A r \in Runs : Current(r)' = Current(r)
  BY DEF StoreRule, vars, given, memory, notice, world, Current

(* What the steps of the other runs and of the supervisors leave alone is  *)
(* enough for them; the run that moves is looked at step by step.          *)
LEMMA HandStep == Types /\ Types' /\ InHand /\ [Next]_vars => InHand'
<1>. SUFFICES ASSUME Types, Types', InHand, [Next]_vars PROVE InHand'
  OBVIOUS
<1>1. CASE UNCHANGED vars \/ \E rule \in RuleBook : StoreRule(rule)
  BY <1>1, StillStep DEF InHand, Handling
<1>2. ASSUME NEW r \in Runs, Does(r) PROVE InHand'
  <2>1. ASSUME NEW s \in Runs, s # r
        PROVE  /\ Handling(s)' => items'[s] # {}
               /\ stage'[s] = "notify" => send'[s] # {}
               /\ stage'[s] = "idle" => items'[s] = {} /\ \A m \in Messages : delivery'[s][m] = "none"
    BY <1>2, <2>1 DEF InHand, Handling, Does, Same
  <2>2. /\ Handling(r)' => items'[r] # {}
        /\ stage'[r] = "notify" => send'[r] # {}
        /\ stage'[r] # "idle"
    <3>1. CASE Fails(r)
      BY <3>1 DEF Fails, Handling
    <3>2. CASE Begins(r)
      BY <3>2 DEF Begins, Notifies, AfterNotice, Handling
    <3>3. CASE Winds(r)
      BY <3>3 DEF Winds, Handling
    <3>4. CASE Fetches(r)
      BY <3>4 DEF Fetches, Handling
    <3>5. CASE TakesUp(r)
      BY <3>5 DEF TakesUp, Notifies, AfterNotice, Handling
    <3>6. CASE Answers(r)
      BY <3>6 DEF Answers, InHand, Handling
    <3>7. CASE Replies(r)
      BY <3>7 DEF Replies, InHand, Handling
    <3>8. CASE Marks(r)
      BY <3>8 DEF Marks, Handling
    <3>9. ASSUME NEW channel \in Channels, Sends(r, channel)
          PROVE  /\ Handling(r)' => items'[r] # {}
                 /\ stage'[r] = "notify" => send'[r] # {}
                 /\ stage'[r] # "idle"
      <4>1. kind[r] \in {"briefing", "escalate", "summary"}
        BY DEF Types
      <4>2. kind[r] = "escalate" => items[r] # {}
        BY <3>9 DEF Sends, InHand, Handling
      <4>. QED
        BY <3>9, <4>1, <4>2 DEF Sends, Notifies, AfterNotice, Handling
    <3>. QED
      BY <1>2, <3>1, <3>2, <3>3, <3>4, <3>5, <3>6, <3>7, <3>8, <3>9 DEF Does
  <2>. QED
    BY <2>1, <2>2 DEF InHand
<1>. QED
  BY <1>1, <1>2, LoopStep

LEMMA LoopInHand == Spec => [](Types /\ InHand)
<1>1. Init => InHand
  BY DEF Init, InHand, Handling
<1>. QED
  BY <1>1, LoopTypes, HandStep, PTL DEF Spec

-----------------------------------------------------------------------------
(* AnsweredOnce: what could answer a message twice is a second run, or one *)
(* that broke off between its answer and the mark.                         *)
LEMMA UndisturbedStep == Types /\ InHand /\ Undisturbed /\ [Next]_vars => Undisturbed'
<1>. SUFFICES ASSUME Types, InHand, Undisturbed, [Next]_vars, ~disturbed' PROVE Undisturbed'
  BY DEF Undisturbed
<1>. SUFFICES OneAtATime' /\ HasUnread' /\ AnsweredAtMark'
  BY DEF Undisturbed
<1>1. CASE UNCHANGED vars \/ \E rule \in RuleBook : StoreRule(rule)
  <2>1. OneAtATime /\ HasUnread /\ AnsweredAtMark
    BY <1>1, StillStep DEF Undisturbed
  <2>2. OneAtATime' /\ HasUnread'
    BY <1>1, <2>1, StillStep DEF OneAtATime, HasUnread, Active
  <2>3. AnsweredAtMark'
    BY <1>1, <2>1, StillStep DEF AnsweredAtMark
  <2>. QED
    BY <2>2, <2>3
<1>2. ASSUME NEW r \in Runs, Does(r)
      PROVE  OneAtATime' /\ HasUnread' /\ AnsweredAtMark'
  <2>1. ~disturbed /\ ~Fails(r)
    <3>1. ~Fails(r)
      BY DEF Fails
    <3>2. CASE Begins(r)
      BY <3>1, <3>2, Zenon DEF Begins
    <3>3. CASE ~Begins(r)
      <4>1. disturbed' = disturbed
        BY <1>2, <3>1, <3>3 DEF Does, Winds, Fetches, TakesUp, Answers, Replies, Marks, Sends
      <4>. QED
        BY <3>1, <4>1, Zenon
    <3>. QED
      BY <3>2, <3>3
  <2>2. OneAtATime /\ HasUnread /\ AnsweredAtMark /\ Same(r)
    BY <1>2, <2>1 DEF Undisturbed, Does
  <2>3. \A s \in Runs : s # r => ~Active(s) /\ ~Active(s)'
    <3>1. CASE Begins(r)
      BY <2>2, <3>1 DEF Begins, Active, Same
    <3>2. CASE ~Begins(r)
      <4>1. Active(r)
        BY <1>2, <2>1, <3>2 DEF Does, Winds, Fetches, TakesUp, Answers, Replies, Marks, Sends, Active
      <4>. QED
        BY <2>2, <4>1 DEF OneAtATime, Active, Same
    <3>. QED
      BY <3>1, <3>2
  <2>4. OneAtATime'
    BY <2>3 DEF OneAtATime, Active
  <2>5. HasUnread'
    <3>1. items'[r] \subseteq unread'
      <4>1. CASE Begins(r)
        BY <4>1 DEF Begins, InHand
      <4>2. CASE Fetches(r)
        BY <4>2 DEF Fetches
      <4>3. CASE Marks(r)
        BY <2>2, <4>3 DEF Marks, HasUnread, Active
      <4>4. CASE ~Begins(r) /\ ~Fetches(r) /\ ~Marks(r)
        BY <1>2, <2>1, <2>2, <4>4
        DEF Does, Winds, TakesUp, Answers, Replies, Sends, HasUnread, Active
      <4>. QED
        BY <4>1, <4>2, <4>3, <4>4
    <3>. QED
      BY <2>3, <3>1 DEF HasUnread, Active
  <2>6. AnsweredAtMark'
    <3>1. ASSUME NEW m \in Messages, m \in unread, replies[m] # 0
          PROVE  stage[r] = "mark" /\ m = Current(r)
      BY <2>2, <2>3, <3>1 DEF AnsweredAtMark, Active
    <3>2. CASE Replies(r)
      <4>1. items[r] # {} /\ items[r] \subseteq unread
        BY <2>2, <3>2 DEF Replies, InHand, Handling, HasUnread, Active
      <4>2. Current(r) \in unread /\ Current(r) \in Messages /\ replies[Current(r)] = 0
        BY <3>1, <3>2, <4>1, CurrentIsOne DEF Replies
      <4>3. Current(r)' = Current(r)
        BY <3>2 DEF Replies, Current
      <4>. QED
        BY <2>2, <3>1, <3>2, <4>2, <4>3 DEF Replies, AnsweredAtMark
    <3>3. CASE Marks(r)
      BY <2>2, <3>1, <3>3 DEF Marks, AnsweredAtMark
    <3>4. CASE ~Replies(r) /\ ~Marks(r)
      <4>1. stage[r] # "mark" /\ UNCHANGED <<unread, replies>>
        BY <1>2, <2>1, <3>4 DEF Does, Begins, Winds, Fetches, TakesUp, Answers, Sends
      <4>. QED
        BY <2>2, <3>1, <4>1 DEF AnsweredAtMark
    <3>. QED
      BY <3>2, <3>3, <3>4
  <2>. QED
    BY <2>4, <2>5, <2>6
<1>. QED
  BY <1>1, <1>2, LoopStep

(* A sender is answered twice only after a disturbance, in any number of   *)
(* runs over any inbox.                                                    *)
THEOREM LoopAnsweredOnce == Spec => []AnsweredOnce
<1>1. Init => Undisturbed
  BY DEF Init, Undisturbed, OneAtATime, HasUnread, AnsweredAtMark, Active
<1>2. Undisturbed => AnsweredOnce
  BY DEF Undisturbed, AnsweredAtMark, AnsweredOnce
<1>. QED
  BY <1>1, <1>2, LoopInHand, UndisturbedStep, PTL DEF Spec

-----------------------------------------------------------------------------
(* ReadIsDealtWith: a message is dealt with before its mark, by the run    *)
(* that marks it, and no run comes back to one it has left.                *)
Dealt == DealtAtMark /\ Telling /\ LeftBehind

(* A step of one run keeps what another has done about a message.          *)
LEMMA DealtStays ==
  ASSUME Types, NEW r \in Runs, NEW s \in Runs, NEW m \in Messages,
         DealtBy(s, m), employee' = employee, notices \subseteq notices',
         delivery'[s][m] = delivery[s][m], replies \in [Messages -> Nat],
         \A n \in Messages : replies'[n] \in Nat /\ replies'[n] >= replies[n]
  PROVE  DealtBy(s, m)'
<1>1. Open' = Open
  BY DEF Open
<1>2. replies[m] > 0 => replies'[m] > 0
  <2>1. replies[m] \in Nat /\ replies'[m] \in Nat /\ replies'[m] >= replies[m]
    OBVIOUS
  <2>. QED
    BY <2>1
<1>. QED
  BY <1>1, <1>2 DEF DealtBy

LEMMA Grows ==
  ASSUME Types, Types', InHand, NEW r \in Runs, Does(r)
  PROVE  /\ employee' = employee /\ notices \subseteq notices' /\ unread' \subseteq unread
         /\ \A n \in Messages : replies[n] \in Nat /\ replies'[n] \in Nat /\ replies'[n] >= replies[n]
<1>1. \A n \in Messages : replies[n] \in Nat /\ replies'[n] \in Nat
  BY DEF Types
<1>2. CASE Replies(r)
  <2>1. Current(r) \in Messages
    BY <1>2, CurrentIsOne DEF Replies, InHand, Handling
  <2>. QED
    BY <1>1, <1>2, <2>1 DEF Replies
<1>3. CASE Fails(r)
  BY <1>1, <1>3 DEF Fails
<1>4. CASE ~Replies(r) /\ ~Fails(r)
  <2>1. replies' = replies
    BY <1>4 DEF Does, Begins, Winds, Fetches, TakesUp, Answers, Marks, Sends
  <2>2. \A n \in Messages : replies'[n] >= replies[n]
    BY <1>1, <2>1
  <2>3. employee' = employee /\ notices \subseteq notices' /\ unread' \subseteq unread
    BY <1>4 DEF Does, Begins, Winds, Fetches, TakesUp, Answers, Marks, Sends
  <2>. QED
    BY <1>1, <2>2, <2>3
<1>. QED
  BY <1>2, <1>3, <1>4

LEMMA DealtStep == Types /\ Types' /\ InHand /\ InHand' /\ Dealt /\ [Next]_vars => Dealt'
<1>. SUFFICES ASSUME Types, Types', InHand, InHand', Dealt, [Next]_vars PROVE Dealt'
  OBVIOUS
<1>1. CASE UNCHANGED vars \/ \E rule \in RuleBook : StoreRule(rule)
  <2>1. Open' = Open /\ \A r \in Runs, m \in Messages : DealtBy(r, m)' <=> DealtBy(r, m)
    BY <1>1, StillStep DEF Open, DealtBy
  <2>2. DealtAtMark' /\ LeftBehind'
    BY <1>1, <2>1, StillStep DEF Dealt, DealtAtMark, LeftBehind
  <2>3. Telling'
    BY <1>1, <2>1, StillStep DEF Dealt, Telling
  <2>. QED
    BY <2>2, <2>3 DEF Dealt
<1>2. ASSUME NEW r \in Runs, Does(r) PROVE Dealt'
  <2>1. Same(r) /\ Open' = Open
    BY <1>2, Grows DEF Does, Open
  <2>2. ASSUME NEW s \in Runs, NEW m \in Messages, DealtBy(s, m), delivery'[s][m] = delivery[s][m]
        PROVE  DealtBy(s, m)'
    BY <1>2, <2>2, Grows, DealtStays DEF Types
  <2>3. ASSUME NEW s \in Runs, NEW m \in Messages, s # r, stage'[s] = "mark", m = Current(s)'
        PROVE  DealtBy(s, m)'
    <3>1. stage[s] = "mark" /\ m = Current(s) /\ delivery'[s] = delivery[s]
      BY <2>1, <2>3 DEF Same
    <3>. QED
      BY <2>2, <3>1 DEF Dealt, DealtAtMark
  <2>4. ASSUME NEW s \in Runs, NEW m \in Messages, s # r,
               stage'[s] = "notify", kind'[s] = "escalate", m = Current(s)'
        PROVE  /\ delivery'[s][m] = "escalated"
               /\ \A c \in Open' \ send'[s] : <<s, "escalate", m, c>> \in notices'
    <3>1. /\ stage[s] = "notify" /\ kind[s] = "escalate" /\ m = Current(s)
          /\ delivery'[s] = delivery[s] /\ send'[s] = send[s]
      BY <2>1, <2>4 DEF Same
    <3>2. notices \subseteq notices'
      BY <1>2, Grows
    <3>. QED
      BY <2>1, <3>1, <3>2 DEF Dealt, Telling
  <2>5. ASSUME NEW m \in Messages, stage'[r] = "mark", m = Current(r)' PROVE DealtBy(r, m)'
    <3>1. CASE Answers(r)
      <4>1. Notes(r, "suppressed") /\ Current(r)' = Current(r)
        BY <2>5, <3>1 DEF Answers, Current
      <4>. QED
        BY <2>5, <4>1 DEF Notes, DealtBy
    <3>2. CASE Replies(r)
      <4>1. Notes(r, "sent") /\ Current(r)' = Current(r) /\ replies'[Current(r)] = replies[Current(r)] + 1
        BY <3>2 DEF Replies, Current
      <4>2. m = Current(r) /\ replies[m] \in Nat
        BY <2>5, <4>1 DEF Types
      <4>3. replies'[m] > 0
        BY <4>1, <4>2
      <4>. QED
        BY <4>1, <4>2, <4>3 DEF Notes, DealtBy
    <3>3. CASE TakesUp(r)
      <4>1. Notifies(r, "escalate", Open) /\ items[r] # {} /\ Current(r)' = Current(r)
        BY <2>5, <3>3 DEF TakesUp, Current
      <4>2. Open = {} /\ delivery'[r][m] = "escalated"
        BY <2>5, <4>1 DEF Notifies, Notes
      <4>. QED
        BY <2>1, <4>2 DEF DealtBy
    <3>4. ASSUME NEW channel \in Channels, Sends(r, channel) PROVE DealtBy(r, m)'
      <4>1. kind[r] = "escalate" /\ send[r] \ {channel} = {} /\ Current(r)' = Current(r)
        BY <2>5, <3>4 DEF Sends, Notifies, AfterNotice, Current, Types
      <4>2. /\ stage[r] = "notify" /\ m = Current(r)
            /\ delivery'[r][m] = "escalated"
            /\ notices' = notices \cup {<<r, "escalate", m, channel>>}
        BY <2>5, <3>4, <4>1 DEF Sends, Notifies, Notes, InHand, Handling, Topic
      <4>3. \A c \in Open \ send[r] : <<r, "escalate", m, c>> \in notices
        BY <4>1, <4>2 DEF Dealt, Telling
      <4>4. \A c \in Open : <<r, "escalate", m, c>> \in notices'
        BY <4>1, <4>2, <4>3
      <4>. QED
        BY <2>1, <4>2, <4>4 DEF DealtBy
    <3>5. CASE Begins(r)
      BY <2>5, <3>5 DEF Begins, Notifies, AfterNotice
    <3>. QED
      BY <1>2, <2>5, <3>1, <3>2, <3>3, <3>4, <3>5 DEF Does, Fails, Winds, Fetches, Marks
  <2>6. ASSUME NEW m \in Messages, stage'[r] = "notify", kind'[r] = "escalate", m = Current(r)'
        PROVE  /\ delivery'[r][m] = "escalated"
               /\ \A c \in Open' \ send'[r] : <<r, "escalate", m, c>> \in notices'
    <3>1. CASE TakesUp(r)
      <4>1. Notifies(r, "escalate", Open) /\ items[r] # {} /\ Current(r)' = Current(r)
        BY <2>6, <3>1 DEF TakesUp, Current
      <4>. QED
        BY <2>1, <2>6, <4>1 DEF Notifies, Notes
    <3>2. ASSUME NEW channel \in Channels, Sends(r, channel)
          PROVE  /\ delivery'[r][m] = "escalated"
                 /\ \A c \in Open' \ send'[r] : <<r, "escalate", m, c>> \in notices'
      <4>1. /\ kind[r] = "escalate" /\ stage[r] = "notify" /\ Current(r)' = Current(r)
            /\ send'[r] = send[r] \ {channel}
        BY <2>6, <3>2 DEF Sends, Notifies, Current
      <4>2. /\ m = Current(r) /\ delivery'[r][m] = "escalated"
            /\ notices' = notices \cup {<<r, "escalate", m, channel>>}
        BY <2>6, <3>2, <4>1 DEF Sends, Notifies, Notes, InHand, Handling, Topic
      <4>3. \A c \in Open \ send[r] : <<r, "escalate", m, c>> \in notices
        BY <4>1, <4>2 DEF Dealt, Telling
      <4>. QED
        BY <2>1, <4>1, <4>2, <4>3
    <3>3. CASE Begins(r)
      BY <2>6, <3>3 DEF Begins, Notifies
    <3>. QED
      BY <1>2, <2>6, <3>1, <3>2, <3>3 DEF Does, Fails, Winds, Fetches, Answers, Replies, Marks
  <2>7. ASSUME NEW m \in Messages \ unread'
        PROVE  \E s \in Runs : DealtBy(s, m)' /\ (m \notin items'[s] \/ stage'[s] = "failed")
    <3>1. CASE m \in unread
      <4>1. stage[r] = "mark" /\ m = Current(r) /\ delivery' = delivery /\ (Fails(r) \/ Marks(r))
        BY <1>2, <3>1 DEF Does, Begins, Winds, Fetches, TakesUp, Answers, Replies, Sends, Fails, Marks
      <4>2. DealtBy(r, m)'
        BY <2>2, <4>1 DEF Dealt, DealtAtMark
      <4>3. m \notin items'[r] \/ stage'[r] = "failed"
        BY <4>1 DEF Fails, Marks
      <4>. QED
        BY <4>2, <4>3
    <3>2. CASE m \notin unread
      <4>1. PICK s \in Runs : DealtBy(s, m) /\ (m \notin items[s] \/ stage[s] = "failed")
        BY <3>2 DEF Dealt, LeftBehind
      <4>2. CASE s # r
        <5>1. delivery'[s] = delivery[s] /\ items'[s] = items[s] /\ stage'[s] = stage[s]
          BY <2>1, <4>2 DEF Same
        <5>. QED
          BY <2>2, <4>1, <5>1
      <4>3. CASE s = r
        <5>1. stage[r] # "failed"
          BY <1>2 DEF Does, Fails, Begins, Winds, Fetches, TakesUp, Answers, Replies, Marks, Sends
        <5>2. m \notin items[r] /\ m \notin items'[r]
          BY <1>2, <3>2, <4>1, <4>3, <5>1
          DEF Does, Fails, Begins, Winds, Fetches, TakesUp, Answers, Replies, Marks, Sends
        <5>3. items[r] # {} => m # Current(r)
          BY <5>2, CurrentIsOne
        <5>4. delivery'[r][m] = delivery[r][m]
          <6>1. CASE TakesUp(r)
            BY <5>3, <6>1 DEF TakesUp, Notifies, Notes
          <6>2. CASE Answers(r) \/ Replies(r)
            BY <5>3, <6>2 DEF Answers, Replies, Notes, InHand, Handling
          <6>3. ASSUME NEW channel \in Channels, Sends(r, channel)
                PROVE  delivery'[r][m] = delivery[r][m]
            BY <5>3, <6>3 DEF Sends, Notifies, Notes, InHand, Handling
          <6>4. CASE Begins(r)
            BY <6>4 DEF Begins, Notifies
          <6>. QED
            BY <1>2, <6>1, <6>2, <6>3, <6>4 DEF Does, Fails, Winds, Fetches, Marks
        <5>. QED
          BY <2>2, <4>1, <4>3, <5>2, <5>4
      <4>. QED
        BY <4>2, <4>3
    <3>. QED
      BY <3>1, <3>2
  <2>8. DealtAtMark'
    BY <2>3, <2>5 DEF DealtAtMark
  <2>9. Telling'
    BY <2>4, <2>6 DEF Telling
  <2>10. LeftBehind'
    BY <2>7 DEF LeftBehind
  <2>. QED
    BY <2>8, <2>9, <2>10 DEF Dealt
<1>. QED
  BY <1>1, <1>2, LoopStep

(* Nothing is read and lost: whatever marked a message read had answered   *)
(* it, told the supervisor or had a reason to drop the answer.             *)
THEOREM LoopReadIsDealtWith == Spec => []ReadIsDealtWith
<1>1. Init => Dealt
  BY DEF Init, Dealt, DealtAtMark, Telling, LeftBehind
<1>2. Dealt => ReadIsDealtWith
  BY DEF Dealt, LeftBehind, DealtBy, ReadIsDealtWith
<1>. QED
  BY <1>1, <1>2, LoopInHand, DealtStep, PTL DEF Spec

-----------------------------------------------------------------------------
(* QuietIsKept: the direct command that asks for quiet, or a later one,    *)
(* outranks every rule that applies, and direct commands are never removed. *)
LEMMA NewestCommand ==
  ASSUME Types, RulesInOrder, NEW r \in Runs, NEW d \in rules,
         d.source = "direct_command", d.quiet, AsksForQuiet(r, d)
  PROVE  Suppressed(rules, "email", hour[r], FALSE)
<1>. DEFINE A == {e \in rules : e.source = "direct_command" /\ Applies(e, "email", hour[r])}
            S == {e.made : e \in A}
<1>1. \A e \in rules : e.made \in 0..made /\ e.made \in Nat /\ made \in Nat
  BY DEF Types, RulesInOrder
<1>2. S \in SUBSET (0..made)
  BY <1>1
<1>3. d \in A /\ d.made \in S
  BY DEF AsksForQuiet
<1>4. PICK n \in S : \A k \in S : k <= n
  BY <1>1, <1>2, <1>3, GreatestNumber
<1>5. PICK w \in A : w.made = n
  BY <1>4
<1>6. \A e \in A : e.made <= w.made
  BY <1>4, <1>5
<1>7. w.quiet
  <2>1. d.made <= w.made /\ d.made \in Nat /\ w.made \in Nat
    BY <1>1, <1>3, <1>5, <1>6
  <2>2. CASE w.made > d.made
    BY <1>5, <2>2 DEF AsksForQuiet
  <2>3. CASE w.made = d.made
    BY <1>5, <2>3 DEF RulesInOrder
  <2>. QED
    BY <2>1, <2>2, <2>3
<1>8. ASSUME NEW s \in rules, Applies(s, "email", hour[r]) PROVE Outranks(w, s)
  <2>1. s.source \in {"direct_command", "portal_rule", "adaptive_learning"}
    BY DEF Types, Stamped, Sources, Priority
  <2>2. CASE s.source = "direct_command"
    BY <1>1, <1>5, <1>6, <1>8, <2>2 DEF Outranks
  <2>3. CASE s.source # "direct_command"
    BY <1>5, <2>1, <2>3 DEF Outranks, Priority
  <2>. QED
    BY <2>2, <2>3
<1>. QED
  BY <1>5, <1>7, <1>8 DEF Suppressed

(* Storing a rule loses at most the portal's, for the portal's.            *)
LEMMA StoredRules ==
  ASSUME Types, Types', RulesInOrder, NEW rule \in RuleBook, StoreRule(rule)
  PROVE  /\ RulesInOrder'
         /\ \A d \in rules : d.source = "direct_command" => d \in rules'
         /\ \A d \in rules' : d \in rules \/ d.made = made'
         /\ Cardinality(rules) <= Cardinality(rules')
<1>. DEFINE new == [source |-> rule.source, after |-> rule.after, quiet |-> rule.quiet,
                    channels |-> rule.channels, made |-> made + 1]
            kept == {d \in rules : rule.source # "portal_rule" \/ d.source # "portal_rule"}
<1>1. rules' = kept \cup {new} /\ made' = made + 1 /\ made \in Nat
  BY DEF StoreRule, Stored, Types
<1>2. new.made = made + 1 /\ new.source = rule.source /\ rule.source \in Sources
  BY LoopAssumption
<1>3. \A d \in rules : d.made \in 1..made
  BY DEF RulesInOrder
<1>4. new \notin rules /\ new \notin kept
  BY <1>1, <1>2, <1>3
<1>5. IsFiniteSet(kept) /\ IsFiniteSet(rules) /\ kept \subseteq rules
  BY FS_Subset DEF RulesInOrder
<1>6. /\ IsFiniteSet(rules') /\ Cardinality(rules') = Cardinality(kept) + 1
      /\ Cardinality(kept) \in Nat /\ Cardinality(rules) \in Nat
  BY <1>1, <1>4, <1>5, FS_AddElement, FS_CardinalityType
<1>7. Cardinality(rules) <= Cardinality(kept) + 1
  <2>1. CASE \E d \in rules : d \notin kept
    <3>1. PICK d \in rules : d \notin kept
      BY <2>1
    <3>2. \A e \in rules : e \notin kept => e = d
      BY <3>1 DEF RulesInOrder
    <3>3. kept = rules \ {d}
      BY <1>5, <3>1, <3>2
    <3>4. Cardinality(kept) = Cardinality(rules) - 1
      BY <1>5, <3>1, <3>3, FS_RemoveElement
    <3>. QED
      BY <1>6, <3>4
  <2>2. CASE ~ \E d \in rules : d \notin kept
    <3>1. kept = rules
      BY <1>5, <2>2
    <3>. QED
      BY <1>6, <3>1
  <2>. QED
    BY <2>1, <2>2
<1>8. \A e \in rules' : e.made \in 1..made'
  BY <1>1, <1>2, <1>3
<1>9. ASSUME NEW d \in rules', NEW e \in rules',
             d.made = e.made \/ (d.source = "portal_rule" /\ e.source = "portal_rule")
      PROVE  d = e
  <2>1. CASE d \in kept /\ e \in kept
    BY <1>9, <2>1 DEF RulesInOrder
  <2>2. \A f \in kept : f.made # new.made /\ ~(f.source = "portal_rule" /\ new.source = "portal_rule")
    BY <1>1, <1>2, <1>3
  <2>. QED
    BY <1>1, <1>9, <2>1, <2>2
<1>10. RulesInOrder'
  BY <1>6, <1>8, <1>9 DEF RulesInOrder
<1>11. \A d \in rules : d.source = "direct_command" => d \in rules'
  BY <1>1
<1>12. \A d \in rules' : d \in rules \/ d.made = made'
  BY <1>1, <1>2
<1>. QED
  BY <1>6, <1>7, <1>10, <1>11, <1>12

Quiet == RulesInOrder /\ KnownStays /\ MayAnswer

LEMMA QuietStep == Types /\ Types' /\ InHand /\ Quiet /\ [Next]_vars => Quiet'
<1>. SUFFICES ASSUME Types, Types', InHand, Quiet, [Next]_vars PROVE Quiet'
  OBVIOUS
<1>1. CASE UNCHANGED vars
  BY <1>1 DEF vars, given, memory, notice, world, Quiet, RulesInOrder, KnownStays, MayAnswer, AsksForQuiet
<1>2. ASSUME NEW rule \in RuleBook, StoreRule(rule) PROVE Quiet'
  <2>1. /\ RulesInOrder'
        /\ \A d \in rules : d.source = "direct_command" => d \in rules'
        /\ Cardinality(rules) <= Cardinality(rules')
    BY <1>2, StoredRules DEF Quiet
  <2>2. UNCHANGED <<stage, hour, known, delivery>>
    BY <1>2, StillStep
  <2>3. KnownStays'
    BY <2>1, <2>2 DEF Quiet, KnownStays
  <2>4. ASSUME NEW r \in Runs, NEW d \in known[r], AsksForQuiet(r, d)' PROVE AsksForQuiet(r, d)
    BY <2>1, <2>2, <2>4 DEF AsksForQuiet
  <2>5. Cardinality(rules') <= RuleLimit => Cardinality(rules) <= RuleLimit
    <3>1. Cardinality(rules) \in Nat /\ Cardinality(rules') \in Nat /\ RuleLimit \in Nat
      BY <2>1, FS_CardinalityType, LimitAssumption DEF Quiet, RulesInOrder
    <3>. QED
      BY <2>1, <3>1
  <2>6. MayAnswer'
    BY <2>2, <2>4, <2>5 DEF Quiet, MayAnswer
  <2>. QED
    BY <2>1, <2>3, <2>6 DEF Quiet
<1>3. ASSUME NEW r \in Runs, Does(r) PROVE Quiet'
  <2>1. UNCHANGED <<rules, made>> /\ Same(r)
    BY <1>3 DEF Does, Fails, Begins, Winds, Fetches, TakesUp, Answers, Replies, Marks, Sends
  <2>2. RulesInOrder'
    BY <2>1 DEF Quiet, RulesInOrder
  <2>3. (known'[r] = known[r] /\ hour'[r] = hour[r]) \/ Begins(r)
    BY <1>3 DEF Does, Fails, Winds, Fetches, TakesUp, Answers, Replies, Marks, Sends
  <2>4. KnownStays'
    BY <2>1, <2>3 DEF Quiet, KnownStays, Same, Begins
  <2>5. ASSUME NEW s \in Runs, Cardinality(rules) <= RuleLimit,
               stage'[s] = "reply" \/ (\E m \in Messages : delivery'[s][m] = "sent"),
               NEW d \in known'[s], AsksForQuiet(s, d)'
        PROVE  FALSE
    <3>1. CASE s # r
      <4>1. /\ stage'[s] = stage[s] /\ delivery'[s] = delivery[s]
            /\ known'[s] = known[s] /\ hour'[s] = hour[s]
        BY <2>1, <3>1 DEF Same
      <4>2. AsksForQuiet(s, d)
        BY <2>1, <2>5, <4>1 DEF AsksForQuiet
      <4>. QED
        BY <2>5, <4>1, <4>2 DEF Quiet, MayAnswer
    <3>2. CASE s = r /\ Begins(r)
      BY <2>5, <3>2 DEF Begins, Notifies, AfterNotice, InHand
    <3>3. CASE s = r /\ ~Begins(r)
      <4>1. d \in known[r] /\ AsksForQuiet(r, d)
        BY <2>1, <2>3, <2>5, <3>3 DEF AsksForQuiet
      <4>2. stage[r] # "reply" /\ ~ \E m \in Messages : delivery[r][m] = "sent"
        BY <2>5, <4>1 DEF Quiet, MayAnswer
      <4>3. stage'[r] = "reply"
        <5>1. ~ Replies(r)
          BY <4>2 DEF Replies
        <5>2. ASSUME NEW m \in Messages, delivery'[r][m] = "sent" PROVE FALSE
          <6>1. CASE TakesUp(r)
            BY <4>2, <5>2, <6>1 DEF TakesUp, Notifies, Notes
          <6>2. CASE Answers(r)
            BY <4>2, <5>2, <6>2 DEF Answers, Notes
          <6>3. ASSUME NEW channel \in Channels, Sends(r, channel) PROVE FALSE
            BY <4>2, <5>2, <6>3 DEF Sends, Notifies, Notes, InHand, Handling
          <6>. QED
            BY <1>3, <3>3, <4>2, <5>1, <5>2, <6>1, <6>2, <6>3 DEF Does, Fails, Winds, Fetches, Marks
        <5>. QED
          BY <2>5, <3>3, <5>2
      <4>4. Answers(r)
        BY <1>3, <3>3, <4>2, <4>3
        DEF Does, Fails, Winds, Fetches, TakesUp, Replies, Marks, Sends, Notifies, AfterNotice, Types
      <4>5. ~Suppressed(rules, "email", hour[r], FALSE)
        BY <2>5, <4>3, <4>4 DEF Answers, Listed
      <4>6. d \in rules /\ d.source = "direct_command" /\ d.quiet
        BY <4>1 DEF Quiet, KnownStays
      <4>. QED
        BY <4>1, <4>5, <4>6, NewestCommand DEF Quiet
    <3>. QED
      BY <3>1, <3>2, <3>3
  <2>6. MayAnswer'
    BY <2>1, <2>5 DEF MayAnswer
  <2>. QED
    BY <2>2, <2>4, <2>6 DEF Quiet
<1>. QED
  BY <1>1, <1>2, <1>3, LoopStep

(* A supervisor's order holds against every rule of any other source and   *)
(* any age, while the rules fit the query.                                 *)
THEOREM LoopQuietIsKept == Spec => []QuietIsKept
<1>1. Init => Quiet
  BY FS_EmptySet DEF Init, Quiet, RulesInOrder, KnownStays, MayAnswer
<1>2. Quiet => QuietIsKept
  BY DEF Quiet, MayAnswer, AsksForQuiet, QuietIsKept
<1>. QED
  BY <1>1, <1>2, LoopInHand, LoopTypes, QuietStep, PTL DEF Spec
=============================================================================
