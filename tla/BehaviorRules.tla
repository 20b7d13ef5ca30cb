---------------------------- MODULE BehaviorRules ----------------------------
(***************************************************************************)
(* The behavior manager of an employee: quiet-hours rules by three         *)
(* sources, and which of them decides whether a notice is suppressed.      *)
(* A rule's made is its place in the order of created_at.                  *)
(***************************************************************************)
EXTENDS Integers, FiniteSets

CONSTANT RuleLimit   \* list_by_category returns at most this many rules (100)

ASSUME LimitAssumption == RuleLimit \in Nat \ {0}

Channels == {"email", "messaging"}

Priority == [direct_command |-> 1, portal_rule |-> 2, adaptive_learning |-> 3]
Sources == DOMAIN Priority

QuietRule(source, after, quiet, channels) ==
  [source |-> source, after |-> after, quiet |-> quiet, channels |-> channels]

(* _parse_hour: "after 9 pm" and its like, cut to an hour of the day.      *)
ParseHour(hour, suffix) ==
  LET h == IF suffix = "pm" /\ hour # 12 THEN hour + 12
           ELSE IF suffix = "am" /\ hour = 12 THEN 0 ELSE hour
  IN  IF h > 23 THEN 23 ELSE h

(* A command that says allow, resume or continue lifts the quiet hours.    *)
DirectCommand(hour, suffix, allows) ==
  QuietRule("direct_command", ParseHour(hour, suffix), ~allows, Channels)

(* store_rule: the key of a portal rule is fixed, so a new one replaces    *)
(* the old one; the other sources add a rule each.                         *)
Stored(rules, rule, made) ==
  {r \in rules : rule.source # "portal_rule" \/ r.source # "portal_rule"}
    \cup {[source |-> rule.source, after |-> rule.after, quiet |-> rule.quiet,
           channels |-> rule.channels, made |-> made]}

(* list_rules: with more rules than the limit, whichever the query returns. *)
Listed(rules) ==
  IF Cardinality(rules) <= RuleLimit THEN {rules}
  ELSE {some \in SUBSET rules : Cardinality(some) = RuleLimit}

Applies(rule, channel, hour) == channel \in rule.channels /\ hour >= rule.after

(* Mutation of Outranks: the oldest rule of a source wins.                 *)
Outranks_Oldest(r, s) ==
  \/ Priority[r.source] < Priority[s.source]
  \/ r.source = s.source /\ r.made <= s.made

(* The winning rule: the source first, then the newest.                    *)
Outranks(r, s) ==
  \/ Priority[r.source] < Priority[s.source]
  \/ r.source = s.source /\ r.made >= s.made

Suppressed(rules, channel, hour, urgent) ==
  /\ ~urgent
  /\ \E r \in rules :
       /\ Applies(r, channel, hour) /\ r.quiet
       /\ \A s \in rules : Applies(s, channel, hour) => Outranks(r, s)
=============================================================================
