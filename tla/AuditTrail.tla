------------------------------ MODULE AuditTrail ------------------------------
(***************************************************************************)
(* What the audit_events table promises: it is append-only, and every      *)
(* event carries the hash of an event that was already there, or none.     *)
(* links holds, for each event, its own identity and the one it hashes.    *)
(***************************************************************************)
EXTENDS Naturals

VARIABLE links

Genesis == 0   \* prev_hash = "": nothing before this event

Known == {l.id : l \in links} \cup {Genesis}

Init == links = {}

(* One event is added; nothing is ever changed or removed.                 *)
AppendEvent(l) ==
  /\ l.id \notin Known
  /\ l.prev \in Known
  /\ links' = links \cup {l}

Next == \E l \in links' : AppendEvent(l)

Spec == Init /\ [][Next]_links
=============================================================================
