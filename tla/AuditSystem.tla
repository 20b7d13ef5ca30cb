----------------------------- MODULE AuditSystem -----------------------------
(***************************************************************************)
(* log_event and verify_chain of the audit component.  With PostgreSQL an  *)
(* event is one transaction of three awaited steps: it begins (now() is    *)
(* the time of its occurred_at), it selects the last event to take its     *)
(* hash, it inserts and commits.  No lock spans them.  In memory the whole *)
(* call is one step.                                                       *)
(*                                                                         *)
(* SHA-256 is taken as injective and every event as different, so the hash *)
(* of an event is its own identity: the time stamp of its transaction.     *)
(***************************************************************************)
EXTENDS Naturals

CONSTANT
  Writers     \* coroutines that log events

VARIABLES
  storage,    \* "sql" or "memory": whether the component got a session factory
  clock,      \* the database's clock: one tick per transaction
  rows,       \* the events: [at, prev, event]
  tx,         \* the transaction of each writer: [stage, at, prev]
  overlapped  \* history: two transactions were open at once

auditVars == <<storage, clock, rows, tx, overlapped>>

NoTx == [stage |-> "none", at |-> 0, prev |-> 0]
Stages == {"none", "begun", "selected"}

AuditInit ==
  /\ storage \in {"sql", "memory"}
  /\ clock = 0
  /\ rows = {}
  /\ tx = [w \in Writers |-> NoTx]
  /\ overlapped = FALSE

(* The events by occurred_at: the one hashed by an event put in at time t. *)
Before(t) == {r \in rows : r.at < t}

IsLast(at, events) ==
  \/ events = {} /\ at = 0
  \/ \E r \in events : r.at = at /\ \A q \in events : q.at <= at

Begin(w) ==
  /\ storage = "sql" /\ tx[w].stage = "none"
  /\ clock' = clock + 1
  /\ tx' = [tx EXCEPT ![w] = [stage |-> "begun", at |-> clock + 1, prev |-> 0]]
  /\ overlapped' = (overlapped \/ \E v \in Writers : tx[v].stage # "none")
  /\ UNCHANGED <<storage, rows>>

(* Mutation of SelectLast: the order by is ascending.                      *)
SelectLast_Ascending(w) ==
  /\ tx[w].stage = "begun"
  /\ \E last \in {0} \cup {r.at : r \in rows} :
       /\ (rows = {} /\ last = 0) \/ (last # 0 /\ \A q \in rows : last <= q.at)
       /\ tx' = [tx EXCEPT ![w].stage = "selected", ![w].prev = last]
  /\ UNCHANGED <<storage, clock, rows, overlapped>>

(* The last committed event, whatever its transaction's time.              *)
SelectLast(w) ==
  /\ tx[w].stage = "begun"
  /\ \E last \in {0} \cup {r.at : r \in rows} :
       /\ IsLast(last, rows)
       /\ tx' = [tx EXCEPT ![w].stage = "selected", ![w].prev = last]
  /\ UNCHANGED <<storage, clock, rows, overlapped>>

(* Mutation of Commit: an event with the same previous hash is replaced.   *)
Commit_Replaces(w, e) ==
  /\ tx[w].stage = "selected"
  /\ rows' = {r \in rows : r.prev # tx[w].prev}
             \cup {[at |-> tx[w].at, prev |-> tx[w].prev, event |-> e]}
  /\ tx' = [tx EXCEPT ![w] = NoTx]
  /\ UNCHANGED <<storage, clock, overlapped>>

Commit(w, e) ==
  /\ tx[w].stage = "selected"
  /\ rows' = rows \cup {[at |-> tx[w].at, prev |-> tx[w].prev, event |-> e]}
  /\ tx' = [tx EXCEPT ![w] = NoTx]
  /\ UNCHANGED <<storage, clock, overlapped>>

(* The SELECT, the INSERT or the COMMIT raises: the transaction is gone.   *)
Abort(w) ==
  /\ tx[w].stage # "none"
  /\ tx' = [tx EXCEPT ![w] = NoTx]
  /\ UNCHANGED <<storage, clock, rows, overlapped>>

LogInMemory(w, e) ==
  /\ storage = "memory"
  /\ clock' = clock + 1
  /\ \E last \in {0} \cup {r.at : r \in rows} :
       /\ IsLast(last, rows)
       /\ rows' = rows \cup {[at |-> clock + 1, prev |-> last, event |-> e]}
  /\ UNCHANGED <<storage, tx, overlapped>>

(* verify_chain: in the order of get_trail, every event carries the hash   *)
(* of the one before it.                                                   *)
Verifies == \A r \in rows : IsLast(r.prev, Before(r.at))
=============================================================================
