-------------------------- MODULE ToolBroker_proofs --------------------------
(***************************************************************************)
(* For any number of tasks, texts, packs and tools: the trail implements   *)
(* its abstract promise, it forks only when transactions overlap, no tool  *)
(* acts off the record, and the rule matrix is monotone in the risk.       *)
(***************************************************************************)
EXTENDS ToolBroker, TLAPS

-----------------------------------------------------------------------------
(* The rule matrix *)

(* When each rule of the matrix matches.                                   *)
LEMMA MatrixHits ==
  ASSUME NEW p \in Proposals
  PROVE  /\ Hits(p) \subseteq 1..10
         /\ 1 \in Hits(p) <=> p.tier = "CRITICAL"
         /\ 2 \in Hits(p) <=> p.tier = "HIGH" /\ p.type = "irreversible"
         /\ 3 \in Hits(p) <=> p.tier = "MEDIUM" /\ p.type = "irreversible" /\ p.confidence <= 85
         /\ 4 \in Hits(p) <=> p.tier = "LOW" /\ p.type = "irreversible" /\ p.confidence <= 70
         /\ 5 \in Hits(p) <=> p.tier = "HIGH" /\ p.type = "semi_reversible" /\ p.confidence <= 80
         /\ 6 \in Hits(p) <=> p.tier = "MEDIUM" /\ p.type = "semi_reversible" /\ p.confidence <= 55
         /\ 7 \in Hits(p) <=> p.tier = "HIGH" /\ p.type = "reversible" /\ p.confidence <= 75
         /\ 8 \in Hits(p) <=> p.tier = "MEDIUM" /\ p.type = "reversible" /\ p.confidence <= 50
         /\ 9 \in Hits(p) <=> p.recipients >= 50 /\ p.confidence <= 90
         /\ 10 \in Hits(p)
<1>1. Len(Matrix) = 10
  BY DEF Matrix
<1>2. p.tier \in RiskTiers /\ p.type \in ActionTypes /\ p.confidence \in Int /\ p.recipients \in Nat
  BY DEF Proposals
<1>3. \A i \in 1..10 : i \in Hits(p) <=> Matches(Matrix[i], p)
  BY <1>1 DEF Hits
<1>. USE DEF Matrix, Rule, UpTo, Uncapped, Matches
<1>4. Matches(Matrix[1], p) <=> p.tier = "CRITICAL"
  BY <1>2
<1>5. Matches(Matrix[2], p) <=> p.tier = "HIGH" /\ p.type = "irreversible"
  BY <1>2
<1>6. Matches(Matrix[3], p) <=> p.tier = "MEDIUM" /\ p.type = "irreversible" /\ p.confidence <= 85
  BY <1>2
<1>7. Matches(Matrix[4], p) <=> p.tier = "LOW" /\ p.type = "irreversible" /\ p.confidence <= 70
  BY <1>2
<1>8. Matches(Matrix[5], p) <=> p.tier = "HIGH" /\ p.type = "semi_reversible" /\ p.confidence <= 80
  BY <1>2
<1>9. Matches(Matrix[6], p) <=> p.tier = "MEDIUM" /\ p.type = "semi_reversible" /\ p.confidence <= 55
  BY <1>2
<1>10. Matches(Matrix[7], p) <=> p.tier = "HIGH" /\ p.type = "reversible" /\ p.confidence <= 75
  BY <1>2
<1>11. Matches(Matrix[8], p) <=> p.tier = "MEDIUM" /\ p.type = "reversible" /\ p.confidence <= 50
  BY <1>2
<1>12. Matches(Matrix[9], p) <=> p.recipients >= 50 /\ p.confidence <= 90
  BY <1>2
<1>13. Matches(Matrix[10], p)
  BY <1>2
<1>14. Hits(p) \subseteq 1..10
  BY <1>1 DEF Hits
<1>. HIDE DEF Matches, Matrix
<1> QED
  BY <1>3, <1>4, <1>5, <1>6, <1>7, <1>8, <1>9, <1>10, <1>11, <1>12, <1>13, <1>14

(* Among some of the ten rules there is a first one.                       *)
LEMMA FirstRule ==
  ASSUME NEW H \in SUBSET (1..10), NEW k \in H
  PROVE  \E i \in H : \A j \in H : i <= j
<1>1. CASE 1 \in H
  BY <1>1
<1>2. CASE 1 \notin H /\ 2 \in H
  BY <1>2
<1>3. CASE {1, 2} \cap H = {} /\ 3 \in H
  BY <1>3
<1>4. CASE {1, 2, 3} \cap H = {} /\ 4 \in H
  BY <1>4
<1>5. CASE {1, 2, 3, 4} \cap H = {} /\ 5 \in H
  BY <1>5
<1>6. CASE {1, 2, 3, 4, 5} \cap H = {} /\ 6 \in H
  BY <1>6
<1>7. CASE {1, 2, 3, 4, 5, 6} \cap H = {} /\ 7 \in H
  BY <1>7
<1>8. CASE {1, 2, 3, 4, 5, 6, 7} \cap H = {} /\ 8 \in H
  BY <1>8
<1>9. CASE {1, 2, 3, 4, 5, 6, 7, 8} \cap H = {} /\ 9 \in H
  BY <1>9
<1>10. CASE {1, 2, 3, 4, 5, 6, 7, 8, 9} \cap H = {}
  BY <1>10
<1> QED
  BY <1>1, <1>2, <1>3, <1>4, <1>5, <1>6, <1>7, <1>8, <1>9, <1>10

(* What the matrix decides: the first rule escalates, the last one lets    *)
(* the action pass, every other one asks.                                  *)
LEMMA MatrixDecides ==
  ASSUME NEW p \in Proposals, NEW tenant, tenant \notin {"force_approval_all", "force_escalation"}
  PROVE  Decide(tenant, p) = IF 1 \in Hits(p) THEN "escalate"
                             ELSE IF Hits(p) = {10} THEN "autonomous" ELSE "approval_required"
<1>. DEFINE first == CHOOSE i \in Hits(p) : \A j \in Hits(p) : i <= j
<1>1. Hits(p) \in SUBSET (1..10) /\ 10 \in Hits(p)
  BY MatrixHits
<1>2. first \in Hits(p) /\ \A j \in Hits(p) : first <= j
  <2>1. \E i \in Hits(p) : \A j \in Hits(p) : i <= j
    BY <1>1, FirstRule
  <2> QED
    BY <2>1
<1>3. Decide(tenant, p) = Matrix[first].mode
  BY DEF Decide
<1>4. \A i \in 1..10 : Matrix[i].mode = IF i = 1 THEN "escalate" ELSE IF i = 10 THEN "autonomous" ELSE "approval_required"
  BY DEF Matrix, Rule
<1>. HIDE DEF first
<1>5. 1 \in Hits(p) => first = 1
  BY <1>1, <1>2
<1>6. 1 \notin Hits(p) => first # 1
  BY <1>2
<1>7. Hits(p) = {10} <=> first = 10
  BY <1>1, <1>2
<1> QED
  BY <1>1, <1>2, <1>3, <1>4, <1>5, <1>6, <1>7

(* The autonomy manager always decides for one of the three modes.         *)
LEMMA DecisionIsMode ==
  ASSUME NEW p \in Proposals, NEW tenant
  PROVE  Decide(tenant, p) \in Modes
<1>1. CASE tenant = "force_approval_all"
  BY <1>1 DEF Decide, Modes
<1>2. CASE tenant = "force_escalation"
  BY <1>2 DEF Decide, Modes
<1>3. CASE tenant \notin {"force_approval_all", "force_escalation"}
  BY <1>3, MatrixDecides DEF Modes
<1> QED
  BY <1>1, <1>2, <1>3

(* An action that is at least as risky in every respect is never decided   *)
(* more leniently: no gap in the ten rules of autonomy_matrix.yaml lets a  *)
(* worse action pass where a milder one is stopped.                        *)
THEOREM RiskIsMonotone ==
  ASSUME NEW p \in Proposals, NEW q \in Proposals, NEW tenant, AtLeastAsRisky(q, p)
  PROVE  Severity[Decide(tenant, q)] >= Severity[Decide(tenant, p)]
<1>1. Severity["autonomous"] = 0 /\ Severity["approval_required"] = 1 /\ Severity["escalate"] = 2
  BY DEF Severity, Modes
<1>2. CASE tenant \in {"force_approval_all", "force_escalation"}
  BY <1>1, <1>2 DEF Decide
<1>3. CASE tenant \notin {"force_approval_all", "force_escalation"}
  <2>1. /\ TierRank["LOW"] = 0 /\ TierRank["MEDIUM"] = 1 /\ TierRank["HIGH"] = 2 /\ TierRank["CRITICAL"] = 3
        /\ TypeRank["reversible"] = 0 /\ TypeRank["semi_reversible"] = 1 /\ TypeRank["irreversible"] = 2
    BY DEF TierRank, TypeRank, RiskTiers, ActionTypes
  <2>2. /\ p.tier \in RiskTiers /\ p.type \in ActionTypes /\ p.confidence \in Int /\ p.recipients \in Nat
        /\ q.tier \in RiskTiers /\ q.type \in ActionTypes /\ q.confidence \in Int /\ q.recipients \in Nat
    BY DEF Proposals
  <2>3. /\ TierRank[q.tier] >= TierRank[p.tier] /\ TypeRank[q.type] >= TypeRank[p.type]
        /\ q.confidence <= p.confidence /\ q.recipients >= p.recipients
    BY DEF AtLeastAsRisky
  <2>4. p.tier = "CRITICAL" => q.tier = "CRITICAL"
    BY <2>1, <2>2, <2>3 DEF RiskTiers
  <2>5. 1 \in Hits(p) => 1 \in Hits(q)
    BY <2>4, MatrixHits
  <2>6. ASSUME 1 \notin Hits(q), Hits(p) # {10}
        PROVE  Hits(q) # {10}
    <3>1. q.tier \in {"LOW", "MEDIUM", "HIGH"} /\ p.tier \in {"LOW", "MEDIUM", "HIGH"}
      BY <2>2, <2>4, <2>6, MatrixHits DEF RiskTiers
    <3>2. PICK i \in 2..9 : i \in Hits(p)
      BY <2>5, <2>6, MatrixHits
    <3>3. CASE i = 9
      BY <2>2, <2>3, <3>2, <3>3, MatrixHits
    <3>4. CASE i \in {2, 3, 4}
      <4>1. p.type = "irreversible" /\ q.type = "irreversible"
        BY <2>1, <2>2, <2>3, <3>2, <3>4, MatrixHits DEF ActionTypes
      <4>2. p.tier = "HIGH" => q.tier = "HIGH"
        BY <2>1, <2>3, <3>1
      <4>3. p.tier = "MEDIUM" => q.tier \in {"MEDIUM", "HIGH"}
        BY <2>1, <2>3, <3>1
      <4>4. 2 \in Hits(q) \/ 3 \in Hits(q) \/ 4 \in Hits(q)
        BY <2>2, <2>3, <3>1, <3>2, <3>4, <4>1, <4>2, <4>3, MatrixHits
      <4> QED
        BY <4>4
    <3>5. CASE i \in {5, 6}
      <4>1. p.type = "semi_reversible" /\ q.type \in {"semi_reversible", "irreversible"}
        BY <2>1, <2>2, <2>3, <3>2, <3>5, MatrixHits DEF ActionTypes
      <4>2. p.tier = "HIGH" => q.tier = "HIGH"
        BY <2>1, <2>3, <3>1
      <4>3. p.tier = "MEDIUM" => q.tier \in {"MEDIUM", "HIGH"}
        BY <2>1, <2>3, <3>1
      <4>4. 2 \in Hits(q) \/ 3 \in Hits(q) \/ 5 \in Hits(q) \/ 6 \in Hits(q)
        BY <2>2, <2>3, <3>1, <3>2, <3>5, <4>1, <4>2, <4>3, MatrixHits
      <4> QED
        BY <4>4
    <3>6. CASE i \in {7, 8}
      <4>1. p.type = "reversible" /\ q.type \in {"reversible", "semi_reversible", "irreversible"}
        BY <2>2, <3>2, <3>6, MatrixHits DEF ActionTypes
      <4>2. p.tier = "HIGH" => q.tier = "HIGH"
        BY <2>1, <2>3, <3>1
      <4>3. p.tier = "MEDIUM" => q.tier \in {"MEDIUM", "HIGH"}
        BY <2>1, <2>3, <3>1
      <4>4. q.tier = "HIGH" => 2 \in Hits(q) \/ 5 \in Hits(q) \/ 7 \in Hits(q)
        BY <2>2, <2>3, <3>1, <3>2, <3>6, <4>1, MatrixHits
      <4>5. q.tier = "MEDIUM" => 3 \in Hits(q) \/ 6 \in Hits(q) \/ 8 \in Hits(q)
        BY <2>2, <2>3, <3>1, <3>2, <3>6, <4>1, <4>2, MatrixHits
      <4>6. p.tier \in {"HIGH", "MEDIUM"}
        BY <3>2, <3>6, MatrixHits
      <4> QED
        BY <4>2, <4>3, <4>4, <4>5, <4>6
    <3> QED
      BY <3>2, <3>3, <3>4, <3>5, <3>6
  <2>7. 1 \notin Hits(q) => 1 \notin Hits(p)
    BY <2>5
  <2> QED
    BY <1>1, <1>3, <2>6, <2>7, MatrixDecides
<1> QED
  BY <1>2, <1>3

-----------------------------------------------------------------------------
(* The trail: log_event by any number of writers *)

Ids == {r.at : r \in rows}
Events == [task : Tasks, call : Nat, type : {EventType[s] : s \in Logging}, mode : Modes]

TrailTypes ==
  /\ storage \in {"sql", "memory"}
  /\ clock \in Nat
  /\ rows \subseteq [at : 1..clock, prev : 0..clock, event : Events]
  /\ tx \in [Tasks -> [stage : Stages, at : 0..clock, prev : 0..clock]]
  /\ overlapped \in BOOLEAN

(* What an open transaction has seen: its time is its own, and the event   *)
(* it hashes is there.                                                     *)
TxSound ==
  \A w \in Tasks : tx[w].stage # "none" =>
    /\ storage = "sql"
    /\ tx[w].at \in 1..clock
    /\ tx[w].at \notin Ids
    /\ \A v \in Tasks \ {w} : tx[v].stage # "none" => tx[v].at # tx[w].at
    /\ tx[w].prev \in Ids \cup {0}

(* While transactions do not overlap, the open one is after every event    *)
(* and the event it has selected is still the last.                        *)
Serial ==
  ~overlapped =>
    /\ Verifies
    /\ \A w \in Tasks : tx[w].stage # "none" =>
         /\ \A v \in Tasks \ {w} : tx[v].stage = "none"
         /\ \A r \in rows : r.at < tx[w].at
         /\ tx[w].stage = "selected" => IsLast(tx[w].prev, rows)

(* Every event hashes one that is there.                                   *)
Linked == \A r \in rows : r.prev \in Ids \cup {0}

TrailInv == TrailTypes /\ TxSound /\ Serial /\ Linked

LogStep ==
  \E w \in Tasks :
    \/ Begin(w) \/ SelectLast(w) \/ Abort(w)
    \/ \E e \in Events : Commit(w, e) \/ LogInMemory(w, e)

(* An event that comes after all others and hashes the last of them keeps  *)
(* the chain verified.                                                     *)
LEMMA ChainGrows ==
  ASSUME TrailTypes, Verifies, NEW at \in Nat, NEW prev, NEW e,
         \A r \in rows : r.at < at, IsLast(prev, rows),
         rows' = rows \cup {[at |-> at, prev |-> prev, event |-> e]}
  PROVE  Verifies'
<1>. DEFINE new == [at |-> at, prev |-> prev, event |-> e]
<1>1. new.at = at /\ new.prev = prev
  OBVIOUS
<1>. HIDE DEF new
<1>2. \A r \in rows : r.at \in Nat
  BY DEF TrailTypes
<1>3. ASSUME NEW r \in rows
      PROVE  Before(r.at)' = Before(r.at)
  BY <1>1, <1>2 DEF Before, new
<1>4. Before(at)' = rows
  BY <1>1, <1>2 DEF Before, new
<1>5. \A r \in rows : IsLast(r.prev, Before(r.at))'
  <2>1. TAKE r \in rows
  <2>2. IsLast(r.prev, Before(r.at))
    BY DEF Verifies
  <2>3. Before(r.at)' = Before(r.at)
    BY <1>3
  <2> QED
    BY <2>2, <2>3 DEF IsLast
<1>6. IsLast(new.prev, Before(new.at)')
  BY <1>1, <1>4 DEF IsLast
<1> QED
  BY <1>5, <1>6 DEF Verifies, new, IsLast

LEMMA TrailStep ==
  ASSUME TrailInv, LogStep
  PROVE  TrailInv'
<1>. USE DEF TrailInv
<1>1. ASSUME NEW w \in Tasks, Begin(w)
      PROVE  TrailInv'
  <2>. USE <1>1 DEF Begin
  <2>0. \A r \in rows : r.at \in 1..clock /\ r.prev \in 0..clock
    BY DEF TrailTypes
  <2>1. TrailTypes'
    BY DEF TrailTypes, Stages
  <2>2. \A v \in Tasks \ {w} : tx'[v] = tx[v]
    BY DEF TrailTypes
  <2>3. tx'[w] = [stage |-> "begun", at |-> clock + 1, prev |-> 0]
    BY DEF TrailTypes
  <2>4. TxSound'
    <3>1. Ids' = Ids
      BY DEF Ids
    <3>2. \A v \in Tasks : tx[v].stage # "none" => tx[v].at \in 1..clock
      BY DEF TxSound
    <3> QED
      BY <2>0, <2>2, <2>3, <3>1, <3>2 DEF TxSound, TrailTypes, Ids
  <2>5. Serial'
    <3>1. SUFFICES ASSUME ~overlapped' PROVE Serial'
      BY DEF Serial
    <3>2. ~overlapped /\ \A v \in Tasks : tx[v].stage = "none"
      BY <3>1 DEF Tasks
    <3>3. Verifies'
      BY <3>2 DEF Serial, Verifies, Before, IsLast
    <3> QED
      BY <2>0, <2>2, <2>3, <3>2, <3>3 DEF Serial, TrailTypes
  <2>6. Linked'
    BY DEF Linked, Ids
  <2> QED
    BY <2>1, <2>4, <2>5, <2>6
<1>2. ASSUME NEW w \in Tasks, SelectLast(w)
      PROVE  TrailInv'
  <2>1. PICK last \in {0} \cup {r.at : r \in rows} :
          /\ IsLast(last, rows)
          /\ tx' = [tx EXCEPT ![w].stage = "selected", ![w].prev = last]
    BY <1>2 DEF SelectLast
  <2>2. tx[w].stage = "begun" /\ UNCHANGED <<storage, clock, rows, overlapped>>
    BY <1>2 DEF SelectLast
  <2>3. last \in Ids \cup {0} /\ last \in 0..clock
    BY DEF Ids, TrailTypes
  <2>4. \A v \in Tasks \ {w} : tx'[v] = tx[v]
    BY <2>1 DEF TrailTypes
  <2>5. tx'[w].stage = "selected" /\ tx'[w].prev = last /\ tx'[w].at = tx[w].at
    BY <2>1 DEF TrailTypes
  <2>6. TrailTypes'
    BY <2>1, <2>2, <2>3 DEF TrailTypes, Stages
  <2>7. Ids' = Ids /\ Linked'
    BY <2>2 DEF Ids, Linked
  <2>8. TxSound'
    BY <2>2, <2>3, <2>4, <2>5, <2>7 DEF TxSound
  <2>9. Serial'
    <3>1. Verifies => Verifies'
      BY <2>2 DEF Verifies, Before, IsLast
    <3>2. IsLast(last, rows)'
      BY <2>1, <2>2 DEF IsLast
    <3> QED
      BY <2>1, <2>2, <2>4, <2>5, <3>1, <3>2 DEF Serial, IsLast
  <2> QED
    BY <2>6, <2>7, <2>8, <2>9
<1>3. ASSUME NEW w \in Tasks, Abort(w)
      PROVE  TrailInv'
  <2>1. /\ \A v \in Tasks \ {w} : tx'[v] = tx[v]
        /\ tx'[w].stage = "none"
    BY <1>3 DEF Abort, NoTx, TrailTypes
  <2>2. UNCHANGED <<storage, clock, rows, overlapped>>
    BY <1>3 DEF Abort
  <2>3. TrailTypes'
    BY <1>3 DEF Abort, NoTx, TrailTypes, Stages
  <2>4. Ids' = Ids /\ Linked' /\ (Verifies => Verifies')
    BY <2>2 DEF Ids, Linked, Verifies, Before, IsLast
  <2>5. TxSound'
    BY <2>1, <2>2, <2>4 DEF TxSound
  <2>6. Serial'
    BY <2>1, <2>2, <2>4 DEF Serial, IsLast
  <2> QED
    BY <2>3, <2>4, <2>5, <2>6
<1>4. ASSUME NEW w \in Tasks, NEW e \in Events, Commit(w, e)
      PROVE  TrailInv'
  <2>. DEFINE new == [at |-> tx[w].at, prev |-> tx[w].prev, event |-> e]
  <2>1. /\ \A v \in Tasks \ {w} : tx'[v] = tx[v]
        /\ tx'[w].stage = "none"
        /\ tx[w].stage = "selected"
    BY <1>4 DEF Commit, NoTx, TrailTypes
  <2>2. rows' = rows \cup {new} /\ UNCHANGED <<storage, clock, overlapped>>
    BY <1>4 DEF Commit
  <2>3. /\ new.at = tx[w].at /\ new.prev = tx[w].prev
        /\ new.at \in 1..clock /\ new.prev \in 0..clock /\ new.prev \in Ids \cup {0}
    BY <2>1 DEF TxSound, TrailTypes
  <2>4. new \in [at : 1..clock, prev : 0..clock, event : Events]
    BY <2>3
  <2>5. TrailTypes'
    <3>1. tx' \in [Tasks -> [stage : Stages, at : 0..clock, prev : 0..clock]]
      BY <1>4 DEF Commit, NoTx, TrailTypes, Stages
    <3> HIDE DEF new
    <3> QED
      BY <2>2, <2>4, <3>1 DEF TrailTypes
  <2>6. Serial'
    <3>1. SUFFICES ASSUME ~overlapped PROVE Serial'
      BY <2>2 DEF Serial
    <3>2. \A v \in Tasks : tx'[v].stage = "none"
      BY <2>1, <3>1 DEF Serial
    <3>3. Verifies'
      <4>1. rows' = rows \cup {[at |-> tx[w].at, prev |-> tx[w].prev, event |-> e]}
        BY <2>2
      <4>2. Verifies /\ (\A r \in rows : r.at < tx[w].at) /\ IsLast(tx[w].prev, rows)
        BY <2>1, <3>1 DEF Serial
      <4>3. tx[w].at \in Nat
        BY <2>3
      <4>4. TrailTypes
        OBVIOUS
      <4> HIDE DEF TrailInv, new
      <4> QED
        BY <4>1, <4>2, <4>3, <4>4, ChainGrows
    <3> QED
      BY <3>2, <3>3 DEF Serial
  <2>. HIDE DEF new
  <2>7. Ids' = Ids \cup {new.at}
    BY <2>2 DEF Ids
  <2>8. Linked'
    BY <2>2, <2>3, <2>7 DEF Linked
  <2>9. TxSound'
    BY <2>1, <2>2, <2>3, <2>7 DEF TxSound
  <2> QED
    BY <2>5, <2>6, <2>8, <2>9
<1>5. ASSUME NEW w \in Tasks, NEW e \in Events, LogInMemory(w, e)
      PROVE  TrailInv'
  <2>1. PICK last \in {0} \cup {r.at : r \in rows} :
          /\ IsLast(last, rows)
          /\ rows' = rows \cup {[at |-> clock + 1, prev |-> last, event |-> e]}
    BY <1>5 DEF LogInMemory
  <2>2. storage = "memory" /\ clock' = clock + 1 /\ UNCHANGED <<storage, tx, overlapped>>
    BY <1>5 DEF LogInMemory
  <2>3. clock \in Nat /\ last \in Ids \cup {0} /\ last \in 0..clock
        /\ \A r \in rows : r.at \in 1..clock /\ r.at < clock + 1
    BY DEF Ids, TrailTypes
  <2>4. \A v \in Tasks : tx[v].stage = "none"
    BY <2>2 DEF TxSound
  <2>5. ASSUME Verifies
        PROVE  Verifies'
    <3>1. clock + 1 \in Nat /\ (\A r \in rows : r.at < clock + 1) /\ IsLast(last, rows) /\ TrailTypes
      BY <2>1, <2>3
    <3>2. rows' = rows \cup {[at |-> clock + 1, prev |-> last, event |-> e]}
      BY <2>1
    <3> HIDE DEF TrailInv
    <3> QED
      BY <2>5, <3>1, <3>2, ChainGrows
  <2>. DEFINE new == [at |-> clock + 1, prev |-> last, event |-> e]
  <2>6. new \in [at : 1..clock', prev : 0..clock', event : Events]
        /\ new.at = clock + 1 /\ new.prev = last
    BY <2>2, <2>3
  <2>. HIDE DEF new
  <2>7. TrailTypes'
    BY <2>1, <2>2, <2>3, <2>6 DEF TrailTypes, new
  <2>8. Linked'
    BY <2>1, <2>3, <2>6 DEF Linked, Ids, new
  <2>9. TxSound' /\ Serial'
    BY <2>2, <2>4, <2>5 DEF TxSound, Serial
  <2> QED
    BY <2>7, <2>8, <2>9
<1> QED
  BY <1>1, <1>2, <1>3, <1>4, <1>5 DEF LogStep

-----------------------------------------------------------------------------
(* The broker *)

BrokerTypes ==
  /\ faults \in 0..MaxFaults
  /\ policy \in Employees
  /\ pc \in [Tasks -> {"idle", "tool", "invoke", "done"} \cup Logging]
  /\ DOMAIN plan = Tasks /\ \A t \in Tasks : plan[t].lane \in Lanes
  /\ results \in [Tasks -> Seq(BOOLEAN)]
  /\ ran \subseteq Tasks \X Nat

(* A task has a transaction open only where it logs.                       *)
PlaceOfTx == \A t \in Tasks : tx[t].stage # "none" => pc[t] \in Logging

Recorded(c) ==
  \E d, v \in rows :
    /\ d.event = Event(c[1], c[2], "autonomy_decision", "autonomous")
    /\ v.event = Event(c[1], c[2], "tool_invoked", "autonomous")
    /\ d.at < v.at

(* A call that is about to be announced has its decision on record, before *)
(* the transaction that announces it; one that is about to run, both.      *)
Decided(t) ==
  /\ Mode(t) = "autonomous"
  /\ \E d \in rows :
       /\ d.event = Event(t, Index(t), "autonomy_decision", "autonomous")
       /\ tx[t].stage # "none" => d.at < tx[t].at

OnRecord ==
  /\ \A t \in Tasks : pc[t] = "announce" => Decided(t)
  /\ \A t \in Tasks : pc[t] = "invoke" => Recorded(<<t, Index(t)>>)
  /\ \A c \in ran : Recorded(c)

BrokerInv == TrailInv /\ BrokerTypes /\ PlaceOfTx /\ OnRecord

LEMMA LoggingStages ==
  /\ Logging = {"decide", "refuse", "announce"}
  /\ EventType["decide"] = "autonomy_decision"
  /\ EventType["refuse"] = "tool_blocked_by_autonomy"
  /\ EventType["announce"] = "tool_invoked"
  BY DEF Logging, EventType

(* What a task logs is an event.                                           *)
LEMMA LogsEvents ==
  ASSUME BrokerTypes, NEW t \in Tasks
  PROVE  /\ Index(t) \in Nat
         /\ Mode(t) \in Modes
         /\ pc[t] \in Logging => EventOf(t) \in Events
<1>1. Index(t) \in Nat
  BY DEF BrokerTypes, Index
<1>2. Mode(t) \in Modes
  <2>1. policy.tier \in RiskTiers
    BY BrokerAssumption DEF BrokerTypes
  <2>2. ClassifyAction(Tool(t), SafeAction(Tool(t))) \in ActionTypes
    BY DEF ClassifyAction, ActionTypes
  <2>3. ProposalFor(policy.tier, Tool(t)) \in Proposals
    BY <2>1, <2>2 DEF ProposalFor, Proposals
  <2> QED
    BY <2>3, DecisionIsMode DEF Mode
<1>3. pc[t] \in Logging => EventType[pc[t]] \in {EventType[s] : s \in Logging}
  OBVIOUS
<1> QED
  BY <1>1, <1>2, <1>3 DEF EventOf, Event, Events

(* Every step of a task writes its own transaction and one event at most.  *)
LEMMA BrokerLogs ==
  ASSUME BrokerTypes, PlaceOfTx, Next
  PROVE  LogStep \/ UNCHANGED auditVars
<1>1. ASSUME NEW t \in Tasks, NEW text \in Texts, ExecuteTask(t, text)
      PROVE  UNCHANGED auditVars
  BY <1>1 DEF ExecuteTask
<1>2. ASSUME NEW t \in Tasks, Step(t)
      PROVE  LogStep \/ UNCHANGED auditVars
  <2>1. CASE CallTool(t) \/ Finish(t) \/ Invoke(t) \/ InvokeRaises(t)
    BY <2>1 DEF CallTool, Finish, Invoke, InvokeRaises
  <2>2. CASE BeginLog(t) \/ SelectLastEvent(t) \/ LogFails(t)
    BY <2>2 DEF BeginLog, SelectLastEvent, LogFails, LogStep
  <2>3. CASE CommitLog(t) \/ RefreshFails(t)
    <3>1. Commit(t, EventOf(t))
      BY <2>3 DEF CommitLog, RefreshFails
    <3>2. pc[t] \in Logging
      BY <3>1 DEF Commit, PlaceOfTx
    <3> QED
      BY <3>1, <3>2, LogsEvents DEF LogStep
  <2>4. CASE LogAtOnce(t)
    BY <2>4, LogsEvents DEF LogAtOnce, LogStep
  <2> QED
    BY <1>2, <2>1, <2>2, <2>3, <2>4 DEF Step
<1> QED
  BY <1>1, <1>2 DEF Next

(* The trail only grows.                                                   *)
LEMMA RowsGrow ==
  ASSUME LogStep \/ UNCHANGED auditVars
  PROVE  rows \subseteq rows'
  BY DEF LogStep, auditVars, Begin, SelectLast, Abort, Commit, LogInMemory

(* What one task does leaves the calls of the others where they are.       *)
Others(t) ==
  \A s \in Tasks \ {t} :
    pc'[s] = pc[s] /\ Index(s)' = Index(s) /\ Mode(s)' = Mode(s) /\ tx'[s] = tx[s]

LEMMA Frame ==
  ASSUME TrailTypes, BrokerTypes, PlaceOfTx, NEW t \in Tasks,
         Step(t) \/ \E text \in Texts : ExecuteTask(t, text)
  PROVE  Others(t) /\ policy' = policy
<1>. USE DEF BrokerTypes, TrailTypes
<1>1. ASSUME NEW text \in Texts, ExecuteTask(t, text)
      PROVE  Others(t) /\ policy' = policy
  BY <1>1 DEF ExecuteTask, Others, Index, Mode, Tool, auditVars
<1>2. ASSUME Step(t)
      PROVE  /\ \A s \in Tasks \ {t} : pc'[s] = pc[s] /\ results'[s] = results[s] /\ tx'[s] = tx[s]
             /\ plan' = plan /\ policy' = policy
  <2>1. CASE CallTool(t)
    BY <2>1 DEF CallTool, Answer, auditVars
  <2>2. CASE Finish(t)
    BY <2>2 DEF Finish, auditVars
  <2>3. CASE BeginLog(t)
    BY <2>3 DEF BeginLog, Begin, brokerVars
  <2>4. CASE SelectLastEvent(t)
    BY <2>4 DEF SelectLastEvent, SelectLast, brokerVars
  <2>5. ASSUME Logged(t), pc[t] \in Logging
        PROVE  \A s \in Tasks \ {t} : pc'[s] = pc[s] /\ results'[s] = results[s]
    <3>1. CASE pc[t] = "decide"
      BY <2>5, <3>1 DEF Logged
    <3>2. CASE pc[t] = "refuse"
      BY <2>5, <3>2 DEF Logged, Answer
    <3>3. CASE pc[t] = "announce"
      BY <2>5, <3>3 DEF Logged
    <3> QED
      BY <2>5, <3>1, <3>2, <3>3, LoggingStages
  <2>6. CASE CommitLog(t)
    BY <2>5, <2>6 DEF CommitLog, Commit, PlaceOfTx
  <2>7. CASE LogFails(t)
    BY <2>7 DEF LogFails, Abort, Answer
  <2>8. CASE RefreshFails(t)
    BY <2>8 DEF RefreshFails, Commit, Answer
  <2>9. CASE LogAtOnce(t)
    BY <2>5, <2>9 DEF LogAtOnce, LogInMemory
  <2>10. CASE Invoke(t) \/ InvokeRaises(t)
    BY <2>10 DEF Invoke, InvokeRaises, Answer, auditVars
  <2> QED
    BY <1>2, <2>1, <2>2, <2>3, <2>4, <2>6, <2>7, <2>8, <2>9, <2>10 DEF Step
<1>3. Step(t) => Others(t) /\ policy' = policy
  BY <1>2 DEF Others, Index, Mode, Tool
<1> QED
  BY <1>1, <1>3

(* What remains to show of a step: the stage its own task reaches.         *)
LEMMA OnRecordStep ==
  ASSUME OnRecord, NEW t \in Tasks, Others(t), rows \subseteq rows',
         (pc[t] = "announce" => Decided(t))', (pc[t] = "invoke" => Recorded(<<t, Index(t)>>))',
         \A c \in ran' \ ran : Recorded(c)'
  PROVE  OnRecord'
<1>1. \A c : Recorded(c) => Recorded(c)'
  BY DEF Recorded, Event
<1>2. ASSUME NEW s \in Tasks \ {t}, pc'[s] = "announce"
      PROVE  Decided(s)'
  <2>1. pc[s] = "announce" /\ Index(s)' = Index(s) /\ Mode(s)' = Mode(s) /\ tx'[s] = tx[s]
    BY <1>2 DEF Others
  <2>2. Decided(s)
    BY <2>1 DEF OnRecord
  <2> QED
    BY <2>1, <2>2 DEF Decided, Event
<1>3. ASSUME NEW s \in Tasks \ {t}, pc'[s] = "invoke"
      PROVE  Recorded(<<s, Index(s)>>)'
  <2>1. pc[s] = "invoke" /\ Index(s)' = Index(s)
    BY <1>3 DEF Others
  <2>2. Recorded(<<s, Index(s)>>)
    BY <2>1 DEF OnRecord
  <2> QED
    BY <2>1, <2>2, <1>1
<1> QED
  BY <1>1, <1>2, <1>3 DEF OnRecord

(* A task's answer is a result more.                                       *)
LEMMA AnswerTypes ==
  ASSUME BrokerTypes, NEW t \in Tasks, NEW ok \in BOOLEAN, Answer(t, ok)
  PROVE  /\ results' \in [Tasks -> Seq(BOOLEAN)]
         /\ pc' \in [Tasks -> {"idle", "tool", "invoke", "done"} \cup Logging]
         /\ pc'[t] = "tool"
  BY DEF BrokerTypes, Answer

(* The event of a task that logs, and where it goes on.                    *)
LEMMA LoggedTypes ==
  ASSUME BrokerTypes, NEW t \in Tasks, pc[t] \in Logging, Logged(t)
  PROVE  /\ results' \in [Tasks -> Seq(BOOLEAN)]
         /\ pc' \in [Tasks -> {"idle", "tool", "invoke", "done"} \cup Logging]
         /\ pc'[t] = "announce" => pc[t] = "decide" /\ Mode(t) = "autonomous" /\ results' = results
         /\ pc'[t] = "invoke" => pc[t] = "announce" /\ results' = results
<1>1. CASE pc[t] = "decide"
  BY <1>1, LoggingStages DEF Logged, BrokerTypes
<1>2. CASE pc[t] = "refuse"
  BY <1>2, AnswerTypes DEF Logged
<1>3. CASE pc[t] = "announce"
  BY <1>3, LoggingStages DEF Logged, BrokerTypes
<1> QED
  BY <1>1, <1>2, <1>3, LoggingStages

(* The event the task has just logged is on record.                        *)
LEMMA LoggedOnRecord ==
  ASSUME BrokerInv, NEW t \in Tasks, pc[t] \in Logging, Logged(t), NEW at \in Nat, NEW prev,
         rows' = rows \cup {[at |-> at, prev |-> prev, event |-> EventOf(t)]},
         tx'[t].stage = "none", UNCHANGED <<policy, plan>>,
         pc[t] = "announce" => \E d \in rows :
           /\ d.event = Event(t, Index(t), "autonomy_decision", "autonomous")
           /\ d.at < at
  PROVE  /\ (pc[t] = "announce" => Decided(t))'
         /\ (pc[t] = "invoke" => Recorded(<<t, Index(t)>>))'
<1>. DEFINE new == [at |-> at, prev |-> prev, event |-> EventOf(t)]
<1>0. new \in rows' /\ rows \subseteq rows' /\ new.at = at /\ new.event = EventOf(t)
  OBVIOUS
<1>. HIDE DEF new
<1>1. ASSUME pc'[t] = "announce"
      PROVE  Decided(t)'
  <2>1. pc[t] = "decide" /\ Mode(t) = "autonomous" /\ results' = results
    BY <1>1, LoggedTypes DEF BrokerInv
  <2>2. Index(t)' = Index(t) /\ Mode(t)' = Mode(t)
    BY <2>1 DEF Index, Mode, Tool
  <2>3. new.event = Event(t, Index(t), "autonomy_decision", "autonomous")
    BY <1>0, <2>1, LoggingStages DEF EventOf
  <2> QED
    BY <1>0, <2>1, <2>2, <2>3 DEF Decided, Event
<1>2. ASSUME pc'[t] = "invoke"
      PROVE  Recorded(<<t, Index(t)>>)'
  <2>1. pc[t] = "announce" /\ results' = results
    BY <1>2, LoggedTypes DEF BrokerInv
  <2>2. Index(t)' = Index(t)
    BY <2>1 DEF Index
  <2>3. Mode(t) = "autonomous"
    BY <2>1 DEF BrokerInv, OnRecord, Decided
  <2>4. new.event = Event(t, Index(t), "tool_invoked", "autonomous")
    BY <1>0, <2>1, <2>3, LoggingStages DEF EventOf
  <2>5. PICK d \in rows : d.event = Event(t, Index(t), "autonomy_decision", "autonomous") /\ d.at < at
    BY <2>1
  <2> QED
    BY <1>0, <2>2, <2>4, <2>5 DEF Recorded, Event
<1> QED
  BY <1>1, <1>2

(* Types, places and records after every step of the broker.               *)
LEMMA BrokerStep ==
  ASSUME BrokerInv, TrailInv', rows \subseteq rows', Next
  PROVE  BrokerInv'
<1>. USE DEF BrokerTypes
<1>1. ASSUME NEW t \in Tasks, NEW text \in Texts, ExecuteTask(t, text)
      PROVE  BrokerInv'
  <2>1. Plan(text, Packs).lane \in Lanes
    BY DEF Plan, Lane, Lanes
  <2>2. BrokerTypes' /\ pc'[t] \in {"done", "tool"} /\ ran' = ran
    BY <1>1, <2>1 DEF ExecuteTask, BrokerInv
  <2>3. Others(t)
    BY <1>1, Frame DEF BrokerInv, TrailInv
  <2>4. PlaceOfTx'
    BY <1>1, <2>3, LoggingStages DEF BrokerInv, PlaceOfTx, ExecuteTask, auditVars, Others
  <2>5. OnRecord'
    BY <2>2, <2>3, OnRecordStep DEF BrokerInv
  <2> QED
    BY <2>2, <2>4, <2>5 DEF BrokerInv
<1>2. ASSUME NEW t \in Tasks, Step(t)
      PROVE  BrokerInv'
  <2>0. Others(t) /\ policy' = policy
    BY <1>2, Frame DEF BrokerInv, TrailInv
  <2>1. SUFFICES /\ BrokerTypes'
                 /\ tx'[t].stage # "none" => pc'[t] \in Logging
                 /\ (pc[t] = "announce" => Decided(t))'
                 /\ (pc[t] = "invoke" => Recorded(<<t, Index(t)>>))'
                 /\ \A c \in ran' \ ran : Recorded(c)'
    <3>1. PlaceOfTx'
      BY <2>0, <2>1 DEF BrokerInv, PlaceOfTx, Others
    <3>2. OnRecord'
      BY <2>0, <2>1, OnRecordStep DEF BrokerInv
    <3> QED
      BY <2>1, <3>1, <3>2 DEF BrokerInv
  <2>2. MaxFaults \in Nat /\ (Fault => faults' \in 0..MaxFaults)
    BY BrokerAssumption DEF Fault, BrokerInv
  <2>3. CASE CallTool(t)
    <3>1. tx' = tx /\ tx[t].stage = "none" /\ ran' = ran
      BY <2>3, LoggingStages DEF CallTool, auditVars, BrokerInv, PlaceOfTx
    <3>2. BrokerTypes' /\ pc'[t] \in {"tool", "decide"}
      BY <2>3, LoggingStages, AnswerTypes DEF CallTool, BrokerInv
    <3> QED
      BY <3>1, <3>2
  <2>4. CASE Finish(t)
    <3>1. tx' = tx /\ tx[t].stage = "none" /\ ran' = ran
      BY <2>4, LoggingStages DEF Finish, auditVars, BrokerInv, PlaceOfTx
    <3>2. BrokerTypes' /\ pc'[t] = "done"
      BY <2>4 DEF Finish, BrokerInv
    <3> QED
      BY <3>1, <3>2
  <2>5. CASE BeginLog(t)
    <3>1. UNCHANGED brokerVars /\ pc[t] \in Logging /\ rows' = rows /\ tx'[t].at = clock + 1
      BY <2>5 DEF BeginLog, Begin, BrokerInv, TrailInv, TrailTypes
    <3>2. Index(t)' = Index(t) /\ Mode(t)' = Mode(t)
      BY <3>1 DEF Index, Mode, Tool, brokerVars
    <3>3. \A r \in rows : r.at < clock + 1
      BY DEF BrokerInv, TrailInv, TrailTypes
    <3>4. (pc[t] = "announce" => Decided(t))'
      BY <3>1, <3>2, <3>3 DEF BrokerInv, OnRecord, Decided, brokerVars, Event
    <3>5. BrokerTypes' /\ ran' = ran /\ pc'[t] \in Logging
      BY <3>1 DEF brokerVars, BrokerInv
    <3> QED
      BY <3>4, <3>5, LoggingStages
  <2>6. CASE SelectLastEvent(t)
    <3>1. UNCHANGED brokerVars /\ rows' = rows /\ tx'[t].at = tx[t].at /\ tx[t].stage = "begun"
      BY <2>6 DEF SelectLastEvent, SelectLast, BrokerInv, TrailInv, TrailTypes
    <3>2. Index(t)' = Index(t) /\ Mode(t)' = Mode(t) /\ pc[t] \in Logging
      BY <3>1 DEF Index, Mode, Tool, brokerVars, BrokerInv, PlaceOfTx
    <3>3. (pc[t] = "announce" => Decided(t))'
      BY <3>1, <3>2 DEF BrokerInv, OnRecord, Decided, brokerVars, Event
    <3>4. BrokerTypes' /\ ran' = ran /\ pc'[t] \in Logging
      BY <3>1, <3>2 DEF brokerVars, BrokerInv
    <3> QED
      BY <3>3, <3>4, LoggingStages
  <2>7. ASSUME Commit(t, EventOf(t))
        PROVE  /\ pc[t] \in Logging /\ tx'[t].stage = "none" /\ tx[t].at \in Nat
               /\ rows' = rows \cup {[at |-> tx[t].at, prev |-> tx[t].prev, event |-> EventOf(t)]}
               /\ pc[t] = "announce" => \E d \in rows :
                    /\ d.event = Event(t, Index(t), "autonomy_decision", "autonomous")
                    /\ d.at < tx[t].at
    <3>1. tx[t].stage = "selected"
      BY <2>7 DEF Commit
    <3>2. pc[t] \in Logging /\ tx'[t].stage = "none"
      BY <2>7, <3>1 DEF Commit, NoTx, BrokerInv, PlaceOfTx, TrailInv, TrailTypes
    <3>3. tx[t].at \in Nat
      BY DEF BrokerInv, TrailInv, TrailTypes
    <3> QED
      BY <2>7, <3>1, <3>2, <3>3 DEF Commit, BrokerInv, OnRecord, Decided
  <2>8. CASE CommitLog(t)
    <3>1. Commit(t, EventOf(t)) /\ Logged(t) /\ UNCHANGED <<faults, policy, plan, ran>>
      BY <2>8 DEF CommitLog
    <3>2. BrokerTypes'
      BY <2>7, <3>1, LoggedTypes DEF BrokerInv
    <3> QED
      BY <2>7, <3>1, <3>2, LoggedOnRecord
  <2>9. CASE LogAtOnce(t)
    <3>1. /\ Logged(t) /\ pc[t] \in Logging /\ UNCHANGED <<faults, policy, plan, ran>>
          /\ storage = "memory" /\ tx' = tx
      BY <2>9 DEF LogAtOnce, LogInMemory
    <3>2. PICK last : rows' = rows \cup {[at |-> clock + 1, prev |-> last, event |-> EventOf(t)]}
      BY <2>9 DEF LogAtOnce, LogInMemory
    <3>3. tx'[t].stage = "none"
      BY <3>1 DEF BrokerInv, TrailInv, TxSound
    <3>4. clock + 1 \in Nat /\ \A r \in rows : r.at < clock + 1
      BY DEF BrokerInv, TrailInv, TrailTypes
    <3>5. pc[t] = "announce" => \E d \in rows :
            /\ d.event = Event(t, Index(t), "autonomy_decision", "autonomous")
            /\ d.at < clock + 1
      BY <3>4 DEF BrokerInv, OnRecord, Decided
    <3>6. BrokerTypes'
      BY <3>1, LoggedTypes DEF BrokerInv
    <3> QED
      BY <3>1, <3>2, <3>3, <3>4, <3>5, <3>6, LoggedOnRecord
  <2>10. CASE LogFails(t)
    <3>1. /\ Fault /\ Answer(t, FALSE) /\ UNCHANGED <<policy, plan, ran>> /\ tx'[t].stage = "none"
      BY <2>10 DEF LogFails, Abort, NoTx, BrokerInv, TrailInv, TrailTypes
    <3>2. BrokerTypes' /\ pc'[t] = "tool"
      BY <2>2, <3>1, AnswerTypes DEF BrokerInv
    <3> QED
      BY <3>1, <3>2
  <2>11. CASE RefreshFails(t)
    <3>1. /\ Fault /\ Answer(t, FALSE) /\ UNCHANGED <<policy, plan, ran>> /\ tx'[t].stage = "none"
      BY <2>7, <2>11 DEF RefreshFails
    <3>2. BrokerTypes' /\ pc'[t] = "tool"
      BY <2>2, <3>1, AnswerTypes DEF BrokerInv
    <3> QED
      BY <3>1, <3>2
  <2>12. CASE Invoke(t) \/ InvokeRaises(t)
    <3>1. /\ pc[t] = "invoke" /\ ran' = ran \cup {<<t, Index(t)>>} /\ UNCHANGED <<rows, tx, plan, policy>>
          /\ \E ok \in BOOLEAN : Answer(t, ok)
          /\ faults' = faults \/ Fault
      BY <2>12 DEF Invoke, InvokeRaises, auditVars
    <3>2. tx[t].stage = "none" /\ Recorded(<<t, Index(t)>>)
      BY <3>1, LoggingStages DEF BrokerInv, PlaceOfTx, OnRecord
    <3>3. BrokerTypes' /\ pc'[t] = "tool"
      BY <2>2, <3>1, AnswerTypes, LogsEvents DEF BrokerInv
    <3>4. \A c \in ran' \ ran : Recorded(c)'
      BY <3>1, <3>2 DEF Recorded, Event
    <3> QED
      BY <3>1, <3>2, <3>3, <3>4
  <2> QED
    BY <1>2, <2>3, <2>4, <2>5, <2>6, <2>8, <2>9, <2>10, <2>11, <2>12 DEF Step
<1> QED
  BY <1>1, <1>2 DEF Next

LEMMA BrokerInvariant == Spec => []BrokerInv
<1>1. Init => BrokerInv
  <2>1. SUFFICES ASSUME Init PROVE BrokerInv
    OBVIOUS
  <2>2. TrailInv
    <3>1. rows = {} /\ clock = 0 /\ \A w \in Tasks : tx[w] = NoTx
      BY <2>1 DEF Init, AuditInit, Tasks
    <3>2. TrailTypes
      <4>1. NoTx \in [stage : Stages, at : 0..clock, prev : 0..clock]
        BY <3>1 DEF NoTx, Stages
      <4>2. tx \in [Tasks -> [stage : Stages, at : 0..clock, prev : 0..clock]]
        BY <2>1, <4>1 DEF Init, AuditInit, Tasks
      <4>3. storage \in {"sql", "memory"} /\ overlapped \in BOOLEAN /\ clock \in Nat
        BY <2>1 DEF Init, AuditInit
      <4>4. rows \subseteq [at : 1..clock, prev : 0..clock, event : Events]
        BY <3>1
      <4> QED
        BY <4>2, <4>3, <4>4 DEF TrailTypes
    <3>3. \A w \in Tasks : tx[w].stage = "none"
      BY <3>1 DEF NoTx
    <3> QED
      BY <3>1, <3>2, <3>3 DEF TrailInv, TxSound, Serial, Linked, Verifies
  <2>3. BrokerTypes
    BY <2>1, BrokerAssumption DEF Init, BrokerTypes, NoPlan, Lanes
  <2>4. PlaceOfTx /\ OnRecord
    BY <2>1 DEF Init, AuditInit, PlaceOfTx, OnRecord, NoTx, Tasks
  <2> QED
    BY <2>2, <2>3, <2>4 DEF BrokerInv
<1>2. BrokerInv /\ [Next]_vars => BrokerInv'
  <2>1. SUFFICES ASSUME BrokerInv, [Next]_vars PROVE BrokerInv'
    OBVIOUS
  <2>2. CASE UNCHANGED vars
    <3>1. TrailInv'
      BY <2>1, <2>2 DEF vars, BrokerInv, TrailInv, TrailTypes, TxSound, Serial, Linked, Verifies,
                    Ids, Before, IsLast
    <3>2. BrokerTypes' /\ PlaceOfTx'
      BY <2>1, <2>2 DEF vars, BrokerInv, BrokerTypes, PlaceOfTx
    <3>3. OnRecord'
      BY <2>1, <2>2 DEF vars, BrokerInv, OnRecord, Decided, Recorded, Event, Mode, Tool, Index
    <3> QED
      BY <3>1, <3>2, <3>3 DEF BrokerInv
  <2>3. CASE Next
    <3>1. LogStep \/ UNCHANGED auditVars
      BY <2>1, <2>3, BrokerLogs DEF BrokerInv
    <3>2. TrailInv'
      <4>1. CASE LogStep
        BY <2>1, <4>1, TrailStep DEF BrokerInv
      <4>2. CASE UNCHANGED auditVars
        BY <2>1, <4>2 DEF auditVars, BrokerInv, TrailInv, TrailTypes, TxSound, Serial, Linked,
                      Verifies, Ids, Before, IsLast
      <4> QED
        BY <3>1, <4>1, <4>2
    <3> QED
      BY <2>1, <2>3, <3>1, <3>2, RowsGrow, BrokerStep
  <2> QED
    BY <2>1, <2>2, <2>3
<1> QED
  BY <1>1, <1>2, PTL DEF Spec

-----------------------------------------------------------------------------
(* Type correctness of the broker and its trail.                           *)
THEOREM BrokerTypeOK == Spec => []TypeOK
<1>1. BrokerInv => TypeOK
  BY DEF BrokerInv, TrailInv, TrailTypes, BrokerTypes, TypeOK, Events
<1> QED
  BY <1>1, BrokerInvariant, PTL

(* verify_chain can fail only after two log_event transactions were open   *)
(* at once, whatever failed (audit_system.py:73).                          *)
THEOREM BrokerForksNeedOverlap == Spec => []ForksNeedOverlap
<1>1. BrokerInv => ForksNeedOverlap
  BY DEF BrokerInv, TrailInv, Serial, ForksNeedOverlap
<1> QED
  BY <1>1, BrokerInvariant, PTL

(* No tool acts without its decision and its invocation on record, in this *)
(* order (tool_broker.py:101-111).                                         *)
THEOREM BrokerNoUnrecordedRun == Spec => []NoUnrecordedRun
<1>1. BrokerInv => NoUnrecordedRun
  BY DEF BrokerInv, OnRecord, Recorded, NoUnrecordedRun
<1> QED
  BY <1>1, BrokerInvariant, PTL

(* The trail implements the append-only trail whose events hash one that   *)
(* was there, however many writers interleave (audit_system.py:60-110).    *)
THEOREM BrokerImplementsTrail == Spec => ImplementsTrail
<1>. DEFINE links == {[id |-> r.at, prev |-> r.prev] : r \in rows}
<1>1. Init => Trail!Init
  BY DEF Init, AuditInit, Trail!Init
<1>2. ASSUME BrokerInv, LogStep
      PROVE  (\E l \in links' : Trail!AppendEvent(l)) \/ links' = links
  <2>1. ASSUME NEW at \in Nat \ {0}, at \notin Ids, NEW prev \in Ids \cup {0}, NEW e,
               rows' = rows \cup {[at |-> at, prev |-> prev, event |-> e]}
        PROVE  \E l \in links' : Trail!AppendEvent(l)
    <3>. DEFINE l == [id |-> at, prev |-> prev]
    <3>1. links' = links \cup {l}
      <4>1. \A k : k \in links' <=> \E r \in rows' : k = [id |-> r.at, prev |-> r.prev]
        OBVIOUS
      <4>2. \A k : k \in links <=> \E r \in rows : k = [id |-> r.at, prev |-> r.prev]
        OBVIOUS
      <4>. DEFINE new == [at |-> at, prev |-> prev, event |-> e]
      <4>3. rows' = rows \cup {new} /\ new.at = at /\ new.prev = prev
        BY <2>1
      <4>4. l = [id |-> new.at, prev |-> new.prev]
        BY <4>3
      <4>. HIDE DEF new, links, l
      <4> QED
        BY <4>1, <4>2, <4>3, <4>4
    <3>2. {k.id : k \in links} = Ids
      <4>1. \A k \in links : k.id \in Ids
        BY DEF Ids
      <4>2. ASSUME NEW i \in Ids
            PROVE  i \in {k.id : k \in links}
        <5>1. PICK r \in rows : i = r.at
          BY <4>2 DEF Ids
        <5>2. [id |-> r.at, prev |-> r.prev] \in links /\ [id |-> r.at, prev |-> r.prev].id = i
          BY <5>1
        <5>. HIDE DEF links
        <5> QED
          BY <5>2
      <4>. HIDE DEF links
      <4> QED
        BY <4>1, <4>2
    <3>3. l.id = at /\ l.prev = prev
      OBVIOUS
    <3>4. Trail!AppendEvent(l)
      BY <2>1, <3>1, <3>2, <3>3 DEF Trail!AppendEvent, Trail!Known, Trail!Genesis
    <3> QED
      BY <3>1, <3>4
  <2>2. ASSUME NEW w \in Tasks, NEW e \in Events, Commit(w, e)
        PROVE  \E l \in links' : Trail!AppendEvent(l)
    <3>1. /\ tx[w].stage = "selected"
          /\ rows' = rows \cup {[at |-> tx[w].at, prev |-> tx[w].prev, event |-> e]}
      BY <2>2 DEF Commit
    <3>2. tx[w].at \in Nat \ {0} /\ tx[w].at \notin Ids /\ tx[w].prev \in Ids \cup {0}
      BY <1>2, <3>1 DEF BrokerInv, TrailInv, TxSound, TrailTypes
    <3> HIDE DEF links
    <3> QED
      BY <2>1, <3>1, <3>2
  <2>3. ASSUME NEW w \in Tasks, NEW e \in Events, LogInMemory(w, e)
        PROVE  \E l \in links' : Trail!AppendEvent(l)
    <3>1. PICK last \in Ids \cup {0} : rows' = rows \cup {[at |-> clock + 1, prev |-> last, event |-> e]}
      BY <2>3 DEF LogInMemory, Ids
    <3>2. clock + 1 \in Nat \ {0} /\ clock + 1 \notin Ids
      BY <1>2 DEF BrokerInv, TrailInv, TrailTypes, Ids
    <3> HIDE DEF links
    <3> QED
      BY <2>1, <3>1, <3>2
  <2>4. ASSUME NEW w \in Tasks, Begin(w) \/ SelectLast(w) \/ Abort(w)
        PROVE  links' = links
    BY <2>4 DEF Begin, SelectLast, Abort
  <2> QED
    BY <1>2, <2>2, <2>3, <2>4 DEF LogStep
<1>3. BrokerInv /\ [Next]_vars => [Trail!Next]_links
  <2>1. SUFFICES ASSUME BrokerInv, [Next]_vars PROVE [Trail!Next]_links
    OBVIOUS
  <2>2. CASE UNCHANGED auditVars
    BY <2>2 DEF auditVars
  <2>3. CASE LogStep
    BY <1>2, <2>1, <2>3 DEF Trail!Next
  <2> QED
    BY <2>1, <2>2, <2>3, BrokerLogs DEF BrokerInv, vars, auditVars
<1> QED
  BY <1>1, <1>3, BrokerInvariant, PTL DEF Spec, ImplementsTrail, Trail!Spec
=============================================================================
