------------------------- MODULE ServiceState_proofs -------------------------
(***************************************************************************)
(* For any number of overlapping calls and exceptions: a repeated          *)
(* correction escalates, the last settings update counts, and uploads      *)
(* land.  Each rests on what a call that has ended can no longer do to the *)
(* calls that have seen it end.                                            *)
(***************************************************************************)
EXTENDS ServiceState, FiniteSetTheorems, TLAPS

Recording == {"list", "record", "learn", "escalate", "update", "tell", "audit"}
Putting == {"profile", "quiet", "reread"}
Uploading == {"file", "extract", "clear", "embed", "insert", "documents"}
Stages == {"idle", "done", "failed", "rule", "resolve", "store", "delete"}
            \cup Recording \cup Putting \cup Uploading

(* The calls that are in a stage are of its kind.                          *)
Fits(stage, kind) ==
  /\ stage \in Recording => kind = "correct"
  /\ stage \in Putting => kind = "put"
  /\ stage = "rule" => kind \in {"put", "portal"}
  /\ stage \in {"resolve", "store"} => kind = "edit"
  /\ stage = "delete" => kind = "delete"
  /\ stage \in Uploading => kind \in {"upload", "upsert"}

CallTypes ==
  /\ workload \in Workloads
  /\ call = [c \in Calls |-> call[c]]
  /\ \A c \in Calls :
       /\ call[c] = [stage |-> call[c].stage, op |-> call[c].op, seen |-> call[c].seen,
                     read |-> call[c].read, count |-> call[c].count]
       /\ call[c].stage \in Stages
       /\ call[c].stage # "idle" => call[c].op \in Operations /\ Fits(call[c].stage, Kind(c))
       /\ call[c].seen \subseteq Ended \ {c}

(* The stages a call goes through.                                         *)
Arcs ==
  {<<"list", "record">>, <<"record", "learn">>, <<"learn", "escalate">>, <<"learn", "update">>,
   <<"escalate", "update">>, <<"update", "tell">>, <<"tell", "audit">>, <<"audit", "done">>,
   <<"profile", "quiet">>, <<"quiet", "rule">>, <<"quiet", "reread">>, <<"rule", "reread">>,
   <<"rule", "done">>, <<"reread", "done">>, <<"resolve", "store">>, <<"store", "done">>,
   <<"delete", "done">>, <<"file", "extract">>, <<"extract", "clear">>, <<"clear", "embed">>,
   <<"embed", "insert">>, <<"insert", "documents">>, <<"documents", "done">>}

Arc(from, to) ==
  \/ from \notin {"idle", "done", "failed"} /\ to = "failed"
  \/ <<from, to>> \in Arcs

(* What a step of c does to the calls.                                     *)
Moves(c) ==
  /\ workload' = workload
  /\ call' = [d \in Calls |-> call'[d]]
  /\ \A d \in Calls \ {c} : call'[d] = call[d]
  /\ call'[c] = [stage |-> call'[c].stage, op |-> call[c].op, seen |-> call[c].seen,
                 read |-> call'[c].read, count |-> call'[c].count]
  /\ Arc(call[c].stage, call'[c].stage)
  /\ call[c].stage = "rule" /\ call'[c].stage # "failed"
       => call'[c].stage = IF Kind(c) = "put" THEN "reread" ELSE "done"
  /\ call[c].stage # "list" \/ call'[c].stage = "failed" => call'[c].count = call[c].count
  /\ call[c].stage # "resolve" => call'[c].read = call[c].read

Starts(c) ==
  /\ workload' = workload
  /\ call' = [d \in Calls |-> call'[d]]
  /\ \A d \in Calls \ {c} : call'[d] = call[d]
  /\ call[c].stage = "idle"
  /\ \E op \in Operations :
       call'[c] = [stage |-> Entrance[op.kind], op |-> op, seen |-> Ended,
                   read |-> IF op.kind = "put" THEN GetSettings ELSE None, count |-> 0]

-----------------------------------------------------------------------------
(* The calls *)

LEMMA OperationTypes ==
  ASSUME NEW op \in Operations
  PROVE  /\ op.kind \in {"correct", "put", "portal", "edit", "delete", "upload", "upsert"}
         /\ op.kind = "correct" => op.task \in Tasks /\ op.pattern \in Patterns
         /\ op.kind \in {"upload", "upsert"} => op.document \in Documents
         /\ op.kind = "put" => op.patch \in Patches
  BY DEF Operations

LEMMA Goes ==
  ASSUME CallTypes, NEW c \in Calls, NEW stage, Goto(c, stage)
  PROVE  /\ call' = [d \in Calls |-> call'[d]]
         /\ \A d \in Calls \ {c} : call'[d] = call[d]
         /\ call'[c] = [stage |-> stage, op |-> call[c].op, seen |-> call[c].seen,
                        read |-> call[c].read, count |-> call[c].count]
<1>. DEFINE r == call[c]
<1>1. r = [stage |-> r.stage, op |-> r.op, seen |-> r.seen, read |-> r.read, count |-> r.count]
  BY DEF CallTypes
<1>2. [r EXCEPT !.stage = stage] = [stage |-> stage, op |-> r.op, seen |-> r.seen,
                                    read |-> r.read, count |-> r.count]
  BY <1>1
<1>3. call = [d \in Calls |-> call[d]]
  BY DEF CallTypes
<1>4. call' = [call EXCEPT ![c] = [r EXCEPT !.stage = stage]]
  BY DEF Goto
<1>. HIDE DEF r
<1>5. call'[c] = [r EXCEPT !.stage = stage]
  BY <1>3, <1>4
<1>6. /\ call' = [d \in Calls |-> call'[d]]
      /\ \A d \in Calls \ {c} : call'[d] = call[d]
  BY <1>3, <1>4
<1> QED
  BY <1>2, <1>5, <1>6 DEF r

LEMMA GoesTo ==
  ASSUME CallTypes, NEW c \in Calls, NEW stage, Goto(c, stage)
  PROVE  call'[c].stage = stage
<1>1. call'[c] = [stage |-> stage, op |-> call[c].op, seen |-> call[c].seen,
                  read |-> call[c].read, count |-> call[c].count]
  BY Goes
<1> QED
  BY <1>1

LEMMA GoesMoves ==
  ASSUME CallTypes, NEW c \in Calls, NEW stage, Goto(c, stage), workload' = workload,
         Arc(call[c].stage, stage),
         call[c].stage # "list" \/ stage = "failed",
         call[c].stage = "rule" /\ stage # "failed"
           => stage = IF Kind(c) = "put" THEN "reread" ELSE "done"
  PROVE  Moves(c) /\ call'[c].stage = stage
<1>1. /\ call' = [d \in Calls |-> call'[d]]
      /\ \A d \in Calls \ {c} : call'[d] = call[d]
      /\ call'[c] = [stage |-> stage, op |-> call[c].op, seen |-> call[c].seen,
                     read |-> call[c].read, count |-> call[c].count]
  BY Goes
<1>2. call'[c].stage = stage /\ call'[c].read = call[c].read /\ call'[c].count = call[c].count
  BY <1>1
<1> QED
  BY <1>1, <1>2 DEF Moves

(* The handlers that only move their call and write elsewhere.             *)
Writes(c) ==
  \/ StoreCorrection(c) \/ StoreLearning(c) \/ StoreEscalation(c)
  \/ UpdateTask(c) \/ Acknowledge(c) \/ AuditCorrection(c)
  \/ StoreProfile(c) \/ StoreQuietHours(c) \/ SetPortalRule(c) \/ Reread(c)
  \/ StoreEntry(c) \/ DeleteEntry(c)
  \/ UploadFile(c) \/ ExtractText(c) \/ ClearDocument(c) \/ Embed(c) \/ InsertChunks(c)
  \/ ListDocuments(c)

LEMMA WritesMove ==
  ASSUME CallTypes, NEW c \in Calls, Writes(c) \/ Raise(c)
  PROVE  Moves(c)
<1>0. workload' = workload
  BY DEF Writes, Raise, StoreCorrection, StoreLearning, StoreEscalation, UpdateTask, Acknowledge,
         AuditCorrection, StoreProfile, StoreQuietHours, SetPortalRule, Reread, StoreEntry,
         DeleteEntry, UploadFile, ExtractText, ClearDocument, Embed, InsertChunks, ListDocuments
<1>1. CASE Raise(c)
  BY <1>0, <1>1, GoesMoves DEF Raise, Arc
<1>2. CASE Writes(c)
  <2>1. \E stage :
          /\ Goto(c, stage) /\ <<call[c].stage, stage>> \in Arcs /\ call[c].stage # "list"
          /\ call[c].stage = "rule" => stage = IF Kind(c) = "put" THEN "reread" ELSE "done"
    <3>1. CASE StoreCorrection(c) \/ StoreEscalation(c) \/ UpdateTask(c) \/ Acknowledge(c)
               \/ AuditCorrection(c)
      BY <3>1 DEF StoreCorrection, StoreEscalation, UpdateTask, Acknowledge, AuditCorrection, At, Arcs
    <3>2. CASE StoreProfile(c) \/ Reread(c) \/ StoreEntry(c) \/ DeleteEntry(c)
      BY <3>2 DEF StoreProfile, Reread, StoreEntry, DeleteEntry, At, Arcs
    <3>3. CASE UploadFile(c) \/ ExtractText(c) \/ ClearDocument(c) \/ Embed(c) \/ InsertChunks(c)
               \/ ListDocuments(c)
      BY <3>3 DEF UploadFile, ExtractText, ClearDocument, Embed, InsertChunks, ListDocuments, At, Arcs
    <3>4. CASE StoreLearning(c)
      BY <3>4 DEF StoreLearning, At, Arcs
    <3>5. CASE StoreQuietHours(c)
      BY <3>5 DEF StoreQuietHours, At, Arcs
    <3>6. CASE SetPortalRule(c)
      BY <3>6 DEF SetPortalRule, At, Arcs
    <3> QED
      BY <1>2, <3>1, <3>2, <3>3, <3>4, <3>5, <3>6 DEF Writes
  <2> QED
    BY <1>0, <2>1, GoesMoves DEF Arc
<1> QED
  BY <1>1, <1>2

LEMMA ExceptCount ==
  ASSUME NEW r, NEW stage, NEW count,
         r = [stage |-> r.stage, op |-> r.op, seen |-> r.seen, read |-> r.read, count |-> r.count]
  PROVE  [r EXCEPT !.stage = stage, !.count = count]
           = [stage |-> stage, op |-> r.op, seen |-> r.seen, read |-> r.read, count |-> count]
<1>. DEFINE fields == {"stage", "op", "seen", "read", "count"}
            s == [r EXCEPT !.stage = stage, !.count = count]
<1>1. DOMAIN r = fields
  OBVIOUS
<1>2. s = [f \in fields |-> s[f]]
  BY <1>1
<1>3. s.stage = stage /\ s.op = r.op /\ s.seen = r.seen /\ s.read = r.read /\ s.count = count
  BY <1>1
<1>. HIDE DEF s
<1>4. s = [stage |-> s.stage, op |-> s.op, seen |-> s.seen, read |-> s.read, count |-> s.count]
  BY <1>2
<1>5. s = [stage |-> stage, op |-> r.op, seen |-> r.seen, read |-> r.read, count |-> count]
  BY <1>3, <1>4
<1> QED
  BY <1>5 DEF s

LEMMA ListMoves ==
  ASSUME CallTypes, NEW c \in Calls, ListCorrections(c)
  PROVE  Moves(c) /\ call[c].stage = "list" /\ call'[c].stage = "record" /\ call'[c].count = Repeats(c)
<1>. DEFINE r == call[c]
            n == Repeats(c)
            s == [r EXCEPT !.stage = "record", !.count = n]
<1>1. r = [stage |-> r.stage, op |-> r.op, seen |-> r.seen, read |-> r.read, count |-> r.count]
  BY DEF CallTypes
<1>3. call = [d \in Calls |-> call[d]]
  BY DEF CallTypes
<1>4. call' = [call EXCEPT ![c] = s] /\ r.stage = "list" /\ workload' = workload
  BY <1>3 DEF ListCorrections, At
<1>. HIDE DEF r, n
<1>2. s = [stage |-> "record", op |-> r.op, seen |-> r.seen, read |-> r.read, count |-> n]
  BY <1>1, ExceptCount, Zenon
<1>. HIDE DEF s
<1>5. /\ call'[c] = s
      /\ call' = [d \in Calls |-> call'[d]]
      /\ \A d \in Calls \ {c} : call'[d] = call[d]
  BY <1>3, <1>4
<1>6. /\ call'[c].stage = "record" /\ call'[c].op = r.op /\ call'[c].seen = r.seen
      /\ call'[c].read = r.read /\ call'[c].count = n
      /\ call'[c] = [stage |-> call'[c].stage, op |-> r.op, seen |-> r.seen,
                     read |-> call'[c].read, count |-> call'[c].count]
  BY <1>2, <1>5
<1>7. Arc(call[c].stage, call'[c].stage)
  BY <1>4, <1>6 DEF Arc, Arcs, r
<1> QED
  BY <1>4, <1>5, <1>6, <1>7 DEF Moves, r, n

LEMMA RetrieveMoves ==
  ASSUME CallTypes, NEW c \in Calls, Retrieve(c)
  PROVE  /\ Moves(c) /\ call[c].stage = "resolve" /\ call'[c].stage = "store"
         /\ call'[c].read = Resolved(call[c].op, prefs[call[c].op.key])
<1>. DEFINE r == call[c]
            found == Resolved(r.op, prefs[r.op.key])
            s == [r EXCEPT !.stage = "store", !.read = found]
<1>1. r = [stage |-> r.stage, op |-> r.op, seen |-> r.seen, read |-> r.read, count |-> r.count]
  BY DEF CallTypes
<1>3. call = [d \in Calls |-> call[d]]
  BY DEF CallTypes
<1>4. call' = [call EXCEPT ![c] = s] /\ r.stage = "resolve" /\ workload' = workload
  BY <1>3 DEF Retrieve, At
<1>. HIDE DEF r, found
<1>2. s = [stage |-> "store", op |-> r.op, seen |-> r.seen, read |-> found, count |-> r.count]
  <2>. DEFINE fields == {"stage", "op", "seen", "read", "count"}
  <2>1. DOMAIN r = fields
    BY <1>1
  <2>2. s = [f \in fields |-> s[f]]
    BY <2>1
  <2>3. /\ s.stage = "store" /\ s.op = r.op /\ s.seen = r.seen /\ s.read = found
        /\ s.count = r.count
    BY <2>1
  <2>. HIDE DEF s
  <2>4. s = [stage |-> s.stage, op |-> s.op, seen |-> s.seen, read |-> s.read, count |-> s.count]
    BY <2>2
  <2> QED
    BY <2>3, <2>4
<1>. HIDE DEF s
<1>5. /\ call'[c] = s
      /\ call' = [d \in Calls |-> call'[d]]
      /\ \A d \in Calls \ {c} : call'[d] = call[d]
  BY <1>3, <1>4
<1>6. /\ call'[c].stage = "store" /\ call'[c].op = r.op /\ call'[c].seen = r.seen
      /\ call'[c].count = r.count /\ call'[c].read = found
      /\ call'[c] = [stage |-> call'[c].stage, op |-> r.op, seen |-> r.seen,
                     read |-> call'[c].read, count |-> call'[c].count]
  BY <1>2, <1>5
<1>7. Arc(call[c].stage, call'[c].stage)
  BY <1>4, <1>6 DEF Arc, Arcs, r
<1> QED
  BY <1>4, <1>5, <1>6, <1>7 DEF Moves, r, found

LEMMA StartStarts ==
  ASSUME CallTypes, NEW c \in Calls, Start(c)
  PROVE  Starts(c)
<1>1. PICK op \in workload : Begins(c, op, IF op.kind = "put" THEN GetSettings ELSE None)
  BY DEF Start
<1>2. op \in Operations
  BY ServiceAssumption DEF CallTypes
<1>. DEFINE r == [stage |-> Entrance[op.kind], op |-> op, seen |-> Ended,
                  read |-> IF op.kind = "put" THEN GetSettings ELSE None, count |-> 0]
<1>3. call = [d \in Calls |-> call[d]]
  BY DEF CallTypes
<1>4. call' = [call EXCEPT ![c] = r] /\ call[c] = NoCall
  BY <1>1 DEF Begins
<1>5. call[c].stage = "idle" /\ workload' = workload
  BY <1>4 DEF NoCall, Start
<1>. HIDE DEF r
<1>6. /\ call'[c] = r
      /\ call' = [d \in Calls |-> call'[d]]
      /\ \A d \in Calls \ {c} : call'[d] = call[d]
  BY <1>3, <1>4
<1> QED
  BY <1>2, <1>5, <1>6 DEF Starts, r

(* A call that moves is under way, and what has ended stays as it is.      *)
LEMMA MovesOn ==
  ASSUME CallTypes, NEW c \in Calls, Moves(c)
  PROVE  /\ call[c].stage \notin {"idle", "done", "failed"} /\ call'[c].stage \in Stages \ {"idle"}
         /\ call'[c].op = call[c].op /\ call'[c].seen = call[c].seen
         /\ c \notin Ended /\ Ended \subseteq Ended'
         /\ Fits(call'[c].stage, Kind(c))
<1>1. call[c].stage \notin {"idle", "done", "failed"}
  BY DEF Moves, Arc, Arcs
<1>2. call'[c].stage \in Stages \ {"idle"}
  BY DEF Moves, Arc, Arcs, Stages, Recording, Putting, Uploading
<1>3. call'[c].op = call[c].op /\ call'[c].seen = call[c].seen
  BY DEF Moves
<1>4. c \notin Ended
  BY <1>1 DEF Ended
<1>5. Ended \subseteq Ended'
  BY <1>4 DEF Ended, Moves
<1>6. Fits(call[c].stage, Kind(c))
  BY <1>1 DEF CallTypes
<1>7. Fits(call'[c].stage, Kind(c))
  <2>1. CASE call'[c].stage = "failed"
    BY <2>1 DEF Fits, Recording, Putting, Uploading
  <2>2. CASE call'[c].stage # "failed"
    <3>1. <<call[c].stage, call'[c].stage>> \in Arcs
      BY <2>2 DEF Moves, Arc
    <3>2. CASE call[c].stage = "rule"
      BY <2>2, <3>2 DEF Moves, Fits, Recording, Putting, Uploading
    <3>3. CASE call[c].stage # "rule"
      BY <1>6, <3>1, <3>3 DEF Arcs, Fits, Recording, Putting, Uploading
    <3> QED
      BY <3>2, <3>3
  <2> QED
    BY <2>1, <2>2
<1> QED
  BY <1>1, <1>2, <1>3, <1>4, <1>5, <1>7

LEMMA MovesTypes ==
  ASSUME CallTypes, NEW c \in Calls, Moves(c)
  PROVE  CallTypes'
<1>1. /\ call[c].stage # "idle" /\ call'[c].stage \in Stages
      /\ call'[c].op = call[c].op /\ call'[c].seen = call[c].seen
      /\ Ended \subseteq Ended' /\ Fits(call'[c].stage, Kind(c))
  BY MovesOn
<1>2. workload' \in Workloads /\ call' = [d \in Calls |-> call'[d]]
  BY DEF CallTypes, Moves
<1>3. ASSUME NEW d \in Calls
      PROVE  /\ call'[d] = [stage |-> call'[d].stage, op |-> call'[d].op, seen |-> call'[d].seen,
                            read |-> call'[d].read, count |-> call'[d].count]
             /\ call'[d].stage \in Stages
             /\ call'[d].stage # "idle"
                  => call'[d].op \in Operations /\ Fits(call'[d].stage, call'[d].op.kind)
             /\ call'[d].seen \subseteq Ended' \ {d}
  <2>1. CASE d = c
    <3>1. call'[c] = [stage |-> call'[c].stage, op |-> call[c].op, seen |-> call[c].seen,
                      read |-> call'[c].read, count |-> call'[c].count]
      BY DEF Moves
    <3>2. call'[c] = [stage |-> call'[c].stage, op |-> call'[c].op, seen |-> call'[c].seen,
                      read |-> call'[c].read, count |-> call'[c].count]
      BY <1>1, <3>1
    <3>3. call[c].op \in Operations /\ call[c].seen \subseteq Ended \ {c}
      BY <1>1 DEF CallTypes
    <3> QED
      BY <1>1, <2>1, <3>2, <3>3 DEF Kind
  <2>2. CASE d # c
    <3>1. call'[d] = call[d]
      BY <2>2 DEF Moves
    <3>2. call[d] = [stage |-> call[d].stage, op |-> call[d].op, seen |-> call[d].seen,
                     read |-> call[d].read, count |-> call[d].count]
      BY DEF CallTypes
    <3>3. /\ call[d].stage \in Stages
          /\ call[d].stage # "idle"
               => call[d].op \in Operations /\ Fits(call[d].stage, call[d].op.kind)
          /\ call[d].seen \subseteq Ended' \ {d}
      BY <1>1 DEF CallTypes, Kind
    <3> QED
      BY <3>1, <3>2, <3>3
  <2> QED
    BY <2>1, <2>2
<1> QED
  BY <1>2, <1>3 DEF CallTypes, Kind

LEMMA StartsTypes ==
  ASSUME CallTypes, NEW c \in Calls, Starts(c)
  PROVE  CallTypes' /\ Ended' = Ended /\ call'[c].stage \notin {"idle", "done", "failed"}
<1>1. PICK op \in Operations :
        call'[c] = [stage |-> Entrance[op.kind], op |-> op, seen |-> Ended,
                    read |-> IF op.kind = "put" THEN GetSettings ELSE None, count |-> 0]
  BY DEF Starts
<1>2. op.kind \in {"correct", "put", "portal", "edit", "delete", "upload", "upsert"}
  BY OperationTypes
<1>3. /\ Entrance[op.kind] \in Stages \ {"idle", "done", "failed"}
      /\ Fits(Entrance[op.kind], op.kind)
  BY <1>2 DEF Entrance, Stages, Fits, Recording, Putting, Uploading
<1>4. /\ call'[c].stage = Entrance[op.kind] /\ call'[c].op = op /\ call'[c].seen = Ended
      /\ call'[c] = [stage |-> call'[c].stage, op |-> call'[c].op, seen |-> call'[c].seen,
                     read |-> call'[c].read, count |-> call'[c].count]
  BY <1>1
<1>5. Ended' = Ended /\ c \notin Ended
  BY <1>3, <1>4 DEF Starts, Ended
<1>6. ASSUME NEW d \in Calls \ {c} PROVE call'[d] = call[d]
  BY DEF Starts
<1>7. ASSUME NEW d \in Calls
      PROVE  /\ call'[d] = [stage |-> call'[d].stage, op |-> call'[d].op, seen |-> call'[d].seen,
                            read |-> call'[d].read, count |-> call'[d].count]
             /\ call'[d].stage \in Stages
             /\ call'[d].stage # "idle"
                  => call'[d].op \in Operations /\ Fits(call'[d].stage, call'[d].op.kind)
             /\ call'[d].seen \subseteq Ended' \ {d}
  <2>1. CASE d = c
    BY <1>3, <1>4, <1>5, <2>1 DEF Ended
  <2>2. CASE d # c
    <3>1. call[d] = [stage |-> call[d].stage, op |-> call[d].op, seen |-> call[d].seen,
                     read |-> call[d].read, count |-> call[d].count]
      BY DEF CallTypes
    <3>2. /\ call[d].stage \in Stages
          /\ call[d].stage # "idle"
               => call[d].op \in Operations /\ Fits(call[d].stage, call[d].op.kind)
          /\ call[d].seen \subseteq Ended' \ {d}
      BY <1>5 DEF CallTypes, Kind
    <3> QED
      BY <1>6, <2>2, <3>1, <3>2
  <2> QED
    BY <2>1, <2>2
<1>8. workload' \in Workloads /\ call' = [d \in Calls |-> call'[d]]
  BY DEF CallTypes, Starts
<1> QED
  BY <1>3, <1>4, <1>5, <1>7, <1>8 DEF CallTypes, Kind

LEMMA TypesInit == Init => CallTypes
<1>. SUFFICES ASSUME Init PROVE CallTypes
  OBVIOUS
<1>1. call = [c \in Calls |-> NoCall]
  BY DEF Init
<1>2. call = [c \in Calls |-> call[c]] /\ \A c \in Calls : call[c] = NoCall
  BY <1>1
<1> QED
  BY <1>2 DEF CallTypes, NoCall, Init, Stages

LEMMA Steps ==
  ASSUME Next
  PROVE  \E c \in Calls : Start(c) \/ ListCorrections(c) \/ Retrieve(c) \/ Writes(c) \/ Raise(c)
  BY DEF Next, Writes

LEMMA StepTypes == CallTypes /\ [Next]_vars => CallTypes'
<1>. SUFFICES ASSUME CallTypes, [Next]_vars PROVE CallTypes'
  OBVIOUS
<1>1. CASE Next
  <2>1. PICK c \in Calls :
          Start(c) \/ ListCorrections(c) \/ Retrieve(c) \/ Writes(c) \/ Raise(c)
    BY <1>1, Steps
  <2>2. CASE Start(c)
    BY <2>2, StartStarts, StartsTypes
  <2>3. CASE ~Start(c)
    <3>1. Moves(c)
      BY <2>1, <2>3, ListMoves, RetrieveMoves, WritesMove
    <3> QED
      BY <3>1, MovesTypes
  <2> QED
    BY <2>2, <2>3
<1>2. CASE UNCHANGED vars
  BY <1>2 DEF vars, CallTypes, Ended, Kind
<1> QED
  BY <1>1, <1>2

-----------------------------------------------------------------------------
(* Documents *)

Cleared == {"embed", "insert", "documents", "done"}
Landed == {"documents", "done"}

Replaced(c) ==
  \E e \in Calls \ ({c} \cup call[c].seen) :
    Ingests(e) /\ call[e].op.document = call[c].op.document /\ call[e].op.replace

(* A replacing upload has cleared what it saw end, and what an upload put  *)
(* in is there unless one that it did not see end replaced it.             *)
Lands(c) ==
  /\ call[c].stage \in Cleared /\ call[c].op.replace
       => chunks[call[c].op.document] \cap call[c].seen = {}
  /\ call[c].stage \in Landed => c \in chunks[call[c].op.document] \/ Replaced(c)

UploadInv ==
  /\ chunks \in [Documents -> SUBSET Calls]
  /\ \A d \in Documents : \A e \in chunks[d] : call[e].stage \in {"documents", "done", "failed"}
  /\ \A c \in Calls : Ingests(c) => Lands(c)

LEMMA IngestsOn ==
  ASSUME CallTypes, NEW c \in Calls, Moves(c)
  PROVE  /\ \A d \in Calls : /\ Ingests(d)' <=> Ingests(d)
                             /\ call'[d].op = call[d].op /\ call'[d].seen = call[d].seen
         /\ \A d \in Calls : Replaced(d) => Replaced(d)'
<1>1. \A d \in Calls : /\ call'[d].op = call[d].op /\ call'[d].seen = call[d].seen
                       /\ (call'[d].stage # "idle") <=> (call[d].stage # "idle")
  BY MovesOn DEF Moves
<1>2. \A d \in Calls : Ingests(d)' <=> Ingests(d)
  BY <1>1 DEF Ingests, Started, Kind
<1> QED
  BY <1>1, <1>2 DEF Replaced

LEMMA IngestTypes ==
  ASSUME CallTypes, NEW c \in Calls, Ingests(c)
  PROVE  /\ call[c].op.document \in Documents
         /\ call[c].stage \in Uploading \cup {"done", "failed"}
<1>1. call[c].op \in Operations /\ Kind(c) \in {"upload", "upsert"} /\ Fits(call[c].stage, Kind(c))
      /\ call[c].stage \in Stages \ {"idle"}
  BY DEF CallTypes, Ingests, Started
<1>2. call[c].op.document \in Documents
  BY <1>1, OperationTypes DEF Kind
<1>3. call[c].stage \in Uploading \cup {"done", "failed"}
  BY <1>1 DEF Fits, Stages
<1> QED
  BY <1>2, <1>3

(* A step that leaves the chunks alone.                                    *)
LEMMA UploadFrame ==
  ASSUME CallTypes, UploadInv, NEW c \in Calls, Moves(c), chunks' = chunks,
         call[c].stage \notin {"clear", "insert"} \/ call'[c].stage = "failed"
  PROVE  UploadInv'
<1>1. \A d \in Documents : \A e \in chunks'[d] : call'[e].stage \in {"documents", "done", "failed"}
  <2>1. SUFFICES ASSUME NEW d \in Documents, NEW e \in chunks[d]
                 PROVE  call'[e].stage \in {"documents", "done", "failed"}
    OBVIOUS
  <2>2. e \in Calls /\ call[e].stage \in {"documents", "done", "failed"}
    BY DEF UploadInv
  <2>3. CASE e = c
    BY <2>2, <2>3 DEF Moves, Arc, Arcs
  <2>4. CASE e # c
    BY <2>2, <2>4 DEF Moves
  <2> QED
    BY <2>3, <2>4
<1>2. ASSUME NEW d \in Calls, Ingests(d)' PROVE Lands(d)'
  <2>1. Ingests(d) /\ Lands(d)
    BY <1>2, IngestsOn DEF UploadInv
  <2>2. call'[d].op = call[d].op /\ call'[d].seen = call[d].seen /\ (Replaced(d) => Replaced(d)')
    BY IngestsOn
  <2>3. /\ call'[d].stage \in Cleared => call[d].stage \in Cleared
        /\ call'[d].stage \in Landed => call[d].stage \in Landed
    <3>1. CASE d # c
      BY <3>1 DEF Moves
    <3>2. CASE d = c
      <4>1. call[c].stage \in Uploading \cup {"done", "failed"}
        BY <2>1, <3>2, IngestTypes
      <4> QED
        BY <3>2, <4>1 DEF Moves, Arc, Arcs, Cleared, Landed, Uploading
    <3> QED
      BY <3>1, <3>2
  <2> QED
    BY <2>1, <2>2, <2>3 DEF Lands
<1> QED
  BY <1>1, <1>2 DEF UploadInv

LEMMA ClearStep ==
  ASSUME CallTypes, UploadInv, NEW c \in Calls, Moves(c), ClearDocument(c)
  PROVE  UploadInv'
<1>. DEFINE doc == call[c].op.document
<1>1. call[c].stage = "clear" /\ call'[c].stage = "embed"
  BY GoesTo DEF ClearDocument, At
<1>2. Ingests(c) /\ doc \in Documents
  <2>1. call[c].op \in Operations /\ Kind(c) \in {"upload", "upsert"}
    BY <1>1 DEF CallTypes, Fits, Uploading
  <2> QED
    BY <1>1, <2>1, OperationTypes DEF Ingests, Started, Kind
<1>3. /\ chunks' \in [Documents -> SUBSET Calls]
      /\ chunks'[doc] = IF call[c].op.replace THEN {} ELSE chunks[doc]
      /\ \A d \in Documents \ {doc} : chunks'[d] = chunks[d]
  BY <1>2 DEF ClearDocument, UploadInv
<1>4. \A d \in Documents : \A e \in chunks'[d] : call'[e].stage \in {"documents", "done", "failed"}
  <2>1. SUFFICES ASSUME NEW d \in Documents, NEW e \in chunks'[d]
                 PROVE  call'[e].stage \in {"documents", "done", "failed"}
    OBVIOUS
  <2>2. e \in chunks[d]
    BY <1>3
  <2>3. e \in Calls /\ call[e].stage \in {"documents", "done", "failed"}
    BY <2>2 DEF UploadInv
  <2> QED
    BY <1>1, <2>3 DEF Moves
<1>5. ASSUME NEW d \in Calls, Ingests(d)' PROVE Lands(d)'
  <2>1. Ingests(d) /\ Lands(d)
    BY <1>5, IngestsOn DEF UploadInv
  <2>2. call'[d].op = call[d].op /\ call'[d].seen = call[d].seen /\ (Replaced(d) => Replaced(d)')
    BY IngestsOn
  <2>3. call[d].op.document \in Documents
    BY <2>1, IngestTypes
  <2>4. CASE d = c
    <3>1. call[c].op.replace => chunks'[doc] = {}
      BY <1>3
    <3> QED
      BY <1>1, <2>2, <2>4, <3>1 DEF Lands, Landed
  <2>5. CASE d # c
    <3>1. call'[d].stage = call[d].stage
      BY <2>5 DEF Moves
    <3>2. chunks'[call[d].op.document] \subseteq chunks[call[d].op.document]
      BY <1>3, <2>3
    <3>3. ASSUME call[d].stage \in Landed, d \in chunks[call[d].op.document],
                 d \notin chunks'[call[d].op.document]
          PROVE  Replaced(d)
      <4>1. call[d].op.document = doc /\ call[c].op.replace
        BY <1>3, <2>3, <3>3
      <4>2. c \notin call[d].seen
        BY <1>1 DEF CallTypes, Ended
      <4> QED
        BY <1>2, <2>5, <4>1, <4>2 DEF Replaced
    <3> QED
      BY <2>1, <2>2, <3>1, <3>2, <3>3 DEF Lands
  <2> QED
    BY <2>4, <2>5
<1> QED
  BY <1>3, <1>4, <1>5 DEF UploadInv

LEMMA InsertStep ==
  ASSUME CallTypes, UploadInv, NEW c \in Calls, Moves(c), InsertChunks(c)
  PROVE  UploadInv'
<1>. DEFINE doc == call[c].op.document
<1>1. call[c].stage = "insert" /\ call'[c].stage = "documents"
  BY GoesTo DEF InsertChunks, At
<1>2. Ingests(c) /\ doc \in Documents
  <2>1. call[c].op \in Operations /\ Kind(c) \in {"upload", "upsert"}
    BY <1>1 DEF CallTypes, Fits, Uploading
  <2> QED
    BY <1>1, <2>1, OperationTypes DEF Ingests, Started, Kind
<1>3. /\ chunks' \in [Documents -> SUBSET Calls]
      /\ chunks'[doc] = chunks[doc] \cup {c}
      /\ \A d \in Documents \ {doc} : chunks'[d] = chunks[d]
  BY <1>2 DEF InsertChunks, UploadInv
<1>4. \A d \in Documents : \A e \in chunks'[d] : call'[e].stage \in {"documents", "done", "failed"}
  <2>1. SUFFICES ASSUME NEW d \in Documents, NEW e \in chunks'[d]
                 PROVE  call'[e].stage \in {"documents", "done", "failed"}
    OBVIOUS
  <2>2. CASE e = c
    BY <1>1, <2>2
  <2>3. CASE e # c
    <3>1. e \in chunks[d]
      BY <1>3, <2>3
    <3>2. e \in Calls /\ call[e].stage \in {"documents", "done", "failed"}
      BY <3>1 DEF UploadInv
    <3> QED
      BY <2>3, <3>2 DEF Moves
  <2> QED
    BY <2>2, <2>3
<1>5. ASSUME NEW d \in Calls, Ingests(d)' PROVE Lands(d)'
  <2>1. Ingests(d) /\ Lands(d)
    BY <1>5, IngestsOn DEF UploadInv
  <2>2. call'[d].op = call[d].op /\ call'[d].seen = call[d].seen /\ (Replaced(d) => Replaced(d)')
    BY IngestsOn
  <2>3. call[d].op.document \in Documents
    BY <2>1, IngestTypes
  <2>4. c \notin call[d].seen
    BY <1>1 DEF CallTypes, Ended
  <2>5. chunks'[call[d].op.document] \cap call[d].seen = chunks[call[d].op.document] \cap call[d].seen
    BY <1>3, <2>3, <2>4
  <2>6. chunks[call[d].op.document] \subseteq chunks'[call[d].op.document]
    BY <1>3, <2>3
  <2>7. CASE d = c
    <3>1. call[c].stage \in Cleared
      BY <1>1 DEF Cleared
    <3>2. c \in chunks'[call'[c].op.document]
      BY <1>3, <2>2, <2>7
    <3> QED
      BY <2>1, <2>2, <2>5, <2>7, <3>1, <3>2 DEF Lands
  <2>8. CASE d # c
    <3>1. call'[d].stage = call[d].stage
      BY <2>8 DEF Moves
    <3> QED
      BY <2>1, <2>2, <2>5, <2>6, <3>1 DEF Lands
  <2> QED
    BY <2>7, <2>8
<1> QED
  BY <1>3, <1>4, <1>5 DEF UploadInv

LEMMA UploadStart ==
  ASSUME CallTypes, UploadInv, NEW c \in Calls, Starts(c), chunks' = chunks
  PROVE  UploadInv'
<1>1. \A d \in Calls \ {c} : call'[d] = call[d]
  BY DEF Starts
<1>2. call[c].stage = "idle"
  BY DEF Starts
<1>3. \A d \in Documents : \A e \in chunks'[d] : call'[e].stage \in {"documents", "done", "failed"}
  BY <1>1, <1>2 DEF UploadInv
<1>4. call'[c].stage \notin Cleared
  <2>1. PICK op \in Operations : call'[c].stage = Entrance[op.kind]
    BY DEF Starts
  <2>2. op.kind \in {"correct", "put", "portal", "edit", "delete", "upload", "upsert"}
    BY OperationTypes
  <2> QED
    BY <2>1, <2>2 DEF Entrance, Cleared
<1>5. ASSUME NEW d \in Calls, Ingests(d)' PROVE Lands(d)'
  <2>1. CASE d = c
    BY <1>4, <2>1 DEF Lands, Cleared, Landed
  <2>2. CASE d # c
    <3>1. Ingests(d) /\ Lands(d)
      BY <1>1, <1>5, <2>2 DEF Ingests, Started, Kind, UploadInv
    <3>2. Replaced(d) => Replaced(d)'
      <4>1. SUFFICES ASSUME NEW e \in Calls \ ({d} \cup call[d].seen), Ingests(e),
                            call[e].op.document = call[d].op.document, call[e].op.replace
                     PROVE  Replaced(d)'
        BY DEF Replaced
      <4>2. e # c
        BY <1>2, <4>1 DEF Ingests, Started
      <4>3. call'[e] = call[e] /\ call'[d] = call[d]
        BY <1>1, <2>2, <4>2
      <4>4. Ingests(e)'
        BY <4>1, <4>3 DEF Ingests, Started, Kind
      <4> QED
        BY <4>1, <4>3, <4>4 DEF Replaced
    <3> QED
      BY <1>1, <2>2, <3>1, <3>2 DEF Lands
  <2> QED
    BY <2>1, <2>2
<1> QED
  BY <1>3, <1>5 DEF UploadInv

LEMMA UploadStep == CallTypes /\ UploadInv /\ [Next]_vars => UploadInv'
<1>. SUFFICES ASSUME CallTypes, UploadInv, [Next]_vars PROVE UploadInv'
  OBVIOUS
<1>1. CASE Next
  <2>1. PICK c \in Calls :
          Start(c) \/ ListCorrections(c) \/ Retrieve(c) \/ Writes(c) \/ Raise(c)
    BY <1>1, Steps
  <2>2. CASE Start(c)
    <3>1. chunks' = chunks
      BY <2>2 DEF Start, knowledgeVars
    <3> QED
      BY <2>2, <3>1, StartStarts, UploadStart
  <2>3. CASE ListCorrections(c) \/ Retrieve(c) \/ Raise(c)
    <3>1. chunks' = chunks
      BY <2>3 DEF ListCorrections, Retrieve, Raise, knowledgeVars
    <3>2. Moves(c) /\ (call[c].stage \notin {"clear", "insert"} \/ call'[c].stage = "failed")
      <4>1. CASE Raise(c)
        BY <4>1, WritesMove, GoesTo DEF Raise
      <4>2. CASE ~Raise(c)
        BY <2>3, <4>2, ListMoves, RetrieveMoves
      <4> QED
        BY <4>1, <4>2
    <3> QED
      BY <3>1, <3>2, UploadFrame
  <2>4. CASE Writes(c)
    <3>1. Moves(c)
      BY <2>4, WritesMove
    <3>2. CASE ClearDocument(c)
      BY <3>1, <3>2, ClearStep
    <3>3. CASE InsertChunks(c)
      BY <3>1, <3>3, InsertStep
    <3>4. CASE ~ClearDocument(c) /\ ~InsertChunks(c)
      <4>1. chunks' = chunks /\ call[c].stage \notin {"clear", "insert"}
        BY <2>4, <3>4
        DEF Writes, StoreCorrection, StoreLearning, StoreEscalation, UpdateTask, Acknowledge,
            AuditCorrection, StoreProfile, StoreQuietHours, SetPortalRule, Reread, StoreEntry,
            DeleteEntry, UploadFile, ExtractText, Embed, ListDocuments, knowledgeVars, At
      <4> QED
        BY <3>1, <4>1, UploadFrame
    <3> QED
      BY <3>2, <3>3, <3>4
  <2> QED
    BY <2>1, <2>2, <2>3, <2>4
<1>2. CASE UNCHANGED vars
  BY <1>2 DEF vars, UploadInv, Lands, Replaced, Ingests, Started, Kind
<1> QED
  BY <1>1, <1>2

LEMMA UploadInit == Init => UploadInv
  BY DEF Init, UploadInv, Ingests, Started, NoCall

(* However uploads of a document overlap and whatever raises, a replacing  *)
(* one leaves nothing of what had ended before it, and what an upload put  *)
(* in is lost only to one that it did not see end (api.py:919-925).        *)
THEOREM ServiceUploadsLand == Spec => []UploadsLand
<1>1. UploadInv => UploadsLand
  BY DEF UploadInv, Lands, Replaced, UploadsLand, Done, Cleared, Landed
<1> QED
  BY <1>1, UploadInit, TypesInit, StepTypes, UploadStep, PTL DEF Spec

-----------------------------------------------------------------------------
(* Corrections *)

Correcting(c) == Started(c) /\ Kind(c) = "correct"

(* All corrections of its task are for the reason of this one.             *)
Sole(c) ==
  \A e \in Calls : Correcting(e) /\ call[e].op.task = call[c].op.task
                     => call[e].op.pattern = call[c].op.pattern

(* An earlier correction for the same reason had been acknowledged.        *)
SawRepeat(c) ==
  \E e \in call[c].seen : /\ Done(e) /\ Correcting(e) /\ Sole(e)
                          /\ call[e].op.pattern = call[c].op.pattern

Told == {"update", "tell", "audit", "done"}
Recorded == {"learn", "escalate"} \cup Told
Counted == {"record"} \cup Recorded

Slot(c) == <<call[c].op.task, call[c].count>>
Slots == {slot \in DOMAIN corrections : corrections[slot] # None}
Passed == {c \in Calls : call[c].stage \notin {"idle", "list", "record"}}

Corrects(c) ==
  /\ call[c].stage \in Counted => call[c].count \in 1..Cardinality(Calls)
  /\ call[c].stage \in Recorded /\ Sole(c) => corrections[Slot(c)] = call[c].op.pattern
  /\ call[c].stage \in Counted /\ SawRepeat(c) => call[c].count >= 2
  /\ call[c].stage \in Told /\ call[c].count >= 2 => call[c].op.pattern \in escalated

(* Entries are as many as the calls that may have stored one, so that the  *)
(* numbers counted from them stay in range.                                *)
CorrectionInv ==
  /\ corrections \in [Tasks \X (1..Cardinality(Calls)) -> Patterns \cup {None}]
  /\ IsFiniteSet(Slots) /\ Cardinality(Slots) <= Cardinality(Passed)
  /\ \A c \in Calls : Correcting(c) => Corrects(c)

LEMMA CorrectsOn ==
  ASSUME CallTypes, NEW c \in Calls, Moves(c)
  PROVE  \A d \in Calls :
           /\ Correcting(d)' <=> Correcting(d)
           /\ call'[d].op = call[d].op /\ call'[d].seen = call[d].seen
           /\ Sole(d)' <=> Sole(d)
           /\ SawRepeat(d)' <=> SawRepeat(d)
<1>1. \A d \in Calls : /\ call'[d].op = call[d].op /\ call'[d].seen = call[d].seen
                       /\ (call'[d].stage # "idle") <=> (call[d].stage # "idle")
  BY MovesOn DEF Moves
<1>2. \A d \in Calls : Correcting(d)' <=> Correcting(d)
  BY <1>1 DEF Correcting, Started, Kind
<1>3. \A d \in Calls : Sole(d)' <=> Sole(d)
  BY <1>1, <1>2 DEF Sole
<1>4. ASSUME NEW d \in Calls PROVE SawRepeat(d)' <=> SawRepeat(d)
  <2>1. call[d].seen \subseteq Ended
    BY DEF CallTypes
  <2>2. \A e \in call[d].seen : e \in Calls /\ (Done(e)' <=> Done(e))
    BY <2>1, MovesOn DEF Ended, Moves, Done
  <2> QED
    BY <1>1, <1>2, <1>3, <2>2 DEF SawRepeat
<1> QED
  BY <1>1, <1>2, <1>3, <1>4

LEMMA CorrectionTypes ==
  ASSUME CallTypes, NEW c \in Calls, Correcting(c)
  PROVE  /\ call[c].op.task \in Tasks /\ call[c].op.pattern \in Patterns
         /\ call[c].op.pattern # None
         /\ call[c].stage \in Recording \cup {"done", "failed"}
<1>1. call[c].op \in Operations /\ Kind(c) = "correct" /\ Fits(call[c].stage, Kind(c))
      /\ call[c].stage \in Stages \ {"idle"}
  BY DEF CallTypes, Correcting, Started
<1>2. call[c].op.task \in Tasks /\ call[c].op.pattern \in Patterns
  BY <1>1, OperationTypes DEF Kind
<1>3. call[c].op.pattern # None
  BY <1>2, ServiceAssumption
<1>4. call[c].stage \in Recording \cup {"done", "failed"}
  BY <1>1 DEF Fits, Stages
<1> QED
  BY <1>2, <1>3, <1>4

LEMMA PassedGrows ==
  ASSUME CallTypes, NEW c \in Calls, Moves(c) \/ Starts(c)
  PROVE  IsFiniteSet(Passed') /\ Cardinality(Passed) <= Cardinality(Passed')
<1>1. Passed \subseteq Passed'
  <2>1. CASE Moves(c)
    <3>1. c \in Passed => c \in Passed'
      BY <2>1 DEF Passed, Moves, Arc, Arcs
    <3> QED
      BY <2>1, <3>1 DEF Passed, Moves
  <2>2. CASE Starts(c)
    BY <2>2 DEF Passed, Starts
  <2> QED
    BY <2>1, <2>2
<1>2. IsFiniteSet(Passed')
  <2>1. Passed' \subseteq Calls
    BY DEF Passed
  <2> QED
    BY <2>1, FS_Subset, ServiceAssumption
<1> QED
  BY <1>1, <1>2, FS_Subset

(* A step that neither counts nor records.                                 *)
LEMMA CorrectionFrame ==
  ASSUME CallTypes, CorrectionInv, NEW c \in Calls, Moves(c),
         corrections' = corrections, escalated \subseteq escalated',
         call[c].stage \notin {"list", "record"} \/ call'[c].stage = "failed",
         call'[c].stage \in Told /\ Correcting(c) =>
           \/ call[c].stage \in Told
           \/ ~(call[c].count >= 2)
           \/ call[c].op.pattern \in escalated'
  PROVE  CorrectionInv'
<1>1. Slots' = Slots
  BY DEF Slots
<1>2. IsFiniteSet(Slots') /\ Cardinality(Slots') <= Cardinality(Passed')
  <2>1. IsFiniteSet(Slots) /\ Cardinality(Slots) <= Cardinality(Passed)
    BY DEF CorrectionInv
  <2>2. IsFiniteSet(Passed)
    BY FS_Subset, ServiceAssumption DEF Passed
  <2>3. Cardinality(Slots) \in Nat /\ Cardinality(Passed) \in Nat /\ Cardinality(Passed') \in Nat
    BY <2>1, <2>2, PassedGrows, FS_CardinalityType
  <2> QED
    BY <1>1, <2>1, <2>3, PassedGrows
<1>3. ASSUME NEW d \in Calls, Correcting(d)' PROVE Corrects(d)'
  <2>1. /\ Correcting(d) /\ call'[d].op = call[d].op
        /\ Sole(d)' <=> Sole(d)
        /\ SawRepeat(d)' <=> SawRepeat(d)
    BY <1>3, CorrectsOn
  <2>2. Corrects(d)
    BY <2>1 DEF CorrectionInv
  <2>3. CASE d # c
    <3>1. call'[d] = call[d]
      BY <2>3 DEF Moves
    <3>2. Slot(d)' = Slot(d)
      BY <3>1 DEF Slot
    <3> QED
      BY <2>1, <2>2, <3>1, <3>2 DEF Corrects
  <2>4. CASE d = c /\ call'[c].stage = "failed"
    BY <2>4 DEF Corrects, Counted, Recorded, Told
  <2>5. CASE d = c /\ call'[c].stage # "failed"
    <3>1. call[c].stage \notin {"list", "record"} /\ call'[c].count = call[c].count
      BY <2>5 DEF Moves
    <3>2. call[c].stage \in Recorded
      <4>1. call[c].stage \in Recording \cup {"done", "failed"}
        BY <2>1, <2>5, CorrectionTypes
      <4>2. call[c].stage \notin {"done", "failed"}
        BY MovesOn
      <4> QED
        BY <3>1, <4>1, <4>2 DEF Recording, Recorded, Told
    <3>3. Slot(c)' = Slot(c)
      BY <2>1, <2>5, <3>1 DEF Slot
    <3>4. call[c].stage \in Counted
      BY <3>2 DEF Counted
    <3> QED
      BY <2>1, <2>2, <2>5, <3>1, <3>2, <3>3, <3>4 DEF Corrects
  <2> QED
    BY <2>3, <2>4, <2>5
<1> QED
  BY <1>2, <1>3 DEF CorrectionInv

(* What is counted: at least the entry of a repetition, and at most as     *)
(* many as the calls before.                                               *)
LEMMA CountsRepeats ==
  ASSUME CallTypes, CorrectionInv, NEW c \in Calls, Correcting(c), call[c].stage = "list"
  PROVE  Repeats(c) \in 1..Cardinality(Calls) /\ (SawRepeat(c) => Repeats(c) >= 2)
<1>. DEFINE same == {slot \in DOMAIN corrections : corrections[slot] = call[c].op.pattern}
<1>1. call[c].op.pattern # None
  BY CorrectionTypes
<1>2. same \subseteq Slots
  BY <1>1 DEF Slots
<1>3. IsFiniteSet(Slots) /\ Cardinality(Slots) <= Cardinality(Passed)
  BY DEF CorrectionInv
<1>4. IsFiniteSet(same) /\ Cardinality(same) <= Cardinality(Slots)
  BY <1>2, <1>3, FS_Subset
<1>5. /\ IsFiniteSet(Calls \ {c}) /\ Cardinality(Calls \ {c}) = Cardinality(Calls) - 1
  BY ServiceAssumption, FS_RemoveElement
<1>6. Passed \subseteq Calls \ {c}
  BY DEF Passed
<1>7. IsFiniteSet(Passed) /\ Cardinality(Passed) <= Cardinality(Calls) - 1
  BY <1>5, <1>6, FS_Subset
<1>8. /\ Cardinality(same) \in Nat /\ Cardinality(Slots) \in Nat /\ Cardinality(Passed) \in Nat
      /\ Cardinality(Calls) \in Nat
  BY <1>3, <1>4, <1>7, ServiceAssumption, FS_CardinalityType
<1>9. Repeats(c) = 1 + Cardinality(same)
  BY DEF Repeats
<1>10. ASSUME SawRepeat(c) PROVE Cardinality(same) # 0
  <2>1. PICK e \in call[c].seen : /\ Done(e) /\ Correcting(e) /\ Sole(e)
                                  /\ call[e].op.pattern = call[c].op.pattern
    BY <1>10 DEF SawRepeat
  <2>2. e \in Calls
    BY DEF CallTypes, Ended
  <2>3. call[e].stage \in Recorded /\ call[e].stage \in Counted
    BY <2>1 DEF Done, Recorded, Counted, Told
  <2>4. corrections[Slot(e)] = call[c].op.pattern /\ call[e].count \in 1..Cardinality(Calls)
    BY <2>1, <2>2, <2>3 DEF CorrectionInv, Corrects
  <2>5. call[e].op.task \in Tasks
    BY <2>1, <2>2, CorrectionTypes
  <2>6. Slot(e) \in same
    BY <2>4, <2>5 DEF Slot, CorrectionInv
  <2> QED
    BY <1>4, <2>6, FS_EmptySet
<1>. HIDE DEF same
<1> QED
  BY <1>3, <1>4, <1>7, <1>8, <1>9, <1>10

LEMMA ListStep ==
  ASSUME CallTypes, CorrectionInv, NEW c \in Calls, ListCorrections(c)
  PROVE  CorrectionInv'
<1>1. /\ Moves(c) /\ call[c].stage = "list" /\ call'[c].stage = "record"
      /\ call'[c].count = Repeats(c)
  BY ListMoves
<1>2. corrections' = corrections /\ escalated' = escalated
  BY DEF ListCorrections, correctionVars
<1>3. Slots' = Slots
  BY <1>2 DEF Slots
<1>4. Passed' = Passed
  BY <1>1 DEF Passed, Moves
<1>5. ASSUME NEW d \in Calls, Correcting(d)' PROVE Corrects(d)'
  <2>1. /\ Correcting(d) /\ call'[d].op = call[d].op
        /\ Sole(d)' <=> Sole(d)
        /\ SawRepeat(d)' <=> SawRepeat(d)
    BY <1>1, <1>5, CorrectsOn
  <2>2. CASE d # c
    <3>1. call'[d] = call[d]
      BY <1>1, <2>2 DEF Moves
    <3>2. Slot(d)' = Slot(d) /\ Corrects(d)
      BY <2>1, <3>1 DEF Slot, CorrectionInv
    <3> QED
      BY <1>2, <2>1, <3>1, <3>2 DEF Corrects
  <2>3. CASE d = c
    <3>1. Repeats(c) \in 1..Cardinality(Calls) /\ (SawRepeat(c) => Repeats(c) >= 2)
      BY <1>1, <2>1, <2>3, CountsRepeats
    <3> QED
      BY <1>1, <2>1, <2>3, <3>1 DEF Corrects, Recorded, Told
  <2> QED
    BY <2>2, <2>3
<1> QED
  BY <1>2, <1>3, <1>4, <1>5 DEF CorrectionInv

LEMMA RecordStep ==
  ASSUME CallTypes, CorrectionInv, NEW c \in Calls, Moves(c), StoreCorrection(c)
  PROVE  CorrectionInv'
<1>1. call[c].stage = "record" /\ call'[c].stage = "learn" /\ call'[c].count = call[c].count
  BY GoesTo DEF StoreCorrection, At, Moves
<1>2. Correcting(c)
  BY <1>1 DEF CallTypes, Correcting, Started, Fits, Recording
<1>3. /\ Slot(c) \in Tasks \X (1..Cardinality(Calls))
      /\ call[c].op.pattern \in Patterns /\ call[c].op.pattern # None
  <2>1. call[c].count \in 1..Cardinality(Calls)
    BY <1>1, <1>2 DEF CorrectionInv, Corrects, Counted
  <2> QED
    BY <1>2, <2>1, CorrectionTypes DEF Slot
<1>4. /\ corrections' \in [Tasks \X (1..Cardinality(Calls)) -> Patterns \cup {None}]
      /\ corrections'[Slot(c)] = call[c].op.pattern
      /\ \A slot \in Tasks \X (1..Cardinality(Calls)) :
           slot # Slot(c) => corrections'[slot] = corrections[slot]
  <2>1. corrections' = [corrections EXCEPT ![Slot(c)] = call[c].op.pattern]
    BY DEF StoreCorrection, Slot
  <2>2. corrections \in [Tasks \X (1..Cardinality(Calls)) -> Patterns \cup {None}]
    BY DEF CorrectionInv
  <2> QED
    BY <1>3, <2>1, <2>2
<1>5. escalated' = escalated
  BY DEF StoreCorrection
<1>6. Slots' \subseteq Slots \cup {Slot(c)}
  <2>1. DOMAIN corrections = Tasks \X (1..Cardinality(Calls))
    BY DEF CorrectionInv
  <2>2. DOMAIN corrections' = Tasks \X (1..Cardinality(Calls))
    BY <1>4
  <2> QED
    BY <1>4, <2>1, <2>2 DEF Slots
<1>7. Passed' = Passed \cup {c} /\ c \notin Passed
  BY <1>1 DEF Passed, Moves
<1>8. IsFiniteSet(Slots') /\ Cardinality(Slots') <= Cardinality(Passed')
  <2>1. IsFiniteSet(Slots) /\ Cardinality(Slots) <= Cardinality(Passed)
    BY DEF CorrectionInv
  <2>2. /\ IsFiniteSet(Slots \cup {Slot(c)})
        /\ \/ Cardinality(Slots \cup {Slot(c)}) = Cardinality(Slots)
           \/ Cardinality(Slots \cup {Slot(c)}) = Cardinality(Slots) + 1
    BY <2>1, FS_AddElement
  <2>3. IsFiniteSet(Slots') /\ Cardinality(Slots') <= Cardinality(Slots \cup {Slot(c)})
    BY <1>6, <2>2, FS_Subset
  <2>4. IsFiniteSet(Passed)
    BY FS_Subset, ServiceAssumption DEF Passed
  <2>5. Cardinality(Passed') = Cardinality(Passed) + 1
    BY <1>7, <2>4, FS_AddElement
  <2>6. /\ Cardinality(Slots) \in Nat /\ Cardinality(Slots') \in Nat
        /\ Cardinality(Slots \cup {Slot(c)}) \in Nat /\ Cardinality(Passed) \in Nat
    BY <2>1, <2>2, <2>3, <2>4, FS_CardinalityType
  <2> QED
    BY <2>1, <2>2, <2>3, <2>5, <2>6
<1>9. ASSUME NEW d \in Calls, Correcting(d)' PROVE Corrects(d)'
  <2>1. /\ Correcting(d) /\ call'[d].op = call[d].op
        /\ Sole(d)' <=> Sole(d)
        /\ SawRepeat(d)' <=> SawRepeat(d)
    BY <1>9, CorrectsOn
  <2>2. Corrects(d)
    BY <2>1 DEF CorrectionInv
  <2>3. CASE d # c
    <3>1. call'[d] = call[d]
      BY <2>3 DEF Moves
    <3>2. Slot(d)' = Slot(d)
      BY <3>1 DEF Slot
    <3>3. ASSUME call[d].stage \in Recorded, Sole(d)
          PROVE  corrections'[Slot(d)] = call[d].op.pattern
      <4>1. Slot(d) \in Tasks \X (1..Cardinality(Calls))
        <5>1. call[d].count \in 1..Cardinality(Calls)
          BY <2>2, <3>3 DEF Corrects, Counted
        <5> QED
          BY <2>1, <5>1, CorrectionTypes DEF Slot
      <4>2. CASE Slot(d) = Slot(c)
        <5>1. call[c].op.task = call[d].op.task
          BY <4>2 DEF Slot
        <5>2. call[c].op.pattern = call[d].op.pattern
          BY <1>2, <3>3, <5>1 DEF Sole
        <5> QED
          BY <1>4, <4>2, <5>2
      <4>3. CASE Slot(d) # Slot(c)
        BY <1>4, <2>2, <3>3, <4>1, <4>3 DEF Corrects
      <4> QED
        BY <4>2, <4>3
    <3> QED
      BY <1>5, <2>1, <2>2, <3>1, <3>2, <3>3 DEF Corrects
  <2>4. CASE d = c
    <3>1. Slot(c)' = Slot(c)
      BY <1>1, <2>1, <2>4 DEF Slot
    <3>2. call[c].stage \in Counted
      BY <1>1 DEF Counted
    <3>3. call'[c].stage \notin Told
      BY <1>1 DEF Told
    <3> QED
      BY <1>1, <1>4, <2>1, <2>2, <2>4, <3>1, <3>2, <3>3 DEF Corrects
  <2> QED
    BY <2>3, <2>4
<1> QED
  BY <1>4, <1>8, <1>9 DEF CorrectionInv

LEMMA CorrectionStart ==
  ASSUME CallTypes, CorrectionInv, NEW c \in Calls, Starts(c),
         corrections' = corrections, escalated' = escalated
  PROVE  CorrectionInv'
<1>1. \A d \in Calls \ {c} : call'[d] = call[d]
  BY DEF Starts
<1>2. call[c].stage = "idle"
  BY DEF Starts
<1>3. call'[c].stage \notin Counted
  <2>1. PICK op \in Operations : call'[c].stage = Entrance[op.kind]
    BY DEF Starts
  <2>2. op.kind \in {"correct", "put", "portal", "edit", "delete", "upload", "upsert"}
    BY OperationTypes
  <2> QED
    BY <2>1, <2>2 DEF Entrance, Counted, Recorded, Told
<1>4. \A d \in Calls : Correcting(d) => d # c /\ call'[d] = call[d] /\ Correcting(d)'
  BY <1>1, <1>2 DEF Correcting, Started, Kind
<1>5. \A d \in Calls \ {c} : Sole(d)' => Sole(d)
  BY <1>1, <1>4 DEF Sole
<1>6. ASSUME NEW d \in Calls \ {c}, SawRepeat(d)' PROVE SawRepeat(d)
  <2>1. PICK e \in call[d].seen : /\ Done(e)' /\ Correcting(e)' /\ Sole(e)'
                                  /\ call'[e].op.pattern = call'[d].op.pattern
    BY <1>1, <1>6 DEF SawRepeat
  <2>2. e \in Calls /\ e # c
    BY <1>2 DEF CallTypes, Ended
  <2>3. call'[e] = call[e] /\ call'[d] = call[d]
    BY <1>1, <2>2
  <2>4. Done(e) /\ Correcting(e) /\ Sole(e)
    BY <1>5, <2>1, <2>2, <2>3 DEF Done, Correcting, Started, Kind
  <2> QED
    BY <2>1, <2>3, <2>4 DEF SawRepeat
<1>7. ASSUME NEW d \in Calls, Correcting(d)' PROVE Corrects(d)'
  <2>1. CASE d = c
    BY <1>3, <2>1 DEF Corrects, Counted, Recorded
  <2>2. CASE d # c
    <3>1. call'[d] = call[d] /\ Correcting(d)
      BY <1>1, <1>7, <2>2 DEF Correcting, Started, Kind
    <3>2. Corrects(d) /\ Slot(d)' = Slot(d)
      BY <3>1 DEF CorrectionInv, Slot
    <3>3. (Sole(d)' => Sole(d)) /\ (SawRepeat(d)' => SawRepeat(d))
      BY <1>5, <1>6, <2>2
    <3> QED
      BY <3>1, <3>2, <3>3 DEF Corrects
  <2> QED
    BY <2>1, <2>2
<1>8. IsFiniteSet(Slots') /\ Cardinality(Slots') <= Cardinality(Passed')
  <2>1. IsFiniteSet(Slots) /\ Cardinality(Slots) <= Cardinality(Passed) /\ Slots' = Slots
    BY DEF CorrectionInv, Slots
  <2>2. IsFiniteSet(Passed)
    BY FS_Subset, ServiceAssumption DEF Passed
  <2>3. Cardinality(Slots) \in Nat /\ Cardinality(Passed) \in Nat /\ Cardinality(Passed') \in Nat
    BY <2>1, <2>2, PassedGrows, FS_CardinalityType
  <2> QED
    BY <2>1, <2>3, PassedGrows
<1> QED
  BY <1>7, <1>8 DEF CorrectionInv

LEMMA CorrectionStep == CallTypes /\ CorrectionInv /\ [Next]_vars => CorrectionInv'
<1>. SUFFICES ASSUME CallTypes, CorrectionInv, [Next]_vars PROVE CorrectionInv'
  OBVIOUS
<1>1. CASE Next
  <2>1. PICK c \in Calls :
          Start(c) \/ ListCorrections(c) \/ Retrieve(c) \/ Writes(c) \/ Raise(c)
    BY <1>1, Steps
  <2>2. CASE Start(c)
    <3>1. corrections' = corrections /\ escalated' = escalated
      BY <2>2 DEF Start, correctionVars
    <3> QED
      BY <2>2, <3>1, StartStarts, CorrectionStart
  <2>3. CASE ListCorrections(c)
    BY <2>3, ListStep
  <2>4. CASE Retrieve(c) \/ Raise(c)
    <3>1. corrections' = corrections /\ escalated' = escalated
      BY <2>4 DEF Retrieve, Raise, correctionVars
    <3>2. CASE Raise(c)
      <4>1. Moves(c) /\ call'[c].stage = "failed"
        BY <3>2, WritesMove, GoesTo DEF Raise
      <4>2. call'[c].stage \notin Told
        BY <4>1 DEF Told
      <4> QED
        BY <3>1, <4>1, <4>2, CorrectionFrame
    <3>3. CASE Retrieve(c)
      <4>1. Moves(c) /\ call[c].stage = "resolve" /\ call'[c].stage = "store"
        BY <3>3, RetrieveMoves
      <4>2. call'[c].stage \notin Told
        BY <4>1 DEF Told
      <4> QED
        BY <3>1, <4>1, <4>2, CorrectionFrame
    <3> QED
      BY <2>4, <3>2, <3>3
  <2>5. CASE Writes(c)
    <3>1. Moves(c)
      BY <2>5, WritesMove
    <3>2. CASE StoreCorrection(c)
      BY <3>1, <3>2, RecordStep
    <3>3. CASE StoreEscalation(c)
      <4>1. /\ call[c].stage = "escalate" /\ corrections' = corrections
            /\ escalated' = escalated \cup {call[c].op.pattern}
        BY <3>3 DEF StoreEscalation, At
      <4> QED
        BY <3>1, <4>1, CorrectionFrame
    <3>4. CASE StoreLearning(c)
      <4>1. /\ call[c].stage = "learn" /\ corrections' = corrections /\ escalated' = escalated
            /\ call'[c].stage = IF call[c].count >= 2 THEN "escalate" ELSE "update"
        BY <3>4, GoesTo DEF StoreLearning, At
      <4>2. call'[c].stage \in Told => ~(call[c].count >= 2)
        BY <4>1 DEF Told
      <4> QED
        BY <3>1, <4>1, <4>2, CorrectionFrame
    <3>5. CASE ~StoreCorrection(c) /\ ~StoreEscalation(c) /\ ~StoreLearning(c)
      <4>1. corrections' = corrections /\ escalated' = escalated
        BY <2>5, <3>5
        DEF Writes, UpdateTask, Acknowledge, AuditCorrection, StoreProfile, StoreQuietHours,
            SetPortalRule, Reread, StoreEntry, DeleteEntry, UploadFile, ExtractText, ClearDocument,
            Embed, InsertChunks, ListDocuments, correctionVars
      <4>2. call[c].stage \notin {"list", "record", "learn", "escalate"}
        BY <2>5, <3>5
        DEF Writes, UpdateTask, Acknowledge, AuditCorrection, StoreProfile, StoreQuietHours,
            SetPortalRule, Reread, StoreEntry, DeleteEntry, UploadFile, ExtractText, ClearDocument,
            Embed, InsertChunks, ListDocuments, At
      <4>3. Correcting(c) => call[c].stage \in Told
        <5>1. ASSUME Correcting(c) PROVE call[c].stage \in Told
          <6>1. call[c].stage \in Recording \cup {"done", "failed"}
            BY <5>1, CorrectionTypes
          <6>2. call[c].stage \notin {"done", "failed"}
            BY <3>1, MovesOn
          <6> QED
            BY <4>2, <6>1, <6>2 DEF Recording, Told
        <5> QED
          BY <5>1
      <4> QED
        BY <3>1, <4>1, <4>2, <4>3, CorrectionFrame
    <3> QED
      BY <3>2, <3>3, <3>4, <3>5
  <2> QED
    BY <2>1, <2>2, <2>3, <2>4, <2>5
<1>2. CASE UNCHANGED vars
  <2>1. Slots' = Slots /\ Passed' = Passed
    BY <1>2 DEF vars, Slots, Passed
  <2>2. \A c \in Calls : /\ Correcting(c)' <=> Correcting(c)
                         /\ Corrects(c)' <=> Corrects(c)
    BY <1>2 DEF vars, Correcting, Corrects, Started, Kind, Sole, SawRepeat, Done, Slot
  <2> QED
    BY <1>2, <2>1, <2>2 DEF vars, CorrectionInv
<1> QED
  BY <1>1, <1>2

LEMMA CorrectionInit == Init => CorrectionInv
<1>. SUFFICES ASSUME Init PROVE CorrectionInv
  OBVIOUS
<1>1. corrections = [slot \in Tasks \X (1..Cardinality(Calls)) |-> None]
  BY DEF Init
<1>2. Slots = {}
  BY <1>1 DEF Slots
<1>3. \A c \in Calls : call[c].stage = "idle"
  BY DEF Init, NoCall
<1>4. Passed = {}
  BY <1>3 DEF Passed
<1>5. IsFiniteSet(Slots) /\ Cardinality(Slots) <= Cardinality(Passed)
  BY <1>2, <1>4, FS_EmptySet
<1> QED
  BY <1>1, <1>3, <1>5 DEF CorrectionInv, Correcting, Started

(* A correction given again after the first was acknowledged is escalated, *)
(* however many overlap and whatever raises, unless the first one's task   *)
(* was corrected for another reason (api.py:640-661).                      *)
THEOREM ServiceRepeatEscalates == Spec => []RepeatEscalates
<1>1. CallTypes /\ CorrectionInv => RepeatEscalates
  <2>. SUFFICES ASSUME CallTypes, CorrectionInv, NEW c \in Calls, NEW d \in Calls,
                       Done(c), Done(d), Kind(c) = "correct", Kind(d) = "correct",
                       c \in call[d].seen, call[c].op.pattern = call[d].op.pattern,
                       \A e \in Calls :
                         (Started(e) /\ Kind(e) = "correct" /\ call[e].op.task = call[c].op.task)
                           => call[e].op.pattern = call[c].op.pattern
                PROVE  call[c].op.pattern \in escalated
    BY DEF RepeatEscalates
  <2>1. Correcting(c) /\ Correcting(d) /\ Sole(c)
    BY DEF Correcting, Sole, Started, Done
  <2>2. SawRepeat(d)
    BY <2>1 DEF SawRepeat
  <2>3. call[d].stage \in Counted /\ call[d].stage \in Told
    BY DEF Done, Counted, Recorded, Told
  <2> QED
    BY <2>1, <2>2, <2>3 DEF CorrectionInv, Corrects
<1> QED
  BY <1>1, TypesInit, CorrectionInit, StepTypes, CorrectionStep, PTL DEF Spec

-----------------------------------------------------------------------------
(* Settings *)

Puts(c) == Started(c) /\ Kind(c) = "put"

(* Every other writer of the settings had ended before c began.            *)
Alone(c) == \A e \in Calls \ {c} : WritesSettings(e) => e \in call[c].seen

RuleBeside(c) == \E e \in Calls \ call[c].seen : Started(e) /\ Kind(e) = "portal"

(* How far an update that is alone has come.                               *)
Settles(c) ==
  /\ call[c].stage \in {"quiet", "rule", "reread", "done"}
       => prefs["profile"] = Entry("preference", NextSettings(c))
  /\ call[c].stage \in {"rule", "reread", "done"}
       => prefs["quiet"] = Entry("preference", [quiet |-> NextSettings(c).quiet])
  /\ call[c].stage = "rule" => NextSettings(c).quiet \in DOMAIN HourOf
  /\ call[c].stage \in {"reread", "done"} /\ NextSettings(c).quiet \in DOMAIN HourOf
       => RuleBeside(c) \/ portalRule = HourOf[NextSettings(c).quiet]
  /\ call[c].stage \in {"profile", "quiet", "rule"}
       => RuleBeside(c) \/ portalRule = ruleBefore[c]
  /\ call[c].stage \in {"reread", "done"} /\ NextSettings(c).quiet \notin DOMAIN HourOf
       => RuleBeside(c) \/ portalRule = ruleBefore[c]

SettingsInv ==
  /\ ruleBefore = [c \in Calls |-> ruleBefore[c]]
  /\ prefs = [key \in {"profile", "quiet"} |-> prefs[key]]
  /\ \A c \in Calls : Puts(c) => /\ {"quiet", "tone"} \subseteq DOMAIN call[c].read
                                 /\ Alone(c) => Settles(c)

LEMMA SettingsFields == {"quiet", "tone"} \subseteq DOMAIN GetSettings
<1>. DEFINE profile == IF Preference("profile") THEN Merge(Default, prefs["profile"].value)
                       ELSE Default
<1>1. DOMAIN Default = {"quiet", "tone"}
  BY DEF Default
<1>2. {"quiet", "tone"} \subseteq DOMAIN profile
  BY <1>1 DEF Merge
<1>3. GetSettings = IF Preference("quiet")
                    THEN [profile EXCEPT !.quiet = prefs["quiet"].value.quiet] ELSE profile
  BY DEF GetSettings
<1>. HIDE DEF profile
<1>4. DOMAIN [profile EXCEPT !.quiet = prefs["quiet"].value.quiet] = DOMAIN profile
  OBVIOUS
<1> QED
  BY <1>2, <1>3, <1>4

LEMMA PutsOn ==
  ASSUME CallTypes, NEW d \in Calls, Moves(d)
  PROVE  \A c \in Calls :
           /\ call'[c].op = call[c].op /\ call'[c].seen = call[c].seen
           /\ Puts(c)' <=> Puts(c)
           /\ Alone(c)' <=> Alone(c)
           /\ RuleBeside(c)' <=> RuleBeside(c)
<1>1. \A c \in Calls : /\ call'[c].op = call[c].op /\ call'[c].seen = call[c].seen
                       /\ (call'[c].stage # "idle") <=> (call[c].stage # "idle")
  BY MovesOn DEF Moves
<1>2. \A c \in Calls : WritesSettings(c)' <=> WritesSettings(c)
  BY <1>1 DEF WritesSettings, Started, Kind
<1>3. \A c \in Calls : Alone(c)' <=> Alone(c)
  BY <1>1, <1>2 DEF Alone
<1>4. \A c \in Calls : RuleBeside(c)' <=> RuleBeside(c)
  BY <1>1 DEF RuleBeside, Started, Kind
<1> QED
  BY <1>1, <1>3, <1>4 DEF Puts, Started, Kind

LEMMA PutReads ==
  ASSUME CallTypes, NEW c \in Calls, NEW d \in Calls, Moves(d), Puts(c)
  PROVE  call'[c].read = call[c].read
<1>1. CASE d = c
  <2>1. call[c].stage # "resolve"
    BY DEF CallTypes, Puts, Fits, Started
  <2> QED
    BY <1>1, <2>1 DEF Moves
<1>2. CASE d # c
  BY <1>2 DEF Moves
<1> QED
  BY <1>1, <1>2

(* A call that moves has not been seen to end, so no update it writes      *)
(* beside is alone.                                                        *)
LEMMA OthersSettle ==
  ASSUME CallTypes, SettingsInv, NEW d \in Calls, Moves(d),
         Kind(d) \notin {"put", "edit", "delete"} => prefs' = prefs,
         Kind(d) \notin {"put", "portal"} => portalRule' = portalRule,
         ruleBefore' = ruleBefore,
         NEW c \in Calls \ {d}, Puts(c), Alone(c)
  PROVE  Settles(c)'
<1>1. d \notin call[c].seen
  BY MovesOn DEF CallTypes
<1>2. ~WritesSettings(d) /\ Started(d)
  BY <1>1, MovesOn DEF Alone, Started
<1>3. Kind(d) \notin {"put", "edit", "delete"}
  BY <1>2 DEF WritesSettings
<1>4. prefs' = prefs
  BY <1>3
<1>5. portalRule' = portalRule \/ RuleBeside(c)
  BY <1>1, <1>2, <1>3 DEF RuleBeside
<1>6. call'[c] = call[c]
  BY DEF Moves
<1>7. NextSettings(c)' = NextSettings(c)
  BY <1>6 DEF NextSettings
<1>8. RuleBeside(c) => RuleBeside(c)'
  BY PutsOn
<1>9. Settles(c)
  BY DEF SettingsInv
<1>10. Settles(c) => (RuleBeside(c)' \/ portalRule' = portalRule)
  BY <1>5, <1>8
<1> QED
  BY <1>4, <1>6, <1>7, <1>8, <1>9, <1>10 DEF Settles

(* What the steps of each kind of call may write.                          *)
LEMMA SettingsWriters ==
  ASSUME CallTypes, NEW c \in Calls,
         ListCorrections(c) \/ Retrieve(c) \/ Writes(c) \/ Raise(c)
  PROVE  /\ Kind(c) \notin {"put", "edit", "delete"} => prefs' = prefs
         /\ Kind(c) \notin {"put", "portal"} => portalRule' = portalRule
         /\ ruleBefore' = ruleBefore
         /\ Kind(c) = "put" => \/ Raise(c) \/ StoreProfile(c) \/ StoreQuietHours(c)
                               \/ SetPortalRule(c) \/ Reread(c)
         /\ prefs = [key \in {"profile", "quiet"} |-> prefs[key]]
              => prefs' = [key \in {"profile", "quiet"} |-> prefs'[key]]
<1>1. call[c].stage # "idle" => Fits(call[c].stage, Kind(c))
  BY DEF CallTypes
<1>2. CASE Raise(c)
  BY <1>2 DEF Raise, settingsVars
<1>3. CASE StoreProfile(c) \/ StoreQuietHours(c) \/ Reread(c)
  <2>1. Kind(c) = "put"
    BY <1>1, <1>3 DEF StoreProfile, StoreQuietHours, Reread, At, Fits, Putting
  <2> QED
    BY <1>3, <2>1 DEF StoreProfile, StoreQuietHours, Reread, settingsVars
<1>4. CASE SetPortalRule(c)
  <2>1. Kind(c) \in {"put", "portal"}
    BY <1>1, <1>4 DEF SetPortalRule, At, Fits
  <2> QED
    BY <1>4, <2>1 DEF SetPortalRule
<1>5. CASE StoreEntry(c) \/ DeleteEntry(c)
  <2>1. Kind(c) \in {"edit", "delete"}
    BY <1>1, <1>5 DEF StoreEntry, DeleteEntry, At, Fits
  <2> QED
    BY <1>5, <2>1 DEF StoreEntry, DeleteEntry
<1>6. CASE \/ ListCorrections(c) \/ StoreCorrection(c) \/ StoreLearning(c) \/ StoreEscalation(c)
           \/ UpdateTask(c) \/ Acknowledge(c) \/ AuditCorrection(c)
  <2>1. Kind(c) = "correct"
    BY <1>1, <1>6
    DEF ListCorrections, StoreCorrection, StoreLearning, StoreEscalation, UpdateTask, Acknowledge,
        AuditCorrection, At, Fits, Recording
  <2>2. UNCHANGED <<prefs, portalRule, ruleBefore>>
    BY <1>6
    DEF ListCorrections, StoreCorrection, StoreLearning, StoreEscalation, UpdateTask, Acknowledge,
        AuditCorrection, settingsVars
  <2> QED
    BY <2>1, <2>2
<1>7. CASE \/ Retrieve(c) \/ UploadFile(c) \/ ExtractText(c) \/ ClearDocument(c) \/ Embed(c)
           \/ InsertChunks(c) \/ ListDocuments(c)
  <2>1. Kind(c) \in {"edit", "upload", "upsert"}
    BY <1>1, <1>7
    DEF Retrieve, UploadFile, ExtractText, ClearDocument, Embed, InsertChunks, ListDocuments, At,
        Fits, Uploading
  <2>2. UNCHANGED <<prefs, portalRule, ruleBefore>>
    BY <1>7
    DEF Retrieve, UploadFile, ExtractText, ClearDocument, Embed, InsertChunks, ListDocuments,
        settingsVars
  <2> QED
    BY <2>1, <2>2
<1> QED
  BY <1>2, <1>3, <1>4, <1>5, <1>6, <1>7 DEF Writes

LEMMA OwnSettles ==
  ASSUME CallTypes, SettingsInv, NEW c \in Calls, Moves(c), Puts(c), Alone(c),
         Raise(c) \/ StoreProfile(c) \/ StoreQuietHours(c) \/ SetPortalRule(c) \/ Reread(c)
  PROVE  Settles(c)'
<1>0. ruleBefore' = ruleBefore
  BY SettingsWriters, Zenon DEF Writes
<1>1. NextSettings(c)' = NextSettings(c)
  BY PutReads, PutsOn DEF NextSettings
<1>2. Settles(c) /\ prefs = [key \in {"profile", "quiet"} |-> prefs[key]]
  BY DEF SettingsInv
<1>3. CASE Raise(c)
  <2>1. call'[c].stage = "failed"
    BY <1>3, GoesTo DEF Raise
  <2> QED
    BY <2>1 DEF Settles
<1>4. CASE StoreProfile(c)
  <2>0. call[c].stage = "profile"
    BY <1>4 DEF StoreProfile, At
  <2>1. call'[c].stage = "quiet"
    BY <1>4, GoesTo DEF StoreProfile
  <2>2. prefs' = [prefs EXCEPT !["profile"] = Entry("preference", NextSettings(c))]
    BY <1>4 DEF StoreProfile
  <2>3. prefs'["profile"] = Entry("preference", NextSettings(c))
    BY <1>2, <2>2
  <2>4. portalRule' = portalRule
    BY <1>4 DEF StoreProfile
  <2> QED
    BY <1>0, <1>1, <1>2, <2>0, <2>1, <2>3, <2>4, PutsOn DEF Settles
<1>5. CASE StoreQuietHours(c)
  <2>1. /\ call[c].stage = "quiet"
        /\ call'[c].stage = IF NextSettings(c).quiet \in DOMAIN HourOf THEN "rule" ELSE "reread"
    BY <1>5, GoesTo DEF StoreQuietHours, At
  <2>2. prefs' = [prefs EXCEPT !["quiet"] = Entry("preference", [quiet |-> NextSettings(c).quiet])]
    BY <1>5 DEF StoreQuietHours
  <2>3. /\ prefs'["quiet"] = Entry("preference", [quiet |-> NextSettings(c).quiet])
        /\ prefs'["profile"] = prefs["profile"]
    BY <1>2, <2>2
  <2>4. portalRule' = portalRule
    BY <1>5 DEF StoreQuietHours
  <2>5. RuleBeside(c)' \/ portalRule' = ruleBefore'[c]
    <3>1. RuleBeside(c) \/ portalRule = ruleBefore[c]
      BY <1>2, <2>1 DEF Settles
    <3>2. RuleBeside(c) => RuleBeside(c)'
      BY PutsOn
    <3> QED
      BY <1>0, <2>4, <3>1, <3>2
  <2>6. CASE NextSettings(c).quiet \in DOMAIN HourOf
    BY <1>1, <1>2, <2>1, <2>3, <2>5, <2>6 DEF Settles
  <2>7. CASE NextSettings(c).quiet \notin DOMAIN HourOf
    BY <1>1, <1>2, <2>1, <2>3, <2>5, <2>7 DEF Settles
  <2> QED
    BY <2>6, <2>7
<1>6. CASE SetPortalRule(c)
  <2>1. call[c].stage = "rule" /\ call'[c].stage = "reread"
    BY <1>6, GoesTo DEF SetPortalRule, At, Puts
  <2>2. portalRule' = HourOf[NextSettings(c).quiet] /\ prefs' = prefs
    BY <1>6 DEF SetPortalRule, Puts
  <2> QED
    BY <1>1, <1>2, <2>1, <2>2 DEF Settles
<1>7. CASE Reread(c)
  <2>1. call[c].stage = "reread" /\ call'[c].stage = "done"
    BY <1>7, GoesTo DEF Reread, At
  <2>2. portalRule' = portalRule /\ prefs' = prefs
    BY <1>7 DEF Reread, settingsVars
  <2>3. RuleBeside(c) => RuleBeside(c)'
    BY PutsOn
  <2> QED
    BY <1>0, <1>1, <1>2, <2>1, <2>2, <2>3 DEF Settles
<1> QED
  BY <1>3, <1>4, <1>5, <1>6, <1>7

LEMMA SettingsStart ==
  ASSUME CallTypes, SettingsInv, NEW d \in Calls, Starts(d),
         prefs' = prefs, portalRule' = portalRule,
         ruleBefore' = [ruleBefore EXCEPT ![d] = portalRule]
  PROVE  SettingsInv'
<1>1. /\ call[d].stage = "idle" /\ call'[d].stage # "idle"
      /\ \A c \in Calls \ {d} : call'[c] = call[c]
  BY StartsTypes DEF Starts
<1>2. ASSUME NEW c \in Calls, Puts(c)'
      PROVE  {"quiet", "tone"} \subseteq DOMAIN call'[c].read /\ (Alone(c)' => Settles(c)')
  <2>1. CASE c = d
    <3>1. PICK op \in Operations :
            call'[d] = [stage |-> Entrance[op.kind], op |-> op, seen |-> Ended,
                        read |-> IF op.kind = "put" THEN GetSettings ELSE None, count |-> 0]
      BY DEF Starts
    <3>2. op.kind = "put"
      BY <1>2, <2>1, <3>1 DEF Puts, Kind
    <3>3. call'[d].stage = "profile" /\ call'[d].read = GetSettings
      BY <3>1, <3>2 DEF Entrance
    <3>4. ruleBefore'[c] = portalRule
      BY <2>1 DEF SettingsInv
    <3> QED
      BY <2>1, <3>3, <3>4, SettingsFields DEF Settles
  <2>2. CASE c # d
    <3>1. call'[c] = call[c] /\ Puts(c)
      BY <1>1, <1>2, <2>2 DEF Puts, Started, Kind
    <3>2. Alone(c)' => Alone(c)
      <4>1. \A e \in Calls : WritesSettings(e) => WritesSettings(e)'
        BY <1>1 DEF WritesSettings, Started, Kind
      <4> QED
        BY <3>1, <4>1 DEF Alone
    <3>3. RuleBeside(c) => RuleBeside(c)'
      <4>1. \A e \in Calls : Started(e) /\ Kind(e) = "portal" => (Started(e) /\ Kind(e) = "portal")'
        BY <1>1 DEF Started, Kind
      <4> QED
        BY <3>1, <4>1 DEF RuleBeside
    <3>4. NextSettings(c)' = NextSettings(c)
      BY <3>1 DEF NextSettings
    <3>5. {"quiet", "tone"} \subseteq DOMAIN call[c].read /\ (Alone(c) => Settles(c))
      BY <3>1 DEF SettingsInv
    <3>6. ruleBefore'[c] = ruleBefore[c]
      BY <2>2 DEF SettingsInv
    <3> QED
      BY <3>1, <3>2, <3>3, <3>4, <3>5, <3>6 DEF Settles
  <2> QED
    BY <2>1, <2>2
<1>3. /\ prefs' = [key \in {"profile", "quiet"} |-> prefs'[key]]
      /\ ruleBefore' = [c \in Calls |-> ruleBefore'[c]]
  BY DEF SettingsInv
<1> QED
  BY <1>2, <1>3 DEF SettingsInv

LEMMA SettingsStep == CallTypes /\ SettingsInv /\ [Next]_vars => SettingsInv'
<1>. SUFFICES ASSUME CallTypes, SettingsInv, [Next]_vars PROVE SettingsInv'
  OBVIOUS
<1>1. CASE Next
  <2>1. PICK d \in Calls :
          Start(d) \/ ListCorrections(d) \/ Retrieve(d) \/ Writes(d) \/ Raise(d)
    BY <1>1, Steps
  <2>2. CASE Start(d)
    <3>1. /\ prefs' = prefs /\ portalRule' = portalRule
          /\ ruleBefore' = [ruleBefore EXCEPT ![d] = portalRule]
      BY <2>2 DEF Start, settingsVars
    <3> QED
      BY <2>2, <3>1, StartStarts, SettingsStart
  <2>3. CASE ~Start(d)
    <3>1. Moves(d)
      BY <2>1, <2>3, ListMoves, RetrieveMoves, WritesMove
    <3>2. /\ Kind(d) \notin {"put", "edit", "delete"} => prefs' = prefs
          /\ Kind(d) \notin {"put", "portal"} => portalRule' = portalRule
          /\ Kind(d) = "put" => \/ Raise(d) \/ StoreProfile(d) \/ StoreQuietHours(d)
                                \/ SetPortalRule(d) \/ Reread(d)
          /\ prefs' = [key \in {"profile", "quiet"} |-> prefs'[key]]
          /\ ruleBefore' = ruleBefore
      BY <2>1, <2>3, SettingsWriters DEF SettingsInv
    <3>3. ASSUME NEW c \in Calls, Puts(c)'
          PROVE  {"quiet", "tone"} \subseteq DOMAIN call'[c].read /\ (Alone(c)' => Settles(c)')
      <4>1. Puts(c) /\ (Alone(c)' => Alone(c))
        BY <3>1, <3>3, PutsOn
      <4>2. {"quiet", "tone"} \subseteq DOMAIN call'[c].read
        BY <3>1, <4>1, PutReads DEF SettingsInv
      <4>3. CASE c = d
        <5>1. Kind(d) = "put"
          BY <4>1, <4>3 DEF Puts
        <5> QED
          BY <3>1, <3>2, <4>1, <4>2, <4>3, <5>1, OwnSettles
      <4>4. CASE c # d
        BY <3>1, <3>2, <4>1, <4>2, <4>4, OthersSettle
      <4> QED
        BY <4>3, <4>4
    <3> QED
      BY <3>2, <3>3 DEF SettingsInv
  <2> QED
    BY <2>2, <2>3
<1>2. CASE UNCHANGED vars
  <2>1. \A c \in Calls : /\ Puts(c)' <=> Puts(c)
                         /\ Alone(c)' <=> Alone(c)
                         /\ Settles(c)' <=> Settles(c)
    BY <1>2 DEF vars, Puts, Alone, Settles, WritesSettings, RuleBeside, Started, Kind, NextSettings
  <2> QED
    BY <1>2, <2>1 DEF vars, SettingsInv
<1> QED
  BY <1>1, <1>2

LEMMA SettingsInit == Init => SettingsInv
<1>. SUFFICES ASSUME Init PROVE SettingsInv
  OBVIOUS
<1>1. \A c \in Calls : call[c].stage = "idle"
  BY DEF Init, NoCall
<1>2. /\ prefs = [key \in {"profile", "quiet"} |-> prefs[key]]
      /\ ruleBefore = [c \in Calls |-> ruleBefore[c]]
  BY DEF Init
<1> QED
  BY <1>1, <1>2 DEF SettingsInv, Puts, Started

(* The last settings update, when no other writer of the settings          *)
(* overlapped it, changed exactly its own fields of what it read, whatever *)
(* failed before it (api.py:1091-1116).  Unless a portal call overlapped   *)
(* or followed it, the portal's rule has the updated hour when             *)
(* _parse_quiet_hours knows it, and is the one of before the update when   *)
(* it does not (api.py:1107, 1972-1982).                                   *)
THEOREM ServiceLastPutCounts == Spec => []LastPutCounts
<1>1. CallTypes /\ SettingsInv => LastPutCounts
  <2>. SUFFICES ASSUME CallTypes, SettingsInv, NEW c \in Calls, Done(c), Kind(c) = "put",
                       \A e \in Calls \ {c} : WritesSettings(e) => e \in call[c].seen
                PROVE  /\ \A field \in {"quiet", "tone"} :
                            GetSettings[field] = IF field \in DOMAIN call[c].op.patch
                                                 THEN call[c].op.patch[field]
                                                 ELSE call[c].read[field]
                       /\ \/ \E e \in Calls \ call[c].seen : Started(e) /\ Kind(e) = "portal"
                          \/ portalRule = IF GetSettings.quiet \in DOMAIN HourOf
                                          THEN HourOf[GetSettings.quiet] ELSE ruleBefore[c]
    BY DEF LastPutCounts
  <2>. DEFINE next == NextSettings(c)
              profile == Merge(Default, next)
  <2>1. Puts(c) /\ Alone(c) /\ call[c].stage = "done"
    BY DEF Puts, Alone, Done, Started
  <2>2. {"quiet", "tone"} \subseteq DOMAIN call[c].read /\ Settles(c)
    BY <2>1 DEF SettingsInv
  <2>3. /\ {"quiet", "tone"} \subseteq DOMAIN next
        /\ \A field \in {"quiet", "tone"} :
             next[field] = IF field \in DOMAIN call[c].op.patch THEN call[c].op.patch[field]
                           ELSE call[c].read[field]
    BY <2>2 DEF NextSettings, Merge
  <2>4. /\ prefs["profile"] = Entry("preference", next)
        /\ prefs["quiet"] = Entry("preference", [quiet |-> next.quiet])
        /\ \/ RuleBeside(c)
           \/ portalRule = IF next.quiet \in DOMAIN HourOf THEN HourOf[next.quiet]
                           ELSE ruleBefore[c]
    BY <2>1, <2>2 DEF Settles
  <2>. HIDE DEF next
  <2>5. /\ Preference("profile") /\ Preference("quiet") /\ prefs["profile"].value = next
        /\ prefs["quiet"].value.quiet = next.quiet
    BY <2>4 DEF Preference, Entry
  <2>6. /\ {"quiet", "tone"} \subseteq DOMAIN profile
        /\ profile.quiet = next.quiet /\ profile.tone = next.tone
    BY <2>3 DEF Merge, Default
  <2>. HIDE DEF profile
  <2>7. GetSettings = [profile EXCEPT !.quiet = next.quiet]
    BY <2>5 DEF GetSettings, profile
  <2>8. GetSettings.quiet = next.quiet /\ GetSettings.tone = next.tone
    BY <2>6, <2>7
  <2> QED
    BY <2>3, <2>4, <2>8 DEF RuleBeside
<1> QED
  BY <1>1, TypesInit, SettingsInit, StepTypes, SettingsStep, PTL DEF Spec

-----------------------------------------------------------------------------
(* Types *)

Profiles == [{"quiet", "tone"} -> Quiets \cup Tones]

(* What the calls keep.                                                    *)
CallsKept ==
  \A c \in Calls :
    /\ call[c].op \in workload \cup {None}
    /\ call[c].seen \subseteq Calls \ {c}
    /\ call[c].count \in 0..Cardinality(Calls)
    /\ Puts(c) => call[c].read \in Profiles
    /\ Puts(c) /\ call[c].stage = "rule" => NextSettings(c).quiet \in DOMAIN HourOf
    /\ call[c].stage = "store" => call[c].read \in {"general", "preference"}

(* What the memory and the knowledge base keep.                            *)
StoresKept ==
  /\ corrections \in [Tasks \X (1..Cardinality(Calls)) -> Patterns \cup {None}]
  /\ learned \in [Patterns -> 0..Cardinality(Calls)]
  /\ escalated \subseteq Patterns
  /\ outcome \in [Tasks -> Patterns \cup {None}]
  /\ answered \subseteq Calls
  /\ portalRule \in {0, 17, 18, 19} /\ ruleBefore \in [Calls -> {0, 17, 18, 19}]
  /\ files \in [Documents -> Calls \cup {None}]
  /\ chunks \in [Documents -> SUBSET Calls]
  /\ faults \in 0..MaxFaults

EntryKept(key, entry) ==
  /\ entry.category \in {"none", "general", "preference"}
  /\ entry.category = "none" <=> entry.value = None
  /\ entry.value \in Patches \cup {None}
  /\ key = "quiet" /\ entry.value \in Patches => "quiet" \in DOMAIN entry.value

EntriesKept ==
  /\ prefs = [key \in {"profile", "quiet"} |-> prefs[key]]
  /\ \A key \in {"profile", "quiet"} : EntryKept(key, prefs[key])

(* Every profile has both fields, and an entry of the quiet hours says     *)
(* which.                                                                  *)
KeptTypes == workload \in Workloads /\ CallsKept /\ StoresKept /\ EntriesKept

LEMMA KeptTypeOK == KeptTypes => TypeOK
<1>. SUFFICES ASSUME KeptTypes PROVE TypeOK
  OBVIOUS
<1>1. DOMAIN prefs = {"profile", "quiet"}
  BY Zenon DEF KeptTypes, EntriesKept
<1> QED
  BY <1>1 DEF TypeOK, KeptTypes, CallsKept, StoresKept, EntriesKept, EntryKept

LEMMA PatchTypes ==
  ASSUME NEW p \in Patches
  PROVE  /\ p = [f \in DOMAIN p |-> p[f]] /\ DOMAIN p \subseteq {"quiet", "tone"}
         /\ \A f \in DOMAIN p : p[f] \in Quiets \cup Tones
         /\ p # None
<1>1. PICK fields \in SUBSET {"quiet", "tone"} : p \in [fields -> Quiets \cup Tones]
  BY DEF Patches
<1>2. p # None
  BY ServiceAssumption
<1> QED
  BY <1>1, <1>2

LEMMA ArePatches == /\ Profiles \subseteq Patches
                    /\ \A v \in Quiets \cup Tones : [quiet |-> v] \in Patches
<1>1. Profiles \subseteq Patches
  BY DEF Profiles, Patches
<1>2. ASSUME NEW v \in Quiets \cup Tones PROVE [quiet |-> v] \in Patches
  <2>1. [quiet |-> v] \in [{"quiet"} -> Quiets \cup Tones]
    OBVIOUS
  <2>2. {"quiet"} \in SUBSET {"quiet", "tone"}
    OBVIOUS
  <2> QED
    BY <2>1, <2>2 DEF Patches
<1> QED
  BY <1>1, <1>2

LEMMA MergeTypes ==
  ASSUME NEW base \in Profiles, NEW patch \in Patches
  PROVE  Merge(base, patch) \in Profiles
<1>1. DOMAIN base = {"quiet", "tone"} /\ \A f \in DOMAIN base : base[f] \in Quiets \cup Tones
  BY DEF Profiles
<1>2. DOMAIN patch \subseteq {"quiet", "tone"} /\ \A f \in DOMAIN patch : patch[f] \in Quiets \cup Tones
  BY PatchTypes
<1>3. DOMAIN base \cup DOMAIN patch = {"quiet", "tone"}
  BY <1>1, <1>2
<1> QED
  BY <1>1, <1>2, <1>3 DEF Merge, Profiles

LEMMA SettingsTypes ==
  ASSUME KeptTypes
  PROVE  GetSettings \in Profiles
<1>. DEFINE profile == IF Preference("profile") THEN Merge(Default, prefs["profile"].value)
                       ELSE Default
<1>1. Default \in Profiles
  BY DEF Default, Profiles, Quiets, Tones
<1>2. ASSUME NEW key \in {"profile", "quiet"}, Preference(key) PROVE prefs[key].value \in Patches
  <2>1. EntryKept(key, prefs[key])
    BY DEF KeptTypes, EntriesKept
  <2> QED
    BY <1>2, <2>1 DEF Preference, EntryKept
<1>3. profile \in Profiles
  BY <1>1, <1>2, MergeTypes
<1>4. Preference("quiet") => prefs["quiet"].value.quiet \in Quiets \cup Tones
  BY <1>2, PatchTypes DEF KeptTypes, EntriesKept, EntryKept
<1>5. GetSettings = IF Preference("quiet")
                    THEN [profile EXCEPT !.quiet = prefs["quiet"].value.quiet] ELSE profile
  BY DEF GetSettings
<1>. HIDE DEF profile
<1> QED
  BY <1>3, <1>4, <1>5 DEF Profiles

LEMMA NextTypes ==
  ASSUME CallTypes, KeptTypes, NEW c \in Calls, Puts(c)
  PROVE  NextSettings(c) \in Profiles /\ NextSettings(c).quiet \in Quiets \cup Tones
<1>1. call[c].read \in Profiles
  BY DEF KeptTypes, CallsKept
<1>2. call[c].op.patch \in Patches
  BY OperationTypes DEF CallTypes, Puts, Started, Kind
<1>3. NextSettings(c) \in Profiles
  BY <1>1, <1>2, MergeTypes DEF NextSettings
<1> QED
  BY <1>3 DEF Profiles

(* The calls, whatever a step writes elsewhere.                            *)
LEMMA CallsMove ==
  ASSUME CallTypes, KeptTypes, NEW c \in Calls, Moves(c),
         call'[c].count \in 0..Cardinality(Calls),
         Puts(c) /\ call'[c].stage = "rule" => NextSettings(c).quiet \in DOMAIN HourOf,
         call'[c].stage = "store" => call'[c].read \in {"general", "preference"}
  PROVE  CallsKept'
<1>1. ASSUME NEW d \in Calls
      PROVE  /\ call'[d].op \in workload' \cup {None}
             /\ call'[d].seen \subseteq Calls \ {d}
             /\ call'[d].count \in 0..Cardinality(Calls)
             /\ call'[d].stage = "store" => call'[d].read \in {"general", "preference"}
  <2>1. call'[d].op = call[d].op /\ call'[d].seen = call[d].seen
    BY PutsOn
  <2>2. workload' = workload
    BY DEF Moves
  <2>3. CASE d = c
    BY <2>1, <2>2, <2>3 DEF KeptTypes, CallsKept
  <2>4. CASE d # c
    BY <2>1, <2>2, <2>4 DEF KeptTypes, CallsKept, Moves
  <2> QED
    BY <2>3, <2>4
<1>2. ASSUME NEW d \in Calls, Puts(d)'
      PROVE  /\ call'[d].read \in Profiles
             /\ call'[d].stage = "rule" => NextSettings(d)'.quiet \in DOMAIN HourOf
  <2>1. Puts(d) /\ call'[d].read = call[d].read /\ NextSettings(d)' = NextSettings(d)
    BY <1>2, PutsOn, PutReads DEF NextSettings
  <2>2. CASE d = c
    BY <2>1, <2>2 DEF KeptTypes, CallsKept
  <2>3. CASE d # c
    BY <2>1, <2>3 DEF KeptTypes, CallsKept, Moves
  <2> QED
    BY <2>1, <2>2, <2>3 DEF KeptTypes, CallsKept
<1> QED
  BY <1>1, <1>2 DEF CallsKept

LEMMA KeptStart ==
  ASSUME CallTypes, KeptTypes, NEW c \in Calls, Start(c)
  PROVE  KeptTypes'
<1>1. PICK op \in workload : Begins(c, op, IF op.kind = "put" THEN GetSettings ELSE None)
  BY DEF Start
<1>. DEFINE r == [stage |-> Entrance[op.kind], op |-> op, seen |-> Ended,
                  read |-> IF op.kind = "put" THEN GetSettings ELSE None, count |-> 0]
<1>2. /\ call' = [call EXCEPT ![c] = r] /\ call[c] = NoCall
      /\ call = [d \in Calls |-> call[d]]
  BY <1>1 DEF Begins, CallTypes
<1>. HIDE DEF r
<1>3. call'[c] = r /\ \A d \in Calls \ {c} : call'[d] = call[d]
  BY <1>2
<1>4. op \in Operations
  BY ServiceAssumption DEF KeptTypes
<1>5. call'[c].stage \notin {"rule", "store"} \/ op.kind = "portal"
  <2>1. call'[c].stage = Entrance[op.kind]
    BY <1>3 DEF r
  <2> QED
    BY <1>4, <2>1, OperationTypes DEF Entrance
<1>6. /\ call'[c].op = op /\ call'[c].count = 0 /\ call'[c].seen = Ended
      /\ op.kind = "put" => call'[c].read = GetSettings
      /\ op.kind = "portal" => call'[c].stage = "rule"
  BY <1>3 DEF r, Entrance
<1>7. c \notin Ended /\ Ended \subseteq Calls
  BY <1>2 DEF Ended, NoCall
<1>8. Cardinality(Calls) \in Nat
  BY ServiceAssumption, FS_CardinalityType
<1>9. /\ UNCHANGED <<workload, correctionVars, settingsVars, knowledgeVars, faults>>
      /\ ruleBefore' = [ruleBefore EXCEPT ![c] = portalRule]
  BY DEF Start
<1>10. ASSUME NEW d \in Calls
       PROVE  /\ call'[d].op \in workload' \cup {None}
              /\ call'[d].seen \subseteq Calls \ {d}
              /\ call'[d].count \in 0..Cardinality(Calls)
              /\ Puts(d)' => call'[d].read \in Profiles
              /\ Puts(d)' /\ call'[d].stage = "rule" => NextSettings(d)'.quiet \in DOMAIN HourOf
              /\ call'[d].stage = "store" => call'[d].read \in {"general", "preference"}
  <2>1. CASE d = c
    BY <1>5, <1>6, <1>7, <1>8, <1>9, <2>1, SettingsTypes DEF Puts, Kind
  <2>2. CASE d # c
    <3>1. call'[d] = call[d]
      BY <1>3, <2>2
    <3>2. (Puts(d)' <=> Puts(d)) /\ NextSettings(d)' = NextSettings(d)
      BY <3>1 DEF Puts, Started, Kind, NextSettings
    <3> QED
      BY <1>9, <3>1, <3>2 DEF KeptTypes, CallsKept
  <2> QED
    BY <2>1, <2>2
<1>11. StoresKept' /\ EntriesKept'
  BY <1>9 DEF KeptTypes, StoresKept, EntriesKept, EntryKept, correctionVars, settingsVars, knowledgeVars
<1> QED
  BY <1>9, <1>10, <1>11 DEF KeptTypes, CallsKept

LEMMA StoresStep ==
  ASSUME CallTypes, KeptTypes, CorrectionInv, UploadInv, CorrectionInv', UploadInv', NEW c \in Calls,
         ListCorrections(c) \/ Retrieve(c) \/ Writes(c) \/ Raise(c)
  PROVE  StoresKept'
<1>1. call[c].stage # "idle" => call[c].op \in Operations /\ Fits(call[c].stage, Kind(c))
  BY DEF CallTypes
<1>2. StoresKept /\ call[c].count \in 0..Cardinality(Calls)
  BY DEF KeptTypes, CallsKept
<1>3. CASE StoreLearning(c) \/ StoreEscalation(c) \/ UpdateTask(c) \/ StoreCorrection(c)
  <2>1. Correcting(c)
    BY <1>1, <1>3 DEF StoreLearning, StoreEscalation, UpdateTask, StoreCorrection, At, Fits,
                      Recording, Correcting, Started
  <2>2. call[c].op.task \in Tasks /\ call[c].op.pattern \in Patterns
    BY <2>1, CorrectionTypes
  <2>3. /\ learned' = learned \/ learned' = [learned EXCEPT ![call[c].op.pattern] = call[c].count]
        /\ escalated' = escalated \/ escalated' = escalated \cup {call[c].op.pattern}
        /\ \/ outcome' = outcome
           \/ outcome' = [outcome EXCEPT ![call[c].op.task] = call[c].op.pattern]
        /\ UNCHANGED <<answered, portalRule, ruleBefore, files, chunks, faults>>
    BY <1>3 DEF StoreLearning, StoreEscalation, UpdateTask, StoreCorrection, settingsVars,
                knowledgeVars
  <2>4. learned' \in [Patterns -> 0..Cardinality(Calls)] /\ escalated' \subseteq Patterns
        /\ outcome' \in [Tasks -> Patterns \cup {None}]
    BY <1>2, <2>2, <2>3 DEF StoresKept
  <2> QED
    BY <1>2, <2>3, <2>4 DEF StoresKept, CorrectionInv
<1>4. CASE AuditCorrection(c)
  BY <1>2, <1>4 DEF AuditCorrection, StoresKept, settingsVars, knowledgeVars
<1>5. CASE SetPortalRule(c)
  <2>1. portalRule' \in {17, 18, 19}
    <3>1. call[c].stage = "rule" /\ Kind(c) \in {"put", "portal"} /\ call[c].op \in Operations
      BY <1>1, <1>5 DEF SetPortalRule, At, Fits
    <3>2. CASE Kind(c) = "put"
      <4>1. NextSettings(c).quiet \in DOMAIN HourOf
        BY <3>1, <3>2 DEF KeptTypes, CallsKept, Puts, Started
      <4> QED
        BY <1>5, <3>2, <4>1 DEF SetPortalRule, HourOf
    <3>3. CASE Kind(c) = "portal"
      <4>1. call[c].op.hour \in {HourOf[q] : q \in DOMAIN HourOf}
        BY <3>1, <3>3 DEF Operations, Kind
      <4> QED
        BY <1>5, <3>3, <4>1 DEF SetPortalRule, HourOf
    <3> QED
      BY <3>1, <3>2, <3>3
  <2> QED
    BY <1>2, <1>5, <2>1 DEF SetPortalRule, StoresKept, correctionVars, knowledgeVars
<1>6. CASE UploadFile(c)
  <2>1. call[c].op.document \in Documents
    BY <1>1, <1>6, OperationTypes DEF UploadFile, At, Fits, Uploading, Kind
  <2> QED
    BY <1>2, <1>6, <2>1 DEF UploadFile, StoresKept, correctionVars, settingsVars
<1>7. CASE Raise(c)
  BY <1>2, <1>7, ServiceAssumption DEF Raise, StoresKept, correctionVars, settingsVars, knowledgeVars
<1>8. CASE ClearDocument(c) \/ InsertChunks(c)
  BY <1>2, <1>8 DEF ClearDocument, InsertChunks, StoresKept, UploadInv, correctionVars, settingsVars
<1>9. CASE \/ ListCorrections(c) \/ Retrieve(c) \/ Acknowledge(c) \/ StoreProfile(c)
           \/ StoreQuietHours(c) \/ Reread(c) \/ StoreEntry(c) \/ DeleteEntry(c) \/ ExtractText(c)
           \/ Embed(c) \/ ListDocuments(c)
  <2>1. UNCHANGED <<corrections, learned, escalated, outcome, answered, portalRule, ruleBefore,
                    files, chunks, faults>>
    BY <1>9 DEF ListCorrections, Retrieve, Acknowledge, StoreProfile, StoreQuietHours, Reread,
                StoreEntry, DeleteEntry, ExtractText, Embed, ListDocuments, correctionVars,
                settingsVars, knowledgeVars
  <2> QED
    BY <1>2, <2>1 DEF StoresKept
<1> QED
  BY <1>3, <1>4, <1>5, <1>6, <1>7, <1>8, <1>9 DEF Writes

LEMMA EntryStored ==
  ASSUME EntriesKept, NEW key \in {"profile", "quiet"}, NEW entry, EntryKept(key, entry),
         prefs' = [prefs EXCEPT ![key] = entry]
  PROVE  EntriesKept'
<1>1. prefs = [k \in {"profile", "quiet"} |-> prefs[k]]
  BY DEF EntriesKept
<1>2. /\ prefs' = [k \in {"profile", "quiet"} |-> prefs'[k]]
      /\ prefs'[key] = entry
      /\ \A k \in {"profile", "quiet"} \ {key} : prefs'[k] = prefs[k]
  BY <1>1
<1>3. ASSUME NEW k \in {"profile", "quiet"} PROVE EntryKept(k, prefs'[k])
  <2>1. CASE k = key
    BY <1>2, <2>1
  <2>2. CASE k # key
    <3>1. prefs'[k] = prefs[k] /\ EntryKept(k, prefs[k])
      BY <1>2, <2>2 DEF EntriesKept
    <3> QED
      BY <3>1
  <2> QED
    BY <2>1, <2>2
<1> QED
  BY <1>2, <1>3 DEF EntriesKept

LEMMA EntriesStep ==
  ASSUME CallTypes, KeptTypes, NEW c \in Calls,
         ListCorrections(c) \/ Retrieve(c) \/ Writes(c) \/ Raise(c)
  PROVE  EntriesKept'
<1>1. call[c].stage # "idle" => call[c].op \in Operations /\ Fits(call[c].stage, Kind(c))
  BY DEF CallTypes
<1>2. EntriesKept
  BY DEF KeptTypes
<1>3. ASSUME NEW category \in {"general", "preference"}, NEW value \in Patches,
             NEW key \in {"profile", "quiet"}, key = "quiet" => "quiet" \in DOMAIN value
      PROVE  EntryKept(key, Entry(category, value))
  <2>1. Entry(category, value).category = category /\ Entry(category, value).value = value
    BY DEF Entry
  <2> QED
    BY <1>3, <2>1, PatchTypes DEF EntryKept
<1>4. CASE StoreProfile(c) \/ StoreQuietHours(c)
  <2>1. Puts(c)
    BY <1>1, <1>4 DEF StoreProfile, StoreQuietHours, At, Fits, Putting, Puts, Started
  <2>2. NextSettings(c) \in Patches /\ [quiet |-> NextSettings(c).quiet] \in Patches
    BY <2>1, NextTypes, ArePatches
  <2>3. CASE StoreProfile(c)
    <3>1. prefs' = [prefs EXCEPT !["profile"] = Entry("preference", NextSettings(c))]
      BY <2>3 DEF StoreProfile
    <3>2. EntryKept("profile", Entry("preference", NextSettings(c)))
      BY <1>3, <2>2
    <3> QED
      BY <1>2, <3>1, <3>2, EntryStored
  <2>4. CASE StoreQuietHours(c)
    <3>1. prefs' = [prefs EXCEPT !["quiet"] = Entry("preference", [quiet |-> NextSettings(c).quiet])]
      BY <2>4 DEF StoreQuietHours
    <3>2. "quiet" \in DOMAIN [quiet |-> NextSettings(c).quiet]
      OBVIOUS
    <3>3. EntryKept("quiet", Entry("preference", [quiet |-> NextSettings(c).quiet]))
      BY <1>3, <2>2, <3>2
    <3> QED
      BY <1>2, <3>1, <3>3, EntryStored
  <2> QED
    BY <1>4, <2>3, <2>4
<1>5. CASE StoreEntry(c)
  <2>1. call[c].stage = "store" /\ call[c].op \in Operations /\ Kind(c) = "edit"
    BY <1>1, <1>5 DEF StoreEntry, At, Fits
  <2>2. /\ call[c].op.key \in {"profile", "quiet"} /\ call[c].op.value \in Patches
        /\ call[c].op.key = "quiet" => "quiet" \in DOMAIN call[c].op.value
    BY <2>1 DEF Operations, Kind
  <2>3. call[c].read \in {"general", "preference"}
    BY <2>1 DEF KeptTypes, CallsKept
  <2>4. EntryKept(call[c].op.key, Entry(call[c].read, call[c].op.value))
    BY <1>3, <2>2, <2>3
  <2>5. prefs' = [prefs EXCEPT ![call[c].op.key] = Entry(call[c].read, call[c].op.value)]
    BY <1>5 DEF StoreEntry
  <2> QED
    BY <1>2, <2>2, <2>4, <2>5, EntryStored
<1>6. CASE DeleteEntry(c)
  <2>1. call[c].op \in Operations /\ Kind(c) = "delete"
    BY <1>1, <1>6 DEF DeleteEntry, At, Fits
  <2>2. call[c].op.key \in {"profile", "quiet"}
    BY <2>1 DEF Operations, Kind
  <2>3. EntryKept(call[c].op.key, Absent)
    BY ServiceAssumption DEF EntryKept, Absent
  <2>4. prefs' = [prefs EXCEPT ![call[c].op.key] = Absent]
    BY <1>6 DEF DeleteEntry
  <2> QED
    BY <1>2, <2>2, <2>3, <2>4, EntryStored
<1>7. CASE ~(StoreProfile(c) \/ StoreQuietHours(c) \/ StoreEntry(c) \/ DeleteEntry(c))
  <2>1. prefs' = prefs
    BY <1>7
    DEF Writes, ListCorrections, Retrieve, Raise, StoreCorrection, StoreLearning, StoreEscalation,
        UpdateTask, Acknowledge, AuditCorrection, SetPortalRule, Reread, UploadFile, ExtractText,
        ClearDocument, Embed, InsertChunks, ListDocuments, settingsVars
  <2> QED
    BY <1>2, <2>1 DEF EntriesKept, EntryKept
<1> QED
  BY <1>4, <1>5, <1>6, <1>7

LEMMA KeptStep ==
  ASSUME CallTypes, KeptTypes, CorrectionInv, UploadInv, CorrectionInv', UploadInv', [Next]_vars
  PROVE  KeptTypes'
<1>1. CASE Next
  <2>1. PICK c \in Calls :
          Start(c) \/ ListCorrections(c) \/ Retrieve(c) \/ Writes(c) \/ Raise(c)
    BY <1>1, Steps
  <2>2. CASE Start(c)
    BY <2>2, KeptStart
  <2>3. CASE ~Start(c)
    <3>1. Moves(c)
      BY <2>1, <2>3, ListMoves, RetrieveMoves, WritesMove
    <3>2. call[c].stage # "idle" /\ call[c].stage # "idle" => Fits(call[c].stage, Kind(c))
      BY <3>1, MovesOn DEF CallTypes
    <3>3. call'[c].count \in 0..Cardinality(Calls)
      <4>1. CASE ListCorrections(c)
        <5>1. call[c].stage = "list" /\ call'[c].count = Repeats(c)
          BY <4>1, ListMoves
        <5>2. Correcting(c)
          BY <5>1 DEF CallTypes, Correcting, Started, Fits, Recording
        <5>3. Repeats(c) \in 1..Cardinality(Calls) /\ Cardinality(Calls) \in Nat
          BY <5>1, <5>2, CountsRepeats, ServiceAssumption, FS_CardinalityType
        <5> QED
          BY <5>1, <5>3
      <4>2. CASE ~ListCorrections(c)
        <5>1. call[c].stage # "list" \/ call'[c].stage = "failed"
          <6>1. CASE Raise(c)
            BY <6>1, GoesTo DEF Raise
          <6>2. CASE ~Raise(c)
            BY <2>1, <2>3, <4>2, <6>2
            DEF Writes, Retrieve, StoreCorrection, StoreLearning, StoreEscalation, UpdateTask,
                Acknowledge, AuditCorrection, StoreProfile, StoreQuietHours, SetPortalRule, Reread,
                StoreEntry, DeleteEntry, UploadFile, ExtractText, ClearDocument, Embed,
                InsertChunks, ListDocuments, At
          <6> QED
            BY <6>1, <6>2
        <5>2. call'[c].count = call[c].count
          BY <3>1, <5>1 DEF Moves
        <5> QED
          BY <5>2 DEF KeptTypes, CallsKept
      <4> QED
        BY <4>1, <4>2
    <3>4. Puts(c) /\ call'[c].stage = "rule" => NextSettings(c).quiet \in DOMAIN HourOf
      <4>1. SUFFICES ASSUME Puts(c), call'[c].stage = "rule"
                     PROVE  NextSettings(c).quiet \in DOMAIN HourOf
        OBVIOUS
      <4>2. \/ Raise(c) \/ StoreProfile(c) \/ StoreQuietHours(c) \/ SetPortalRule(c) \/ Reread(c)
        BY <2>1, <2>3, <4>1, SettingsWriters DEF Puts
      <4>3. StoreQuietHours(c)
        BY <4>1, <4>2, GoesTo DEF Raise, StoreProfile, SetPortalRule, Reread
      <4> QED
        BY <4>1, <4>3, GoesTo DEF StoreQuietHours
    <3>5. call'[c].stage = "store" => call'[c].read \in {"general", "preference"}
      <4>1. SUFFICES ASSUME call'[c].stage = "store" PROVE call'[c].read \in {"general", "preference"}
        OBVIOUS
      <4>2. call[c].stage = "resolve"
        BY <3>1, <4>1 DEF Moves, Arc, Arcs
      <4>3. Retrieve(c)
        <5>1. ~Raise(c)
          BY <4>1, GoesTo DEF Raise
        <5> QED
          BY <2>1, <2>3, <4>2, <5>1
          DEF Writes, ListCorrections, StoreCorrection, StoreLearning, StoreEscalation, UpdateTask,
              Acknowledge, AuditCorrection, StoreProfile, StoreQuietHours, SetPortalRule, Reread,
              StoreEntry, DeleteEntry, UploadFile, ExtractText, ClearDocument, Embed,
              InsertChunks, ListDocuments, At
      <4>4. call'[c].read = Resolved(call[c].op, prefs[call[c].op.key])
        BY <4>3, RetrieveMoves
      <4>5. call[c].op \in Operations /\ Kind(c) = "edit"
        BY <4>2 DEF CallTypes, Fits
      <4>6. call[c].op.key \in {"profile", "quiet"} /\ call[c].op.category \in {"none", "preference"}
        BY <4>5 DEF Operations, Kind
      <4>7. prefs[call[c].op.key].category \in {"none", "general", "preference"}
        BY <4>6 DEF KeptTypes, EntriesKept, EntryKept
      <4> QED
        BY <4>4, <4>6, <4>7 DEF Resolved
    <3>6. CallsKept'
      BY <3>1, <3>3, <3>4, <3>5, CallsMove
    <3>7. StoresKept' /\ EntriesKept'
      BY <2>1, <2>3, StoresStep, EntriesStep
    <3>8. workload' = workload
      BY <3>1 DEF Moves
    <3> QED
      BY <3>6, <3>7, <3>8 DEF KeptTypes
  <2> QED
    BY <2>2, <2>3
<1>2. CASE UNCHANGED vars
  BY <1>2 DEF vars, KeptTypes, CallsKept, StoresKept, EntriesKept, EntryKept, Puts, Started, Kind,
              NextSettings
<1> QED
  BY <1>1, <1>2

LEMMA KeptInit == Init => KeptTypes
<1>. SUFFICES ASSUME Init PROVE KeptTypes
  OBVIOUS
<1>1. Cardinality(Calls) \in Nat
  BY ServiceAssumption, FS_CardinalityType
<1>2. \A c \in Calls : call[c] = NoCall
  BY DEF Init
<1>3. CallsKept
  BY <1>1, <1>2 DEF CallsKept, NoCall, Puts, Started
<1>4. StoresKept
  BY <1>1, ServiceAssumption DEF Init, StoresKept
<1>5. EntriesKept
  BY ServiceAssumption DEF Init, EntriesKept, EntryKept, Absent
<1> QED
  BY <1>3, <1>4, <1>5 DEF Init, KeptTypes

(* Every variable keeps its type, and every entry of the memory has a      *)
(* category and a value or neither (api.py:771-799, 1091-1116).            *)
THEOREM ServiceTypeOK == Spec => []TypeOK
<1>1. Init => CallTypes /\ CorrectionInv /\ UploadInv /\ KeptTypes
  BY TypesInit, CorrectionInit, UploadInit, KeptInit
<1>2. CallTypes /\ CorrectionInv /\ UploadInv /\ KeptTypes /\ [Next]_vars
        => (CallTypes /\ CorrectionInv /\ UploadInv /\ KeptTypes)'
  BY StepTypes, CorrectionStep, UploadStep, KeptStep
<1>3. KeptTypes => TypeOK
  BY KeptTypeOK
<1> QED
  BY <1>1, <1>2, <1>3, PTL DEF Spec
=============================================================================
