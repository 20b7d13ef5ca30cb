------------------------ MODULE AnalystSession_proofs ------------------------
(***************************************************************************)
(* For any number of messages, commissions and restarts, and whatever the  *)
(* models answer: as long as no two messages are handled at once, the      *)
(* session loses none and gets at most one document; and always the        *)
(* document it names is committed or still with its own handler.           *)
(***************************************************************************)
EXTENDS AnalystSession, FiniteSetTheorems, TLAPS

Stages == {"idle", "graph", "saving", "saved", "answered", "failed", "uncommitted"}
Callers == Calls \cup Commissions

IntakeTypes ==
  /\ session \in [open : BOOLEAN, state : States, doc : Calls \cup {None}]
  /\ call \in [Callers -> [stage : Stages, state : States]]
  /\ \A r \in rows : r.by \in Callers
  /\ enqueued \subseteq Commissions
  /\ accepted \subseteq Messages /\ overlapped \in BOOLEAN /\ restarts \in 0..MaxRestarts

(* The documents that handlers of messages committed.                      *)
Docs == {r \in rows : r.by \in Calls}

Asked(msgs) == {m \in msgs : User(m)}

(* What is true of the session in any case: who is at work belongs to an   *)
(* open session, a commission never gets to the graph, and an idle call's  *)
(* message is not in yet.                                                  *)
Tidy ==
  /\ \A c \in Commissions : call[c].stage \notin {"graph", "saving"}
  /\ ~session.open => session.doc = None /\ \A c \in Calls : ~AtWork(c)
  /\ ~session.open /\ restarts = 0 => Docs = {}
  /\ IsFiniteSet(accepted)
  /\ \A c \in Calls : c \in accepted => call[c].stage # "idle"

(* What is true while no two messages have been handled at once: the       *)
(* handler at work is the only one and its copy of the state is the        *)
(* session's, and a document is made only where there is none.             *)
OneAtWork ==
  /\ \A c, d \in Calls : AtWork(c) /\ AtWork(d) => c = d
  /\ \A c \in Calls :
       /\ call[c].stage = "graph" => /\ call[c].state.msgs = session.state.msgs
                                     /\ call[c].state.turns = session.state.turns
                                     /\ ~session.state.complete
       /\ call[c].stage = "saving" => session.doc = None
       /\ call[c].stage = "saved" => session.doc = c /\ Docs = {}
  /\ session.open => /\ session.doc = None => Docs = {}
                     /\ \A r \in Docs : r.by = session.doc
  /\ \A r, s \in Docs : r = s

Counted ==
  session.open =>
    LET asked == Asked(session.state.msgs) IN
      /\ session.state.msgs = accepted
      /\ session.state.turns <= Cardinality(asked)
      /\ ~session.state.complete => session.state.turns = Cardinality(asked)

IntakeInv ==
  IntakeTypes /\ Tidy /\ NamedDocumentIsThere /\ (~overlapped => OneAtWork /\ Counted)

-----------------------------------------------------------------------------
(* The operators *)

LEMMA FreshTypes ==
  Fresh \in States /\ Fresh.msgs = {First} /\ Fresh.turns = 1
<1>1. {First} \in SUBSET Messages /\ 1 \in Nat
  BY DEF Messages
<1> QED
  BY <1>1 DEF Fresh, States, NoTools

(* The graph rewrites what was read of the messages, and keeps them and    *)
(* their turns.                                                            *)
LEMMA AnalysesKeep ==
  ASSUME NEW st \in States, NEW new \in Analyses(st)
  PROVE  new \in States /\ new.msgs = st.msgs /\ new.turns = st.turns
<1>1. PICK r \in Readings :
        new \in {Check([st EXCEPT !.type = r.type, !.risk = r.risk, !.tools = Merge(@, r.tools)], score) :
                   score \in Scores}
  BY DEF Analyses
<1>2. PICK score \in Scores :
        new = Check([st EXCEPT !.type = r.type, !.risk = r.risk, !.tools = Merge(@, r.tools)], score)
  BY <1>1
<1>. DEFINE read == [st EXCEPT !.type = r.type, !.risk = r.risk, !.tools = Merge(@, r.tools)]
            enough == score >= 85
<1>3. read \in States /\ read.msgs = st.msgs /\ read.turns = st.turns
  <2>1. Merge(st.tools, r.tools) \in {NoTools} \cup {q.tools : q \in Readings}
    BY DEF Merge, States
  <2> QED
    BY <2>1 DEF States
<1>4. enough \in BOOLEAN
  OBVIOUS
<1>5. new = IF read.turns >= TurnLimit THEN [read EXCEPT !.complete = FALSE, !.timed = TRUE]
            ELSE [read EXCEPT !.complete = enough]
  BY <1>2 DEF Check
<1>. HIDE DEF read, enough
<1> QED
  BY <1>3, <1>4, <1>5 DEF States

(* One more message.                                                       *)
LEMMA Appended ==
  ASSUME NEW st \in States, NEW c \in Calls
  PROVE  /\ [st EXCEPT !.msgs = @ \cup {c}] \in States
         /\ [st EXCEPT !.msgs = @ \cup {c}].msgs = st.msgs \cup {c}
         /\ [st EXCEPT !.msgs = @ \cup {c}].turns = st.turns
         /\ [st EXCEPT !.msgs = @ \cup {c}].complete = st.complete
         /\ [[st EXCEPT !.msgs = @ \cup {c}] EXCEPT !.turns = @ + 1] \in States
         /\ [[st EXCEPT !.msgs = @ \cup {c}] EXCEPT !.turns = @ + 1].msgs = st.msgs \cup {c}
         /\ [[st EXCEPT !.msgs = @ \cup {c}] EXCEPT !.turns = @ + 1].turns = st.turns + 1
         /\ [[st EXCEPT !.msgs = @ \cup {c}] EXCEPT !.turns = @ + 1].complete = st.complete
<1>. DEFINE a == [st EXCEPT !.msgs = @ \cup {c}]
<1>1. a \in States /\ a.msgs = st.msgs \cup {c} /\ a.turns = st.turns /\ a.complete = st.complete
  BY DEF States, Messages
<1>. HIDE DEF a
<1>2. a.turns + 1 \in Nat
  BY <1>1 DEF States
<1>3. /\ [a EXCEPT !.turns = @ + 1] \in States /\ [a EXCEPT !.turns = @ + 1].msgs = a.msgs
      /\ [a EXCEPT !.turns = @ + 1].turns = a.turns + 1 /\ [a EXCEPT !.turns = @ + 1].complete = a.complete
  BY <1>1, <1>2 DEF States
<1> QED
  BY <1>1, <1>3 DEF a

(* What a new message adds to those that count as turns.                   *)
LEMMA AskedGrows ==
  ASSUME NEW msgs, IsFiniteSet(msgs), NEW c, c \notin msgs
  PROVE  /\ Cardinality(Asked(msgs)) \in Nat
         /\ User(c) => Cardinality(Asked(msgs \cup {c})) = Cardinality(Asked(msgs)) + 1
         /\ ~User(c) => Asked(msgs \cup {c}) = Asked(msgs)
<1>1. Asked(msgs) \subseteq msgs /\ c \notin Asked(msgs)
  BY DEF Asked
<1>2. IsFiniteSet(Asked(msgs)) /\ Cardinality(Asked(msgs)) \in Nat
  BY <1>1, FS_Subset, FS_CardinalityType
<1>3. User(c) => Asked(msgs \cup {c}) = Asked(msgs) \cup {c}
  BY DEF Asked
<1>4. ~User(c) => Asked(msgs \cup {c}) = Asked(msgs)
  BY DEF Asked
<1> QED
  BY <1>1, <1>2, <1>3, <1>4, FS_AddElement

LEMMA CallTypes ==
  ASSUME IntakeTypes, NEW c \in Callers
  PROVE  /\ \A stage \in Stages, st \in States :
              [call EXCEPT ![c] = [stage |-> stage, state |-> st]]
                \in [Callers -> [stage : Stages, state : States]]
         /\ \A stage \in Stages :
              /\ Goto(c, stage) => /\ call' \in [Callers -> [stage : Stages, state : States]]
                                   /\ call'[c].stage = stage
                                   /\ \A d \in Callers : d # c => call'[d] = call[d]
              /\ Leave(c, stage) => /\ call' \in [Callers -> [stage : Stages, state : States]]
                                    /\ call'[c].stage = stage
                                    /\ \A d \in Callers : d # c => call'[d] = call[d]
  BY FreshTypes DEF IntakeTypes, Goto, Leave, Enter

-----------------------------------------------------------------------------
(* The steps *)

(* A handler that ends, with its document saved or not, or is taken up.    *)
LEMMA HandlerMoves ==
  ASSUME IntakeInv, NEW c \in Callers,
         UNCHANGED <<session, rows, accepted, overlapped, restarts>>, enqueued' \subseteq Commissions,
         call' \in [Callers -> [stage : Stages, state : States]],
         \A d \in Callers : d # c => call'[d] = call[d],
         \/ /\ c \in Calls /\ AtWork(c) /\ call'[c].stage \in {"answered", "failed", "uncommitted"}
            /\ call[c].stage = "saved" => call'[c].stage = "uncommitted"
         \/ c \in Commissions /\ call'[c].stage \notin {"graph", "saving"}
  PROVE  IntakeInv'
<1>0. Calls \cap Commissions = {} /\ Calls \subseteq Callers /\ Commissions \subseteq Callers /\ None \notin Calls
  BY IntakeAssumption DEF Callers
<1>1. IntakeTypes'
  BY DEF IntakeInv, IntakeTypes
<1>2. \A d \in Calls : (AtWork(d))' => AtWork(d) /\ call'[d] = call[d]
  BY <1>0 DEF AtWork
<1>3. Docs' = Docs
  BY DEF Docs
<1>4. Tidy'
  BY <1>0, <1>2, <1>3 DEF IntakeInv, Tidy, AtWork
<1>5. NamedDocumentIsThere'
  BY <1>0 DEF IntakeInv, IntakeTypes, NamedDocumentIsThere, AtWork
<1>6. ASSUME ~overlapped PROVE OneAtWork' /\ Counted'
  <2>1. OneAtWork /\ Counted
    BY <1>6 DEF IntakeInv
  <2>2. \A d \in Calls : (AtWork(d))' <=> call'[d].stage \in {"graph", "saving", "saved"}
    BY DEF AtWork
  <2>3. OneAtWork'
    BY <1>2, <1>3, <2>1, <2>2 DEF OneAtWork
  <2> QED
    BY <2>1, <2>3 DEF Counted
<1> QED
  BY <1>1, <1>4, <1>5, <1>6 DEF IntakeInv

LEMMA CreateStep == ASSUME IntakeInv, CreateSession PROVE IntakeInv'
<1>1. /\ ~session.open /\ restarts = 0 /\ accepted' = {First}
      /\ UNCHANGED <<call, rows, enqueued, overlapped, restarts>>
  BY DEF CreateSession
<1>2. PICK st \in Analyses(Fresh) : session' = [open |-> TRUE, state |-> st, doc |-> None]
  BY DEF CreateSession
<1>3. st \in States /\ st.msgs = {First} /\ st.turns = 1
  BY FreshTypes, AnalysesKeep
<1>4. session'.open /\ session'.state = st /\ session'.doc = None
  BY <1>2
<1>5. IntakeTypes'
  <2>1. session' \in [open : BOOLEAN, state : States, doc : Calls \cup {None}]
    BY <1>2, <1>3
  <2> QED
    BY <1>1, <2>1 DEF IntakeInv, IntakeTypes, Messages
<1>6. Docs = {} /\ Docs' = Docs /\ \A c \in Calls : ~AtWork(c)
  BY <1>1 DEF IntakeInv, Tidy, Docs
<1>7. Tidy'
  <2>1. IsFiniteSet({First}) /\ First \notin Calls
    BY FS_Singleton, IntakeAssumption
  <2> QED
    BY <1>1, <1>4, <2>1 DEF IntakeInv, Tidy
<1>8. NamedDocumentIsThere'
  BY <1>4 DEF NamedDocumentIsThere
<1>9. OneAtWork'
  BY <1>1, <1>4, <1>6 DEF OneAtWork, AtWork
<1>10. Counted'
  <2>1. Asked({First}) = {First}
    BY DEF Asked, User
  <2>2. Cardinality({First}) = 1
    BY FS_Singleton
  <2> QED
    BY <1>1, <1>3, <1>4, <2>1, <2>2 DEF Counted
<1> QED
  BY <1>5, <1>7, <1>8, <1>9, <1>10 DEF IntakeInv

(* The stages a message's handler enters once its session is as it stays.  *)
LEMMA Concluded ==
  ASSUME IntakeTypes, NEW c \in Calls, NEW s, s.state \in States, Conclude(c, s)
  PROVE  /\ call' \in [Callers -> [stage : Stages, state : States]]
         /\ \A d \in Callers : d # c => call'[d] = call[d]
         /\ call'[c].stage \in {"saving", "answered"}
         /\ call'[c].stage = "saving" => s.doc = None
  BY CallTypes, FreshTypes DEF Conclude, MustSave, Enter, IntakeTypes, Callers, Stages

LEMMA AddMessageStep ==
  ASSUME IntakeInv, NEW c \in Calls, AddMessage(c)
  PROVE  IntakeInv'
<1>. DEFINE appended == [session.state EXCEPT !.msgs = @ \cup {c}]
            counted == [appended EXCEPT !.turns = @ + 1]
<1>0. /\ IntakeTypes /\ Tidy /\ session.state \in States /\ c \in Callers
      /\ Calls \cap Commissions = {} /\ None \notin Calls /\ Calls \subseteq Callers
  BY IntakeAssumption DEF IntakeInv, IntakeTypes, Callers
<1>1. /\ call[c].stage = "idle" /\ session.open /\ accepted' = accepted \cup {c}
      /\ overlapped' = (overlapped \/ \E d \in Calls : AtWork(d))
      /\ UNCHANGED <<rows, enqueued, restarts>>
  BY DEF AddMessage
<1>2. PICK n \in States :
        /\ session' = [session EXCEPT !.state = n]
        /\ n.msgs = session.state.msgs \cup {c} /\ n.complete = session.state.complete
        /\ \/ /\ User(c) /\ ~n.complete /\ n.turns = session.state.turns + 1
              /\ call' = [call EXCEPT ![c] = [stage |-> "graph", state |-> n]]
           \/ /\ (~User(c) \/ n.complete) /\ n.turns = session.state.turns
              /\ Conclude(c, [session EXCEPT !.state = n])
  <2>1. /\ appended \in States /\ appended.msgs = session.state.msgs \cup {c}
        /\ appended.turns = session.state.turns /\ appended.complete = session.state.complete
        /\ counted \in States /\ counted.msgs = session.state.msgs \cup {c}
        /\ counted.turns = session.state.turns + 1 /\ counted.complete = session.state.complete
    BY <1>0, Appended
  <2>2. IF User(c) /\ ~appended.complete
        THEN /\ session' = [session EXCEPT !.state = counted]
             /\ call' = [call EXCEPT ![c] = [stage |-> "graph", state |-> counted]]
        ELSE /\ session' = [session EXCEPT !.state = appended]
             /\ Conclude(c, [session EXCEPT !.state = appended])
    BY DEF AddMessage
  <2>. HIDE DEF appended, counted
  <2> QED
    BY <2>1, <2>2
<1>. HIDE DEF appended, counted
<1>n. n.msgs = session.state.msgs \cup {c} /\ n.complete = session.state.complete /\ n.turns \in Nat
  BY <1>2 DEF States
<1>3. /\ session'.open /\ session'.doc = session.doc /\ session'.state = n
      /\ session' \in [open : BOOLEAN, state : States, doc : Calls \cup {None}]
  BY <1>0, <1>1, <1>2 DEF IntakeTypes
<1>4. /\ call' \in [Callers -> [stage : Stages, state : States]]
      /\ \A d \in Callers : d # c => call'[d] = call[d]
      /\ \/ call'[c].stage = "graph" /\ call'[c].state = n /\ User(c) /\ ~n.complete /\ n.turns = session.state.turns + 1
         \/ /\ ~User(c) \/ n.complete
            /\ n.turns = session.state.turns
            /\ call'[c].stage \in {"saving", "answered"}
            /\ call'[c].stage = "saving" => session.doc = None
  <2>1. CASE call' = [call EXCEPT ![c] = [stage |-> "graph", state |-> n]]
             /\ User(c) /\ ~n.complete /\ n.turns = session.state.turns + 1
    BY <1>0, <2>1 DEF IntakeTypes, Stages
  <2>2. CASE Conclude(c, [session EXCEPT !.state = n]) /\ (~User(c) \/ n.complete) /\ n.turns = session.state.turns
    <3>1. [session EXCEPT !.state = n].state \in States /\ [session EXCEPT !.state = n].doc = session.doc
      BY <1>0 DEF IntakeTypes
    <3> QED
      BY <1>0, <2>2, <3>1, Concluded
  <2> QED
    BY <1>2, <2>1, <2>2
<1>5. IntakeTypes'
  BY <1>0, <1>1, <1>3, <1>4 DEF IntakeTypes, Messages
<1>6. Docs' = Docs
  BY <1>1 DEF Docs
<1>7. Tidy'
  <2>1. IsFiniteSet(accepted \cup {c})
    BY <1>0, FS_AddElement DEF Tidy
  <2>2. call'[c].stage # "idle"
    BY <1>4
  <2>3. \A d \in Commissions : call'[d].stage \notin {"graph", "saving"}
    BY <1>0, <1>4 DEF Tidy, Callers
  <2>4. \A d \in Calls : d \in accepted' => call'[d].stage # "idle"
    BY <1>0, <1>1, <1>4, <2>2 DEF Tidy
  <2> QED
    BY <1>1, <1>3, <2>1, <2>3, <2>4 DEF Tidy
<1>8. NamedDocumentIsThere'
  BY <1>0, <1>1, <1>3, <1>4 DEF IntakeInv, IntakeTypes, NamedDocumentIsThere
<1>9. ASSUME ~overlapped' PROVE OneAtWork' /\ Counted'
  <2>1. ~overlapped /\ OneAtWork /\ Counted /\ \A d \in Calls : ~AtWork(d)
    BY <1>1, <1>9 DEF IntakeInv
  <2>2. \A d \in Calls : d # c => call'[d].stage \notin {"graph", "saving", "saved"}
    BY <1>0, <1>4, <2>1 DEF AtWork
  <2>3. OneAtWork'
    BY <1>2, <1>3, <1>4, <1>6, <2>1, <2>2 DEF OneAtWork, AtWork
  <2>4. /\ c \notin accepted /\ IsFiniteSet(accepted) /\ session.state.msgs = accepted
        /\ session.state.turns <= Cardinality(Asked(accepted)) /\ session.state.turns \in Nat
        /\ ~session.state.complete => session.state.turns = Cardinality(Asked(accepted))
    BY <1>0, <1>1, <2>1 DEF Tidy, Counted, States
  <2>5. /\ Cardinality(Asked(accepted)) \in Nat
        /\ User(c) => Cardinality(Asked(accepted \cup {c})) = Cardinality(Asked(accepted)) + 1
        /\ ~User(c) => Asked(accepted \cup {c}) = Asked(accepted)
    BY <2>4, AskedGrows
  <2>6. n.msgs = accepted \cup {c} /\ n.complete = session.state.complete
    BY <1>n, <2>4
  <2>7. /\ n.turns <= Cardinality(Asked(accepted \cup {c}))
        /\ ~n.complete => n.turns = Cardinality(Asked(accepted \cup {c}))
    <3>1. \/ User(c) /\ ~n.complete /\ n.turns = session.state.turns + 1
          \/ (~User(c) \/ n.complete) /\ n.turns = session.state.turns
      BY <1>4
    <3>2. CASE User(c)
      BY <2>4, <2>5, <2>6, <3>1, <3>2
    <3>3. CASE ~User(c)
      BY <2>4, <2>5, <2>6, <3>1, <3>3
    <3> QED
      BY <3>2, <3>3
  <2>8. Counted'
    BY <1>1, <1>3, <2>6, <2>7 DEF Counted
  <2> QED
    BY <2>3, <2>8
<1> QED
  BY <1>5, <1>7, <1>8, <1>9 DEF IntakeInv

LEMMA GraphReturnsStep ==
  ASSUME IntakeInv, NEW c \in Calls, GraphReturns(c)
  PROVE  IntakeInv'
<1>0. /\ IntakeTypes /\ Tidy /\ c \in Callers /\ call[c].state \in States
      /\ Calls \cap Commissions = {} /\ None \notin Calls /\ Calls \subseteq Callers
  BY IntakeAssumption DEF IntakeInv, IntakeTypes, Callers
<1>1. call[c].stage = "graph" /\ UNCHANGED <<rows, enqueued, accepted, overlapped, restarts>>
  BY DEF GraphReturns
<1>2. PICK st \in Analyses(call[c].state) :
        session' = [session EXCEPT !.state = st] /\ Conclude(c, [session EXCEPT !.state = st])
  BY DEF GraphReturns
<1>3. st \in States /\ st.msgs = call[c].state.msgs /\ st.turns = call[c].state.turns
  BY <1>0, AnalysesKeep
<1>4. /\ session'.open = session.open /\ session'.doc = session.doc /\ session'.state = st
      /\ session' \in [open : BOOLEAN, state : States, doc : Calls \cup {None}]
      /\ session.open
  BY <1>0, <1>1, <1>2, <1>3 DEF IntakeTypes, Tidy, AtWork
<1>5. /\ call' \in [Callers -> [stage : Stages, state : States]]
      /\ \A d \in Callers : d # c => call'[d] = call[d]
      /\ call'[c].stage \in {"saving", "answered"}
      /\ call'[c].stage = "saving" => session.doc = None
  <2>1. [session EXCEPT !.state = st].state \in States /\ [session EXCEPT !.state = st].doc = session.doc
    BY <1>0, <1>3 DEF IntakeTypes
  <2> QED
    BY <1>0, <1>2, <2>1, Concluded
<1>6. IntakeTypes'
  BY <1>0, <1>1, <1>4, <1>5 DEF IntakeTypes
<1>7. Docs' = Docs
  BY <1>1 DEF Docs
<1>8. Tidy'
  <2>1. \A d \in Commissions : call'[d].stage \notin {"graph", "saving"}
    BY <1>0, <1>5 DEF Tidy, Callers
  <2>2. \A d \in Calls : d \in accepted => call'[d].stage # "idle"
    BY <1>0, <1>5 DEF Tidy
  <2> QED
    BY <1>0, <1>1, <1>4, <2>1, <2>2 DEF Tidy
<1>9. NamedDocumentIsThere'
  BY <1>0, <1>1, <1>4, <1>5 DEF IntakeInv, IntakeTypes, NamedDocumentIsThere
<1>10. ASSUME ~overlapped' PROVE OneAtWork' /\ Counted'
  <2>1. OneAtWork /\ Counted
    BY <1>1, <1>10 DEF IntakeInv
  <2>2. /\ \A d \in Calls : d # c => ~AtWork(d)
        /\ st.msgs = session.state.msgs /\ st.turns = session.state.turns /\ ~session.state.complete
    BY <1>1, <1>3, <2>1 DEF OneAtWork, AtWork
  <2>3. \A d \in Calls : d # c => call'[d].stage \notin {"graph", "saving", "saved"}
    BY <1>0, <1>5, <2>2 DEF AtWork
  <2>4. OneAtWork'
    BY <1>4, <1>5, <1>7, <2>1, <2>3 DEF OneAtWork, AtWork
  <2>5. Counted'
    BY <1>1, <1>4, <2>1, <2>2 DEF Counted
  <2> QED
    BY <2>4, <2>5
<1> QED
  BY <1>6, <1>8, <1>9, <1>10 DEF IntakeInv

LEMMA SaveDocumentStep ==
  ASSUME IntakeInv, NEW c \in Callers, SaveDocument(c)
  PROVE  IntakeInv'
<1>0. /\ IntakeTypes /\ Tidy
      /\ Calls \cap Commissions = {} /\ None \notin Calls /\ Calls \subseteq Callers
  BY IntakeAssumption DEF IntakeInv, Callers
<1>1. call[c].stage = "saving" /\ UNCHANGED <<rows, enqueued, accepted, overlapped, restarts>>
  BY DEF SaveDocument
<1>2. c \in Calls
  BY <1>0, <1>1 DEF Tidy, Callers
<1>3. CASE session' = [session EXCEPT !.doc = c] /\ Goto(c, "saved")
  <2>1. /\ session'.open = session.open /\ session'.doc = c /\ session'.state = session.state /\ session.open
        /\ session' \in [open : BOOLEAN, state : States, doc : Calls \cup {None}]
    BY <1>0, <1>1, <1>2, <1>3 DEF IntakeTypes, Tidy, AtWork
  <2>2. /\ call' \in [Callers -> [stage : Stages, state : States]] /\ call'[c].stage = "saved"
        /\ \A d \in Callers : d # c => call'[d] = call[d]
    BY <1>0, <1>3, CallTypes DEF Stages
  <2>3. IntakeTypes'
    BY <1>0, <1>1, <2>1, <2>2 DEF IntakeTypes
  <2>4. Docs' = Docs
    BY <1>1 DEF Docs
  <2>5. Tidy'
    <3>1. \A d \in Commissions : call'[d].stage \notin {"graph", "saving"}
      BY <1>0, <1>2, <2>2 DEF Tidy, Callers
    <3>2. \A d \in Calls : d \in accepted => call'[d].stage # "idle"
      BY <1>0, <2>2 DEF Tidy
    <3> QED
      BY <1>0, <1>1, <2>1, <3>1, <3>2 DEF Tidy
  <2>6. NamedDocumentIsThere'
    BY <2>1, <2>2 DEF NamedDocumentIsThere
  <2>7. ASSUME ~overlapped' PROVE OneAtWork' /\ Counted'
    <3>1. OneAtWork /\ Counted
      BY <1>1, <2>7 DEF IntakeInv
    <3>2. Docs = {} /\ \A d \in Calls : d # c => ~AtWork(d)
      BY <1>1, <1>2, <2>1, <3>1 DEF OneAtWork, AtWork
    <3>3. \A d \in Calls : d # c => call'[d].stage \notin {"graph", "saving", "saved"}
      BY <1>0, <2>2, <3>2 DEF AtWork
    <3>4. OneAtWork'
      BY <1>2, <2>1, <2>2, <2>4, <3>2, <3>3 DEF OneAtWork, AtWork
    <3>5. Counted'
      BY <1>1, <2>1, <3>1 DEF Counted
    <3> QED
      BY <3>4, <3>5
  <2> QED
    BY <2>3, <2>5, <2>6, <2>7 DEF IntakeInv
<1>4. CASE Leave(c, "failed") /\ UNCHANGED session
  <2>1. /\ call' \in [Callers -> [stage : Stages, state : States]] /\ call'[c].stage = "failed"
        /\ \A d \in Callers : d # c => call'[d] = call[d]
    BY <1>0, <1>4, CallTypes DEF Stages
  <2> QED
    BY <1>0, <1>1, <1>2, <1>4, <2>1, HandlerMoves DEF AtWork, IntakeTypes
<1> QED
  BY <1>3, <1>4 DEF SaveDocument

LEMMA CommitStep ==
  ASSUME IntakeInv, NEW c \in Calls, Commit(c)
  PROVE  IntakeInv'
<1>0. /\ IntakeTypes /\ Tidy /\ c \in Callers
      /\ Calls \cap Commissions = {} /\ None \notin Calls /\ Calls \subseteq Callers
  BY IntakeAssumption DEF IntakeInv, Callers
<1>. DEFINE row == [by |-> c, doc |-> FromState(call[c].state)]
<1>1. /\ call[c].stage = "saved" /\ rows' = rows \cup {row} /\ row.by = c
      /\ UNCHANGED <<session, enqueued, accepted, overlapped, restarts>>
  BY DEF Commit
<1>. HIDE DEF row
<1>2. /\ call' \in [Callers -> [stage : Stages, state : States]] /\ call'[c].stage = "answered"
      /\ \A d \in Callers : d # c => call'[d] = call[d]
  BY <1>0, CallTypes DEF Commit, Stages
<1>3. Docs' = Docs \cup {row}
  BY <1>1 DEF Docs
<1>4. IntakeTypes'
  BY <1>0, <1>1, <1>2 DEF IntakeTypes
<1>5. session.open
  BY <1>0, <1>1 DEF Tidy, AtWork
<1>6. Tidy'
  <2>1. \A d \in Commissions : call'[d].stage \notin {"graph", "saving"}
    BY <1>0, <1>2 DEF Tidy, Callers
  <2>2. \A d \in Calls : d \in accepted => call'[d].stage # "idle"
    BY <1>0, <1>2 DEF Tidy
  <2> QED
    BY <1>0, <1>1, <1>5, <2>1, <2>2 DEF Tidy
<1>7. NamedDocumentIsThere'
  <2>1. CASE session.doc = c
    BY <1>1, <2>1 DEF NamedDocumentIsThere
  <2>2. CASE session.doc # c
    BY <1>0, <1>1, <1>2, <2>2 DEF IntakeInv, IntakeTypes, NamedDocumentIsThere
  <2> QED
    BY <2>1, <2>2
<1>8. ASSUME ~overlapped' PROVE OneAtWork' /\ Counted'
  <2>1. OneAtWork /\ Counted
    BY <1>1, <1>8 DEF IntakeInv
  <2>2. Docs = {} /\ session.doc = c /\ \A d \in Calls : d # c => ~AtWork(d)
    BY <1>1, <2>1 DEF OneAtWork, AtWork
  <2>3. \A d \in Calls : call'[d].stage \notin {"graph", "saving", "saved"}
    BY <1>0, <1>2, <2>2 DEF AtWork
  <2>4. OneAtWork'
    BY <1>0, <1>1, <1>3, <2>2, <2>3 DEF OneAtWork, AtWork
  <2> QED
    BY <1>1, <2>1, <2>4 DEF Counted
<1> QED
  BY <1>4, <1>6, <1>7, <1>8 DEF IntakeInv

LEMMA CommitCommissionStep ==
  ASSUME IntakeInv, NEW c \in Commissions, CommitCommission(c)
  PROVE  IntakeInv'
<1>0. /\ IntakeTypes /\ Tidy /\ c \in Callers
      /\ Calls \cap Commissions = {} /\ None \notin Calls /\ Calls \subseteq Callers
  BY IntakeAssumption DEF IntakeInv, Callers
<1>. DEFINE row == [by |-> c, doc |-> FromText(call[c].state.msgs)]
<1>1. /\ rows' = rows \cup {row} /\ row.by = c
      /\ UNCHANGED <<session, enqueued, accepted, overlapped, restarts>>
  BY DEF CommitCommission
<1>. HIDE DEF row
<1>2. /\ call' \in [Callers -> [stage : Stages, state : States]] /\ call'[c].stage = "answered"
      /\ \A d \in Callers : d # c => call'[d] = call[d]
  BY <1>0, CallTypes DEF CommitCommission, Stages
<1>3. Docs' = Docs /\ \A d \in Calls : call'[d] = call[d]
  BY <1>0, <1>1, <1>2 DEF Docs
<1>4. IntakeTypes'
  BY <1>0, <1>1, <1>2 DEF IntakeTypes
<1>5. Tidy'
  BY <1>0, <1>1, <1>2, <1>3 DEF Tidy, AtWork, Callers
<1>6. NamedDocumentIsThere'
  BY <1>0, <1>1, <1>3 DEF IntakeInv, IntakeTypes, NamedDocumentIsThere
<1>7. ASSUME ~overlapped' PROVE OneAtWork' /\ Counted'
  BY <1>1, <1>3, <1>7 DEF IntakeInv, OneAtWork, Counted, AtWork
<1> QED
  BY <1>4, <1>5, <1>6, <1>7 DEF IntakeInv

LEMMA RestartStep == ASSUME IntakeInv, Restart PROVE IntakeInv'
<1>0. IntakeTypes /\ Tidy /\ Calls \subseteq Callers /\ Commissions \subseteq Callers /\ MaxRestarts \in Nat
  BY IntakeAssumption DEF IntakeInv, Callers
<1>1. /\ restarts < MaxRestarts /\ restarts' = restarts + 1 /\ session' = Closed /\ accepted' = {}
      /\ call' = [c \in Callers |-> IF call[c].stage \in {"graph", "saving", "saved"}
                                    THEN Enter("failed") ELSE call[c]]
      /\ UNCHANGED <<rows, enqueued, overlapped>>
  BY DEF Restart, Callers
<1>2. /\ call' \in [Callers -> [stage : Stages, state : States]]
      /\ \A c \in Callers : call'[c].stage \notin {"graph", "saving", "saved"}
      /\ \A c \in Callers : call[c].stage # "idle" => call'[c].stage # "idle"
  <2>1. Enter("failed") \in [stage : Stages, state : States] /\ Enter("failed").stage = "failed"
    BY FreshTypes DEF Enter, Stages
  <2>. HIDE DEF Enter
  <2> QED
    BY <1>0, <1>1, <2>1 DEF IntakeTypes
<1>3. ~session'.open /\ session'.doc = None
      /\ session' \in [open : BOOLEAN, state : States, doc : Calls \cup {None}]
  BY <1>1, FreshTypes DEF Closed
<1>4. restarts' \in 0..MaxRestarts /\ restarts' # 0
  BY <1>0, <1>1 DEF IntakeTypes
<1>5. IntakeTypes'
  BY <1>0, <1>1, <1>2, <1>3, <1>4 DEF IntakeTypes
<1>6. Tidy'
  BY <1>0, <1>1, <1>2, <1>3, <1>4, FS_EmptySet DEF Tidy, AtWork
<1>7. NamedDocumentIsThere'
  BY <1>3 DEF NamedDocumentIsThere
<1>8. ASSUME ~overlapped' PROVE OneAtWork' /\ Counted'
  <2>1. Docs' = Docs /\ OneAtWork
    BY <1>1, <1>8 DEF Docs, IntakeInv
  <2> QED
    BY <1>0, <1>2, <1>3, <2>1 DEF OneAtWork, Counted, AtWork
<1> QED
  BY <1>5, <1>6, <1>7, <1>8 DEF IntakeInv

LEMMA StepInv ==
  ASSUME IntakeInv, [Next]_vars
  PROVE  IntakeInv'
<1>0. Calls \subseteq Callers /\ Commissions \subseteq Callers /\ Calls \cap Commissions = {}
  BY IntakeAssumption DEF Callers
<1>1. CASE CreateSession
  BY <1>1, CreateStep
<1>2. CASE Restart
  BY <1>2, RestartStep
<1>3. ASSUME NEW c \in Calls, AddMessage(c) PROVE IntakeInv'
  BY <1>3, AddMessageStep
<1>4. ASSUME NEW c \in Commissions, Commission(c) PROVE IntakeInv'
  <2>1. /\ UNCHANGED <<session, rows, accepted, overlapped, restarts>> /\ enqueued' = enqueued \cup {c}
        /\ call' = [call EXCEPT ![c] = [stage |-> "saved", state |-> [Fresh EXCEPT !.msgs = session.state.msgs]]]
    BY <1>4 DEF Commission
  <2>2. [Fresh EXCEPT !.msgs = session.state.msgs] \in States
    <3>1. session.state.msgs \in SUBSET Messages
      BY DEF IntakeInv, IntakeTypes, States
    <3> QED
      BY <3>1, FreshTypes DEF States
  <2>3. /\ call' \in [Callers -> [stage : Stages, state : States]] /\ call'[c].stage = "saved"
        /\ \A d \in Callers : d # c => call'[d] = call[d]
    BY <1>0, <2>1, <2>2 DEF IntakeInv, IntakeTypes, Stages
  <2> QED
    BY <1>0, <2>1, <2>3, HandlerMoves DEF IntakeInv, IntakeTypes
<1>5. ASSUME NEW c \in Callers, GraphRaises(c) \/ CommitFails(c) PROVE IntakeInv'
  <2>1. /\ UNCHANGED <<session, rows, enqueued, accepted, overlapped, restarts>>
        /\ \/ call[c].stage = "graph" /\ Leave(c, "failed")
           \/ call[c].stage = "saved" /\ Leave(c, "uncommitted")
    BY <1>5 DEF GraphRaises, CommitFails
  <2>2. /\ call' \in [Callers -> [stage : Stages, state : States]]
        /\ \A d \in Callers : d # c => call'[d] = call[d]
        /\ call'[c].stage \in {"failed", "uncommitted"}
        /\ call[c].stage = "saved" => call'[c].stage = "uncommitted"
    BY <2>1, CallTypes DEF IntakeInv, Stages
  <2>3. enqueued' \subseteq Commissions
    BY <2>1 DEF IntakeInv, IntakeTypes
  <2> QED
    BY <1>0, <2>1, <2>2, <2>3, HandlerMoves DEF AtWork, Callers
<1>6. ASSUME NEW c \in Callers, GraphReturns(c) PROVE IntakeInv'
  <2>1. c \in Calls
    BY <1>6 DEF GraphReturns, IntakeInv, Tidy, Callers
  <2> QED
    BY <1>6, <2>1, GraphReturnsStep
<1>7. ASSUME NEW c \in Callers, SaveDocument(c) PROVE IntakeInv'
  BY <1>7, SaveDocumentStep
<1>8. ASSUME NEW c \in Callers, Commit(c) PROVE IntakeInv'
  BY <1>8, CommitStep DEF Commit
<1>9. ASSUME NEW c \in Callers, CommitCommission(c) PROVE IntakeInv'
  BY <1>9, CommitCommissionStep DEF CommitCommission
<1>10. CASE UNCHANGED vars
  BY <1>10 DEF vars, IntakeInv, IntakeTypes, Tidy, OneAtWork, Counted, NamedDocumentIsThere, Docs, AtWork
<1> QED
  BY <1>1, <1>2, <1>3, <1>4, <1>5, <1>6, <1>7, <1>8, <1>9, <1>10 DEF Next, Step, Callers

(* The invariant of an intake: its types, one handler at work on one copy  *)
(* of the state, and turns that count the user's messages, until two       *)
(* messages are handled at once (analyst.py:80-110).                       *)
THEOREM IntakeInvariant == Spec => []IntakeInv
<1>1. Init => IntakeInv
  <2>. SUFFICES ASSUME Init PROVE IntakeInv
    OBVIOUS
  <2>1. /\ session = Closed /\ call = [c \in Callers |-> Enter("idle")] /\ rows = {} /\ enqueued = {}
        /\ accepted = {} /\ overlapped = FALSE /\ restarts = 0
    BY DEF Init, Callers
  <2>2. /\ session \in [open : BOOLEAN, state : States, doc : Calls \cup {None}]
        /\ ~session.open /\ session.doc = None
    BY <2>1, FreshTypes DEF Closed
  <2>3. /\ call \in [Callers -> [stage : Stages, state : States]]
        /\ \A c \in Callers : call[c].stage = "idle"
    BY <2>1, FreshTypes DEF Enter, Stages
  <2>4. IntakeTypes
    <3>1. 0 \in 0..MaxRestarts
      BY IntakeAssumption
    <3> QED
      BY <2>1, <2>2, <2>3, <3>1 DEF IntakeTypes
  <2>5. Tidy
    BY <2>1, <2>2, <2>3, FS_EmptySet DEF Tidy, Docs, AtWork, Callers
  <2>6. OneAtWork /\ Counted /\ NamedDocumentIsThere
    BY <2>1, <2>2, <2>3 DEF OneAtWork, Counted, NamedDocumentIsThere, Docs, AtWork, Callers
  <2> QED
    BY <2>4, <2>5, <2>6 DEF IntakeInv
<1> QED
  BY <1>1, StepInv, PTL DEF Spec

(* While no two messages are handled at once, no message is lost and each  *)
(* user's message counts as a turn until the intake is complete, even if   *)
(* its models raised (conversation.py:99-106).                             *)
THEOREM IntakeSerialLosesNothing == Spec => []SerialLosesNothing
<1>1. IntakeInv => SerialLosesNothing
  BY DEF IntakeInv, Counted, SerialLosesNothing, Asked
<1> QED
  BY <1>1, IntakeInvariant, PTL

(* A session gets a second document only if two messages were handled at   *)
(* once (analyst.py:93-100).                                               *)
THEOREM IntakeOneDocument == Spec => []OneDocument
<1>1. IntakeInv => OneDocument
  <2>. SUFFICES ASSUME OneAtWork PROVE Cardinality(Docs) <= 1
    BY DEF IntakeInv, OneDocument, Docs
  <2>1. CASE Docs = {}
    BY <2>1, FS_EmptySet
  <2>2. CASE Docs # {}
    <3>1. PICK r \in Docs : Docs = {r}
      BY <2>2 DEF OneAtWork
    <3> QED
      BY <3>1, FS_Singleton
  <2> QED
    BY <2>1, <2>2
<1> QED
  BY <1>1, IntakeInvariant, PTL

(* The document a session names is committed, or its own handler has still *)
(* to commit it or could not, also when messages overlap (analyst.py:98).  *)
THEOREM IntakeNamedDocumentIsThere == Spec => []NamedDocumentIsThere
<1>1. IntakeInv => NamedDocumentIsThere
  BY DEF IntakeInv
<1> QED
  BY <1>1, IntakeInvariant, PTL

(* Every variable of an intake keeps its type: a commission never writes   *)
(* the session, and only handlers of messages get a document named.        *)
THEOREM IntakeTypeOK == Spec => []TypeOK
<1>1. IntakeInv => TypeOK
  BY DEF IntakeInv, IntakeTypes, TypeOK, Callers, Stages
<1> QED
  BY <1>1, IntakeInvariant, PTL
=============================================================================
