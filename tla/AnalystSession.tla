----------------------------- MODULE AnalystSession -----------------------------
(***************************************************************************)
(* The intake conversation with the analyst: a session kept in the memory  *)
(* of one API process, the graph that a message runs through, and the      *)
(* requirements document and the commission that come out of it.  Handlers *)
(* interleave wherever they await a model or the database.                 *)
(***************************************************************************)
EXTENDS Naturals, FiniteSets

CONSTANTS
  Calls,        \* calls of the message endpoint, each with a message of its own
  Commissions,  \* calls of the commission endpoint
  First,        \* the message that opens the session
  Says,         \* the keywords in each message
  Roles,        \* the role each call gives its message
  Readings,     \* what a model may read in the messages: [type, risk, tools]
  Scores,       \* completeness scores a model may give, in percent
  TurnLimit,    \* the turn at which an intake times out (10 in the code)
  MaxRestarts,  \* bound on restarts of the process
  None          \* no document

Messages == Calls \cup {First}
User(m) == m = First \/ (m \in Calls /\ Roles[m] = "user")

ASSUME IntakeAssumption ==
  /\ TurnLimit \in Nat \ {0} /\ MaxRestarts \in Nat
  /\ Scores \subseteq 0..100
  /\ First \notin Calls /\ None \notin Calls \cup Commissions /\ Calls \cap Commissions = {}

VARIABLES
  session,    \* the entry of _SESSIONS: [open, state, doc]
  call,       \* each call: [stage, state], the state being its graph's copy
  rows,       \* requirements documents that are committed: [by, doc]
  enqueued,   \* commissions whose pipeline task was sent
  accepted,   \* history: messages appended to the session
  overlapped, \* history: two message handlers were at work at once
  restarts

vars == <<session, call, rows, enqueued, accepted, overlapped, restarts>>

-----------------------------------------------------------------------------
(* The graph *)

NoTools == {}

Fresh == [msgs |-> {First}, turns |-> 1, complete |-> FALSE, timed |-> FALSE,
          type |-> "legal_intake_associate", risk |-> "medium", tools |-> NoTools]

(* The completeness checker.                                               *)
Check(st, score) ==
  IF st.turns >= TurnLimit THEN [st EXCEPT !.complete = FALSE, !.timed = TRUE]
  ELSE [st EXCEPT !.complete = score >= 85]

(* An empty extraction keeps what earlier turns extracted.                 *)
Merge(old, new) == IF new = NoTools THEN old ELSE new

(* The states the graph may return for this one.                           *)
Analyses(st) ==
  UNION {{Check([st EXCEPT !.type = r.type, !.risk = r.risk, !.tools = Merge(@, r.tools)], score) :
            score \in Scores} : r \in Readings}

-----------------------------------------------------------------------------
(* The requirements document *)

Words(msgs) == UNION {Says[m] : m \in {m \in msgs : User(m)}}

InferType(words) ==
  IF words \cap {"calendar", "meeting", "executive", "follow-up", "inbox"} # {}
  THEN "executive_assistant" ELSE "legal_intake_associate"

InferRisk(words) ==
  IF words \cap {"wire transfer", "financial approval", "legal advice", "medical"} # {} THEN "high"
  ELSE IF words \cap {"contract", "client intake"} # {} THEN "medium" ELSE "low"

InferTools(words, type) ==
  {"email"}
    \cup (IF type = "executive_assistant" \/ "calendar" \in words THEN {"calendar"} ELSE {})
    \cup (IF words \cap {"slack", "teams", "message"} # {} THEN {"slack"} ELSE {})
    \cup (IF words \cap {"crm", "client record", "salesforce", "hubspot"} # {} THEN {"crm"} ELSE {})

(* build_requirements: from the text alone.                                *)
FromText(msgs) ==
  LET type == InferType(Words(msgs)) IN
    [msgs |-> {m \in msgs : User(m)}, type |-> type, risk |-> InferRisk(Words(msgs)),
     tools |-> InferTools(Words(msgs), type)]

(* build_requirements_from_state: what the models read, where they did.    *)
FromState(st) ==
  [msgs |-> {m \in st.msgs : User(m)}, type |-> st.type, risk |-> st.risk,
   tools |-> IF st.tools = NoTools THEN InferTools(Words(st.msgs), st.type) ELSE st.tools]

-----------------------------------------------------------------------------
Closed == [open |-> FALSE, state |-> Fresh, doc |-> None]

Enter(stage) == [stage |-> stage, state |-> Fresh]

Init ==
  /\ session = Closed
  /\ call = [c \in Calls \cup Commissions |-> Enter("idle")]
  /\ rows = {}
  /\ enqueued = {}
  /\ accepted = {}
  /\ overlapped = FALSE
  /\ restarts = 0

(* create_session: the session is there once its graph has returned.       *)
CreateSession ==
  /\ ~session.open /\ restarts = 0
  /\ \E st \in Analyses(Fresh) : session' = [open |-> TRUE, state |-> st, doc |-> None]
  /\ accepted' = {First}
  /\ UNCHANGED <<call, rows, enqueued, overlapped, restarts>>

Goto(c, stage) == call' = [call EXCEPT ![c].stage = stage]
Leave(c, stage) == call' = [call EXCEPT ![c] = Enter(stage)]

AtWork(c) == call[c].stage \in {"graph", "saving", "saved"}

(* Mutation of MustSave: the session's document is not looked at.          *)
MustSave_Again(s) == s.state.complete

(* A complete session gets a document, unless it has one.                  *)
MustSave(s) == s.state.complete /\ s.doc = None

(* Mutation of Conclude: the handler waits in a stage that no one leaves.  *)
Conclude_Stuck(c, s) ==
  call' = [call EXCEPT ![c] = IF MustSave(s) THEN [stage |-> "complete", state |-> s.state]
                              ELSE Enter("answered")]

(* After append_message: save the document, or answer.  No await lies      *)
(* between the graph's result and the document made of it.                 *)
Conclude(c, s) ==
  call' = [call EXCEPT ![c] = IF MustSave(s) THEN [stage |-> "saving", state |-> s.state]
                              ELSE Enter("answered")]

(* Mutation of AddMessage: the turn is not counted.                        *)
AddMessage_Uncounted(c) ==
  /\ c \in Calls /\ call[c].stage = "idle" /\ session.open
  /\ LET appended == [session.state EXCEPT !.msgs = @ \cup {c}] IN
       /\ session' = [session EXCEPT !.state = appended]
       /\ IF User(c) /\ ~appended.complete
          THEN call' = [call EXCEPT ![c] = [stage |-> "graph", state |-> appended]]
          ELSE Conclude(c, [session EXCEPT !.state = appended])
  /\ accepted' = accepted \cup {c}
  /\ overlapped' = (overlapped \/ \E d \in Calls : AtWork(d))
  /\ UNCHANGED <<rows, enqueued, restarts>>

(* add_message: the message is appended; a user's message to an unfinished *)
(* intake runs the graph on a copy of the state.                           *)
AddMessage(c) ==
  /\ c \in Calls /\ call[c].stage = "idle" /\ session.open
  /\ LET appended == [session.state EXCEPT !.msgs = @ \cup {c}]
         counted == [appended EXCEPT !.turns = @ + 1]
     IN  IF User(c) /\ ~appended.complete
         THEN /\ session' = [session EXCEPT !.state = counted]
              /\ call' = [call EXCEPT ![c] = [stage |-> "graph", state |-> counted]]
         ELSE /\ session' = [session EXCEPT !.state = appended]
              /\ Conclude(c, [session EXCEPT !.state = appended])
  /\ accepted' = accepted \cup {c}
  /\ overlapped' = (overlapped \/ \E d \in Calls : AtWork(d))
  /\ UNCHANGED <<rows, enqueued, restarts>>

(* The graph's result replaces the state, whatever it is by now.           *)
GraphReturns(c) ==
  /\ call[c].stage = "graph"
  /\ \E st \in Analyses(call[c].state) :
       LET s == [session EXCEPT !.state = st] IN session' = s /\ Conclude(c, s)
  /\ UNCHANGED <<rows, enqueued, accepted, overlapped, restarts>>

(* A model call raises: the message and its turn stay.                     *)
GraphRaises(c) ==
  /\ call[c].stage = "graph"
  /\ Leave(c, "failed")
  /\ UNCHANGED <<session, rows, enqueued, accepted, overlapped, restarts>>

(* Mutation of SaveDocument: the session names it before it is flushed.    *)
SaveDocument_NamedFirst(c) ==
  /\ call[c].stage = "saving"
  /\ session' = [session EXCEPT !.doc = c]
  /\ \E stage \in {"saved", "failed"} : Goto(c, stage)
  /\ UNCHANGED <<rows, enqueued, accepted, overlapped, restarts>>

(* save_requirements flushes the document, then the session names it.      *)
SaveDocument(c) ==
  /\ call[c].stage = "saving"
  /\ \/ session' = [session EXCEPT !.doc = c] /\ Goto(c, "saved")
     \/ Leave(c, "failed") /\ UNCHANGED session
  /\ UNCHANGED <<rows, enqueued, accepted, overlapped, restarts>>

(* The handler has returned; get_db_session commits.                       *)
Commit(c) ==
  /\ c \in Calls /\ call[c].stage = "saved"
  /\ rows' = rows \cup {[by |-> c, doc |-> FromState(call[c].state)]}
  /\ Goto(c, "answered")
  /\ UNCHANGED <<session, enqueued, accepted, overlapped, restarts>>

CommitFails(c) ==
  /\ call[c].stage = "saved"
  /\ Leave(c, "uncommitted")
  /\ UNCHANGED <<session, rows, enqueued, accepted, overlapped, restarts>>

-----------------------------------------------------------------------------
(* commission_from_session: a document from the text alone, whatever the   *)
(* session says of it, and the pipeline is sent off before the commit.     *)
Commission(c) ==
  /\ c \in Commissions /\ call[c].stage = "idle" /\ session.open
  /\ call' = [call EXCEPT ![c] = [stage |-> "saved", state |-> [Fresh EXCEPT !.msgs = session.state.msgs]]]
  /\ enqueued' = enqueued \cup {c}
  /\ UNCHANGED <<session, rows, accepted, overlapped, restarts>>

CommitCommission(c) ==
  /\ c \in Commissions /\ call[c].stage = "saved"
  /\ rows' = rows \cup {[by |-> c, doc |-> FromText(call[c].state.msgs)]}
  /\ Leave(c, "answered")
  /\ UNCHANGED <<session, enqueued, accepted, overlapped, restarts>>

(* The process starts again: the sessions and the calls are gone.          *)
Restart ==
  /\ restarts < MaxRestarts
  /\ restarts' = restarts + 1
  /\ session' = Closed
  /\ accepted' = {}
  /\ call' = [c \in Calls \cup Commissions |->
                IF call[c].stage \in {"graph", "saving", "saved"}
                THEN Enter("failed") ELSE call[c]]
  /\ UNCHANGED <<rows, enqueued, overlapped>>

Step(c) ==
  \/ GraphReturns(c) \/ GraphRaises(c)
  \/ SaveDocument(c) \/ Commit(c) \/ CommitFails(c) \/ CommitCommission(c)

Next ==
  \/ CreateSession \/ Restart
  \/ \E c \in Calls : AddMessage(c)
  \/ \E c \in Commissions : Commission(c)
  \/ \E c \in Calls \cup Commissions : Step(c)

(* Models and the database answer or raise.                                *)
Spec == Init /\ [][Next]_vars /\ \A c \in Calls \cup Commissions : WF_vars(Step(c))

-----------------------------------------------------------------------------
States ==
  [msgs : SUBSET Messages, turns : Nat, complete : BOOLEAN, timed : BOOLEAN,
   type : {"legal_intake_associate"} \cup {r.type : r \in Readings},
   risk : {"medium"} \cup {r.risk : r \in Readings},
   tools : {NoTools} \cup {r.tools : r \in Readings}]

(* Every variable keeps its type.                                          *)
TypeOK ==
  /\ session.open \in BOOLEAN /\ session.state \in States /\ session.doc \in Calls \cup {None}
  /\ \A c \in Calls \cup Commissions :
       /\ call[c].stage \in {"idle", "graph", "saving", "saved", "answered", "failed", "uncommitted"}
       /\ call[c].state \in States
  /\ \A r \in rows : r.by \in Calls \cup Commissions
  /\ enqueued \subseteq Commissions
  /\ accepted \subseteq Messages /\ overlapped \in BOOLEAN /\ restarts \in 0..MaxRestarts

(* While no two messages are handled at once, no message is lost and each  *)
(* user's message counts as a turn until the intake is complete, even if   *)
(* its models raised (conversation.py:99-106).                             *)
SerialLosesNothing ==
  session.open /\ ~overlapped =>
    LET st == session.state
        asked == {m \in st.msgs : User(m)}
    IN  /\ st.msgs = accepted
        /\ st.turns <= Cardinality(asked)
        /\ ~st.complete => st.turns = Cardinality(asked)

(* A session gets a second document only if two messages were handled at   *)
(* once (analyst.py:93-100).                                               *)
OneDocument ==
  ~overlapped => Cardinality({r \in rows : r.by \in Calls}) <= 1

(* The document a session names is committed, or its own handler has still *)
(* to commit it or could not.                                              *)
NamedDocumentIsThere ==
  session.doc # None =>
    \/ \E r \in rows : r.by = session.doc
    \/ call[session.doc].stage \in {"saved", "uncommitted"}
=============================================================================
