---------------------------- MODULE SupportProofs ----------------------------
(***************************************************************************)
(* Theorems about Support for every set of users, every limit and delay,   *)
(* and any number of tickets, messages, tokens and sessions.               *)
(*                                                                         *)
(* The argument.  The two time columns of a ticket are the times of the    *)
(* last message stored of each side, whatever order the messages came in;  *)
(* when they came in order, comparing the columns compares the messages.   *)
(* A triage token applies to tickets that wait as its scope says, so that  *)
(* a message of the user lies between two of its replies.  What a session  *)
(* has checked is still so when it commits only while it is alone.         *)
(***************************************************************************)
EXTENDS Support, SequenceTheorems, FiniteSetTheorems, WellFoundedInduction, TLAPS

Names == {"payment", "access", "technical", "other"}
WaitingStates == {"closed", "awaiting_admin", "awaiting_user"}
ActionLanes == {"waiting_user_followup", "reply_now", "payment_review", "access_review",
                "technical_triage", "clarify_request"}
EscalationLanes == Names \cup {"waiting_user_risk", "stale_high_priority", "reply_breach",
                              "high_priority_watch", "routine_queue"}
Scopes == EscalationLanes \X ActionLanes \X (WaitingStates \X Names)
Token == [scope : Scopes, tickets : SUBSET Nat, ends : Nat]

\* user is the time of the last message of the user in q, admin that of the last reply.
Columns(q, user, admin) ==
  /\ \E a \in DOMAIN q : /\ ~q[a].admin
                        /\ q[a].at = user
                        /\ \A b \in DOMAIN q : ~q[b].admin => b <= a
  /\ IF admin = Never THEN \A a \in DOMAIN q : ~q[a].admin
     ELSE \E a \in DOMAIN q : /\ q[a].admin
                            /\ q[a].at = admin
                            /\ \A b \in DOMAIN q : q[b].admin => b <= a

ColumnsOK == \A i \in Ids : Columns(messages[i], tickets[i].lastUser, tickets[i].lastAdmin)

\* Messages that carry a token are replies, and the token was issued.
RepliesOK ==
  \A i \in Ids : \A a \in DOMAIN messages[i] :
    messages[i][a].token # NoToken => messages[i][a].admin /\ messages[i][a].token \in DOMAIN tokens

Tables == TypeOK /\ tokens \in Seq(Token) /\ ColumnsOK /\ RepliesOK

(* Histories without overlap *)

Waits(i) == tickets[i].lastAdmin = Never \/ tickets[i].lastUser > tickets[i].lastAdmin
Queued(t) == tokens[t].scope[3][1] = "awaiting_admin"

\* What s has checked is still so.
Fresh(s) ==
  /\ s.op = "create" => OpenOf(s.user) = {}
  /\ s.op = "apply" => (Queued(s.token) => \A i \in s.tickets : Waits(i))

OneOpen == \A u \in Users : \A i, j \in OpenOf(u) \ reopened : i = j

SerialInv ==
  ~overlapped => /\ \A s, t \in sessions : s = t
                 /\ \A s \in sessions : Fresh(s)
                 /\ OneOpen

IInv == Tables /\ SerialInv /\ SerialTokenAnswersOnce

-----------------------------------------------------------------------------
(* Sequences and sessions *)

\* A table rewritten row by row.
LEMMA Rewritten ==
  ASSUME NEW S, NEW q \in Seq(S), NEW f \in [DOMAIN q -> S]
  PROVE  f \in Seq(S) /\ DOMAIN f = DOMAIN q
<1>1. DOMAIN q = 1 .. Len(q) /\ Len(q) \in Nat
  OBVIOUS
<1>2. QED
  BY <1>1, SeqDef

\* What was appended is there, and the rest is as it was.
LEMMA Appended ==
  ASSUME NEW S, NEW q \in Seq(S), NEW x \in S
  PROVE  /\ Append(q, x) \in Seq(S)
         /\ DOMAIN Append(q, x) = DOMAIN q \cup {Len(q) + 1}
         /\ Len(q) + 1 \notin DOMAIN q
         /\ \A i \in DOMAIN q : i \in Nat /\ i < Len(q) + 1 /\ Append(q, x)[i] = q[i]
         /\ Append(q, x)[Len(q) + 1] = x
  OBVIOUS

\* A session is of one of its shapes.
LEMMA Shapes ==
  ASSUME NEW s \in Session
  PROVE  /\ s.op = "create" => s.user \in Users /\ s.category \in Categories
         /\ s.op \in {"add", "reply", "tell", "close", "reopen"} => s.ticket \in Ids
         /\ s.op = "apply" => s.token \in DOMAIN tokens /\ s.tickets \in SUBSET Ids
         /\ s.op \in {"create", "add", "reply", "close", "reopen", "apply"} => s.at \in Nat
  BY DEF Session

\* Tickets and tokens are never deleted, so that sessions stay sessions.
LEMMA SessionsGrow ==
  ASSUME Ids \subseteq Ids', DOMAIN tokens \subseteq DOMAIN tokens'
  PROVE  Session \subseteq Session'
  BY DEF Session

\* The messages of a ticket are a sequence, and its columns are times.
LEMMA TicketType ==
  ASSUME TypeOK, NEW i \in Ids
  PROVE  /\ tickets[i] \in Ticket /\ messages[i] \in Seq(Message)
         /\ tickets[i].lastUser \in Nat /\ tickets[i].lastAdmin \in Nat \cup {Never}
         /\ DOMAIN messages[i] \subseteq Nat
         /\ \A a \in DOMAIN messages[i] : messages[i][a] \in Message
                                        /\ messages[i][a].at \in Nat
<1>1. tickets[i] \in Ticket /\ messages[i] \in Seq(Message)
  BY DEF Ids, TypeOK
<1>2. \A m \in Message : m.at \in Nat
  BY DEF Message
<1>3. QED
  BY <1>1, <1>2 DEF Ticket

-----------------------------------------------------------------------------
(* The columns *)

\* Storing a message writes the column of its side.
LEMMA ColumnsStore ==
  ASSUME NEW q \in Seq(Message), NEW m \in Message, NEW user, NEW admin, Columns(q, user, admin)
  PROVE  Columns(Append(q, m), IF m.admin THEN user ELSE m.at, IF m.admin THEN m.at ELSE admin)
<1> DEFINE r == Append(q, m)
           n == Len(q) + 1
<1>1. /\ DOMAIN r = DOMAIN q \cup {n} /\ n \notin DOMAIN q /\ r[n] = m
      /\ \A i \in DOMAIN q : i \in Nat /\ i < n /\ r[i] = q[i]
      /\ n \in Nat /\ m.at # Never /\ m.admin \in BOOLEAN
  BY Appended DEF Message, Never
<1> HIDE DEF r, n
<1>2. CASE m.admin
  <2>1. PICK a \in DOMAIN q : ~q[a].admin /\ q[a].at = user /\ \A b \in DOMAIN q : ~q[b].admin => b <= a
    BY DEF Columns
  <2>2. a \in DOMAIN r /\ ~r[a].admin /\ r[a].at = user /\ \A b \in DOMAIN r : ~r[b].admin => b <= a
    BY <1>1, <1>2, <2>1
  <2>3. n \in DOMAIN r /\ r[n].admin /\ r[n].at = m.at /\ \A b \in DOMAIN r : r[b].admin => b <= n
    BY <1>1, <1>2
  <2>4. Columns(r, user, m.at)
    BY <1>1, <2>2, <2>3 DEF Columns
  <2>5. QED
    BY <1>2, <2>4 DEF r
<1>3. CASE ~m.admin
  <2>1. n \in DOMAIN r /\ ~r[n].admin /\ r[n].at = m.at /\ \A b \in DOMAIN r : ~r[b].admin => b <= n
    BY <1>1, <1>3
  <2>2. CASE admin = Never
    <3>1. \A a \in DOMAIN r : ~r[a].admin
      BY <1>1, <1>3, <2>2 DEF Columns
    <3>2. Columns(r, m.at, admin)
      BY <2>1, <2>2, <3>1 DEF Columns
    <3>3. QED
      BY <1>3, <3>2 DEF r
  <2>3. CASE admin # Never
    <3>1. PICK a \in DOMAIN q : q[a].admin /\ q[a].at = admin /\ \A b \in DOMAIN q : q[b].admin => b <= a
      BY <2>3 DEF Columns
    <3>2. a \in DOMAIN r /\ r[a].admin /\ r[a].at = admin /\ \A b \in DOMAIN r : r[b].admin => b <= a
      BY <1>1, <1>3, <3>1
    <3>3. Columns(r, m.at, admin)
      BY <2>1, <2>3, <3>2 DEF Columns
    <3>4. QED
      BY <1>3, <3>3 DEF r
  <2>4. QED
    BY <2>2, <2>3
<1>4. QED
  BY <1>1, <1>2, <1>3

\* In order, a ticket waits for the admin when a message of the user is its last.
LEMMA WaitingEndsWithUser ==
  ASSUME TypeOK, ColumnsOK, NEW i \in Ids, InOrder(i), Waits(i),
         NEW a \in DOMAIN messages[i], messages[i][a].admin
  PROVE  \E c \in DOMAIN messages[i] : a < c /\ ~messages[i][c].admin
<1> DEFINE q == messages[i]
<1>1. Columns(q, tickets[i].lastUser, tickets[i].lastAdmin)
  BY DEF Ids, ColumnsOK
<1>2. DOMAIN q \subseteq Nat /\ \A b \in DOMAIN q : q[b].at \in Nat
  BY TicketType
<1>3. PICK c \in DOMAIN q : ~q[c].admin /\ q[c].at = tickets[i].lastUser
  BY <1>1 DEF Columns
<1>4. tickets[i].lastAdmin # Never
  BY <1>1 DEF Columns
<1>5. PICK m \in DOMAIN q : /\ q[m].admin /\ q[m].at = tickets[i].lastAdmin
                           /\ \A b \in DOMAIN q : q[b].admin => b <= m
  BY <1>1, <1>4 DEF Columns
<1>6. q[c].at > q[m].at
  BY <1>3, <1>4, <1>5 DEF Waits
<1>7. ~(c < m) /\ c # m
  BY <1>2, <1>3, <1>5, <1>6 DEF InOrder
<1>8. a <= m
  BY <1>5
<1>9. a < c
  BY <1>2, <1>7, <1>8
<1>10. QED
  BY <1>3, <1>9

-----------------------------------------------------------------------------
(* Steps *)

\* Sessions begin and end, and time passes; no table is written.
LEMMA SessionsOnly ==
  ASSUME IInv, UNCHANGED <<tickets, messages, tokens, reopened>>, now' \in Nat,
         sessions' \subseteq Session,
         ~overlapped' => /\ ~overlapped
                         /\ \A s, t \in sessions' : s = t
                         /\ \A s \in sessions' : Fresh(s)
  PROVE  IInv'
<1>1. TypeOK'
  BY DEF Ids, IInv, Tables, TypeOK, Session
<1>2. Tables'
  BY <1>1 DEF Ids, IInv, Tables, ColumnsOK, RepliesOK
<1>3. ASSUME NEW s, Fresh(s) PROVE Fresh(s)'
  BY <1>3 DEF Ids, Fresh, OpenOf, Open, Queued, Waits
<1>4. SerialInv'
  BY <1>3 DEF Ids, IInv, SerialInv, OneOpen, OpenOf, Open
<1>5. SerialTokenAnswersOnce'
  BY DEF Ids, IInv, SerialTokenAnswersOnce, InOrder
<1>6. QED
  BY <1>2, <1>4, <1>5 DEF IInv

LEMMA BeginKeeps ==
  ASSUME IInv, NEW s \in Session, Begins(s), Fresh(s), ReadsOnly
  PROVE  IInv'
<1>1. sessions' \subseteq Session /\ now' \in Nat
  BY DEF Ids, IInv, Tables, TypeOK, Begins, ReadsOnly
<1>2. ~overlapped' => ~overlapped /\ sessions' = {s}
  BY DEF Begins
<1>3. QED
  BY <1>1, <1>2, SessionsOnly DEF ReadsOnly

LEMMA EndKeeps ==
  ASSUME IInv, sessions' \subseteq sessions,
         UNCHANGED <<now, tickets, messages, tokens, reopened, overlapped>>
  PROVE  IInv'
<1>1. sessions' \subseteq Session /\ now' \in Nat
  BY DEF Ids, IInv, Tables, TypeOK
<1>2. QED
  BY <1>1, SessionsOnly DEF Ids, IInv, SerialInv

LEMMA BeginCreateKeeps ==
  ASSUME IInv, NEW u \in Users, NEW c \in Categories, NEW at \in SentAt, BeginCreate(u, c, at)
  PROVE  IInv'
<1> DEFINE s == [op |-> "create", user |-> u, category |-> c, at |-> at]
<1>1. s \in Session
  BY DEF Ids, IInv, Tables, TypeOK, SentAt, Session
<1>2. Fresh(s)
  BY DEF BeginCreate, Fresh
<1>3. QED
  BY <1>1, <1>2, BeginKeeps DEF BeginCreate

LEMMA BeginAddKeeps ==
  ASSUME IInv, NEW u \in Users, NEW i \in Ids, NEW at \in SentAt, BeginAdd(u, i, at)
  PROVE  IInv'
<1> DEFINE s == [op |-> "add", user |-> u, ticket |-> i, at |-> at]
<1>1. s \in Session
  BY DEF Ids, IInv, Tables, TypeOK, SentAt, Session
<1>2. Fresh(s)
  BY DEF Fresh
<1>3. QED
  BY <1>1, <1>2, BeginKeeps DEF BeginAdd

LEMMA BeginReplyKeeps ==
  ASSUME IInv, NEW i \in Ids, NEW at \in SentAt, BeginReply(i, at)
  PROVE  IInv'
<1> DEFINE s == [op |-> "reply", ticket |-> i, at |-> at]
<1>1. s \in Session
  BY DEF Ids, IInv, Tables, TypeOK, SentAt, Session
<1>2. Fresh(s)
  BY DEF Fresh
<1>3. QED
  BY <1>1, <1>2, BeginKeeps DEF BeginReply

LEMMA BeginStatusKeeps ==
  ASSUME IInv, NEW op \in {"close", "reopen"}, NEW i \in Ids, BeginStatus(op, i)
  PROVE  IInv'
<1> DEFINE s == [op |-> op, ticket |-> i, at |-> now]
<1>1. s \in Session
  BY DEF Ids, Session, IInv, Tables, TypeOK
<1>2. Fresh(s)
  BY DEF Fresh
<1>3. QED
  BY <1>1, <1>2, BeginKeeps DEF BeginStatus

\* The tickets of a queue that waits for the admin wait for him.
LEMMA BeginApplyKeeps ==
  ASSUME IInv, NEW t \in DOMAIN tokens, NEW S \in SUBSET tokens[t].tickets, BeginApply(t, S)
  PROVE  IInv'
<1> DEFINE s == [op |-> "apply", token |-> t, tickets |-> S, at |-> now]
<1>1. s \in Session
  BY DEF Ids, IInv, Tables, TypeOK, Session
<1>2. ASSUME Queued(t), NEW i \in S PROVE Waits(i)
  <2>1. i \in Ids /\ Open(i) /\ Scope(i) = tokens[t].scope
    BY DEF BeginApply, InTokenScope, InScope
  <2>2. WaitingState(i) = "awaiting_admin"
    BY <1>2, <2>1 DEF Scope, ReplyPack, Queued
  <2>3. QED
    BY <2>1, <2>2 DEF WaitingState, Waits
<1>3. Fresh(s)
  BY <1>2 DEF Fresh
<1>4. QED
  BY <1>1, <1>3, BeginKeeps DEF BeginApply

\* Where a ticket stands has a name.
LEMMA ScopeType ==
  ASSUME TypeOK, NEW i \in Ids
  PROVE  Scope(i) \in Scopes
<1>1. tickets[i].category \in Names
  BY TicketType, SupportAssumption DEF Ticket, Names
<1>2. WaitingState(i) \in WaitingStates
  BY DEF WaitingState, WaitingStates
<1>3. ActionLane(i) \in ActionLanes
  BY DEF ActionLane, ActionLanes
<1>4. EscalationLane(i) \in EscalationLanes
  BY <1>1 DEF EscalationLane, EscalationLanes, Names
<1>5. QED
  BY <1>1, <1>2, <1>3, <1>4 DEF Scope, ReplyPack, Scopes

\* A token is issued: those issued before keep their place and their scope.
LEMMA PreviewKeeps ==
  ASSUME IInv, NEW i \in Ids, NEW focus \in Ids \cup {0}, Preview(Scope(i), focus)
  PROVE  IInv'
<1>1. PICK token : /\ tokens' = Append(tokens, token)
                   /\ token.scope = Scope(i) /\ token.tickets \subseteq Ids
                   /\ token \in [scope : {Scope(i)}, tickets : SUBSET Ids, ends : Nat]
  <2> DEFINE rest == IF focus \in Sample(Scope(i)) \cup {0} THEN Sample(Scope(i))
                     ELSE {j \in Sample(Scope(i)) :
                             Cardinality({k \in Sample(Scope(i)) : RankedBefore(k, j)})
                               < SampleLimit - 1}
             token == [scope |-> Scope(i), tickets |-> rest \cup ({focus} \ {0}),
                       ends |-> now + TokenTTL]
  <2>1. rest \cup ({focus} \ {0}) \subseteq Ids
    BY DEF Sample, InScope
  <2>2. now + TokenTTL \in Nat
    BY SupportAssumption DEF Ids, IInv, Tables, TypeOK
  <2>3. tokens' = Append(tokens, token)
    BY DEF Preview
  <2> HIDE DEF rest
  <2>4. QED
    BY <2>1, <2>2, <2>3
<1>2. token \in Token
  <2>1. Ids \subseteq Nat
    BY DEF Ids, IInv, Tables, TypeOK
  <2>2. QED
    BY <1>1, <2>1, ScopeType DEF Ids, IInv, Tables, Token
<1>3. /\ tokens' \in Seq(Token)
      /\ DOMAIN tokens \subseteq DOMAIN tokens'
      /\ \A t \in DOMAIN tokens' : t \notin DOMAIN tokens => tokens'[t] = token
      /\ \A t \in DOMAIN tokens : tokens'[t] = tokens[t]
  BY <1>1, <1>2, Appended DEF Ids, IInv, Tables
<1>4. UNCHANGED <<now, tickets, messages, sessions, reopened, overlapped>>
  BY DEF Preview
<1>5. TypeOK'
  <2>1. sessions' \subseteq Session'
    BY <1>3, <1>4, SessionsGrow DEF Ids, IInv, Tables, TypeOK
  <2>2. \A t \in DOMAIN tokens' : tokens'[t].tickets \subseteq Ids'
    BY <1>1, <1>3, <1>4 DEF Ids, IInv, Tables, TypeOK
  <2>3. QED
    BY <1>4, <2>1, <2>2 DEF Ids, IInv, Tables, TypeOK
<1>6. Tables'
  BY <1>3, <1>4, <1>5 DEF Ids, IInv, Tables, ColumnsOK, RepliesOK
<1>7. ASSUME NEW s \in sessions, Fresh(s) PROVE Fresh(s)'
  <2>1. s.op = "apply" => s.token \in DOMAIN tokens
    BY Shapes DEF Ids, IInv, Tables, TypeOK
  <2>2. QED
    BY <1>3, <1>4, <1>7, <2>1 DEF Ids, Fresh, OpenOf, Open, Queued, Waits
<1>8. SerialInv'
  BY <1>4, <1>7 DEF Ids, IInv, SerialInv, OneOpen, OpenOf, Open
<1>9. SerialTokenAnswersOnce'
  <2>1. \A j \in Ids : \A a \in DOMAIN messages[j] :
          messages[j][a].token # NoToken => messages[j][a].token \in DOMAIN tokens
    BY DEF Ids, IInv, Tables, RepliesOK
  <2>2. QED
    BY <1>3, <1>4, <2>1 DEF Ids, IInv, SerialTokenAnswersOnce, InOrder
<1>10. QED
  BY <1>6, <1>8, <1>9 DEF IInv

-----------------------------------------------------------------------------
(* Commits *)

\* What is left when the only session commits.
LEMMA LastEnds ==
  ASSUME SerialInv, ~overlapped, NEW s \in sessions
  PROVE  sessions \ {s} = {} /\ Fresh(s) /\ OneOpen
  BY DEF SerialInv

\* The tickets of T get message m; their rows change in the columns of times only.
LEMMA StoreKeeps ==
  ASSUME IInv, NEW s \in sessions, NEW T \in SUBSET Ids, NEW m \in Message,
         m.token # NoToken => m.admin /\ m.token \in DOMAIN tokens,
         m.token # NoToken /\ ~overlapped => (Queued(m.token) => \A i \in T : Waits(i)),
         messages' = [i \in Ids |-> IF i \in T THEN Append(messages[i], m) ELSE messages[i]],
         tickets' \in [Ids -> Ticket],
         \A i \in Ids : i \notin T => tickets'[i] = tickets[i],
         \A i \in T :
           /\ tickets'[i].user = tickets[i].user
           /\ tickets'[i].status = tickets[i].status
           /\ tickets'[i].lastUser = IF m.admin THEN tickets[i].lastUser ELSE m.at
           /\ tickets'[i].lastAdmin = IF m.admin THEN m.at ELSE tickets[i].lastAdmin,
         \/ sessions' = sessions \ {s}
         \/ \E i \in Ids : sessions' = (sessions \ {s}) \cup {[op |-> "tell", ticket |-> i]},
         UNCHANGED <<now, tokens, reopened, overlapped>>
  PROVE  IInv'
<1>1. /\ TypeOK /\ tickets \in Seq(Ticket) /\ Ids = DOMAIN tickets
      /\ \A i \in Ids : messages[i] \in Seq(Message)
  BY TicketType DEF IInv, Tables, TypeOK, Ids
<1>2. tickets' \in Seq(Ticket) /\ DOMAIN tickets' = DOMAIN tickets /\ Ids' = Ids
  <2>1. tickets' \in Seq(Ticket) /\ DOMAIN tickets' = DOMAIN tickets
    BY <1>1, Rewritten
  <2>2. QED
    BY <2>1 DEF Ids
<1>3. ASSUME NEW i \in Ids
      PROVE  /\ messages'[i] \in Seq(Message)
             /\ i \notin T => messages'[i] = messages[i]
             /\ i \in T => /\ DOMAIN messages'[i] = DOMAIN messages[i] \cup {Len(messages[i]) + 1}
                          /\ messages'[i][Len(messages[i]) + 1] = m
             /\ \A a \in DOMAIN messages[i] : /\ a \in DOMAIN messages'[i]
                                             /\ messages'[i][a] = messages[i][a]
                                             /\ a \in Nat /\ a < Len(messages[i]) + 1
  BY <1>1, Appended
<1>4. TypeOK'
  <2>1. sessions' \subseteq Session
    BY DEF IInv, Tables, TypeOK, Session
  <2>2. Session \subseteq Session'
    BY <1>2, SessionsGrow
  <2>3. messages' \in [Ids -> Seq(Message)]
    BY <1>3
  <2>4. QED
    BY <1>2, <2>1, <2>2, <2>3 DEF IInv, Tables, TypeOK
<1>5. ColumnsOK'
  <2>1. SUFFICES ASSUME NEW i \in Ids
                 PROVE  Columns(messages'[i], tickets'[i].lastUser, tickets'[i].lastAdmin)
    BY <1>2 DEF ColumnsOK
  <2>2. Columns(messages[i], tickets[i].lastUser, tickets[i].lastAdmin)
    BY DEF IInv, Tables, ColumnsOK
  <2>3. CASE i \notin T
    BY <1>3, <2>2, <2>3
  <2>4. CASE i \in T
    <3>1. messages'[i] = Append(messages[i], m)
      BY <2>4
    <3>2. QED
      BY <1>1, <2>2, <2>4, <3>1, ColumnsStore
  <2>5. QED
    BY <2>3, <2>4
<1>6. RepliesOK'
  BY <1>2, <1>3 DEF IInv, Tables, RepliesOK
<1>7. SerialInv'
  <2>1. SUFFICES ASSUME ~overlapped PROVE SerialInv'
    BY DEF SerialInv
  <2>2. OneOpen /\ sessions \ {s} = {}
    BY <2>1, LastEnds DEF IInv
  <2>3. (\A r, q \in sessions' : r = q) /\ \A r \in sessions' : r.op = "tell"
    BY <2>2
  <2>4. \A r \in sessions' : Fresh(r)'
    BY <2>3 DEF Fresh
  <2>5. \A u \in Users : OpenOf(u)' = OpenOf(u)
    BY <1>2 DEF OpenOf, Open
  <2>6. QED
    BY <2>2, <2>3, <2>4, <2>5 DEF SerialInv, OneOpen
<1>8. SerialTokenAnswersOnce'
  <2>1. ASSUME ~overlapped, NEW i \in Ids, InOrder(i)'
        PROVE  \A a, b \in DOMAIN messages'[i] :
                 /\ a < b
                 /\ messages'[i][a].token # NoToken
                 /\ messages'[i][a].token = messages'[i][b].token
                 /\ tokens[messages'[i][a].token].scope[3][1] = "awaiting_admin"
                 => \E c \in (a + 1) .. (b - 1) : ~messages'[i][c].admin
    <3>1. SUFFICES ASSUME NEW a \in DOMAIN messages'[i], NEW b \in DOMAIN messages'[i], a < b,
                          messages'[i][a].token # NoToken,
                          messages'[i][a].token = messages'[i][b].token,
                          Queued(messages'[i][a].token)
                   PROVE  \E c \in (a + 1) .. (b - 1) : ~messages'[i][c].admin
      BY DEF Queued
    <3>2. InOrder(i)
      <4>1. \A c \in DOMAIN messages[i] : c \in DOMAIN messages'[i] /\ messages'[i][c] = messages[i][c]
        BY <1>3
      <4>2. QED
        BY <2>1, <4>1 DEF InOrder
    <3>3. CASE a \in DOMAIN messages[i] /\ b \in DOMAIN messages[i]
      <4>1. \E c \in (a + 1) .. (b - 1) : ~messages[i][c].admin
        BY <1>3, <2>1, <3>1, <3>2, <3>3 DEF IInv, SerialTokenAnswersOnce, Queued
      <4>2. \A c \in (a + 1) .. (b - 1) : c \in DOMAIN messages[i]
        BY <1>1, <3>3
      <4>3. QED
        BY <1>3, <4>1, <4>2
    <3>4. CASE i \in T /\ b = Len(messages[i]) + 1 /\ a \in DOMAIN messages[i]
      <4>1. messages[i][a].token = m.token /\ messages[i][a].admin
        BY <1>3, <3>1, <3>4 DEF IInv, Tables, RepliesOK
      <4>2. Waits(i)
        BY <1>3, <2>1, <3>1, <3>4, <4>1
      <4>3. PICK c \in DOMAIN messages[i] : a < c /\ ~messages[i][c].admin
        BY <1>1, <3>2, <3>4, <4>1, <4>2, WaitingEndsWithUser DEF IInv, Tables
      <4>4. a \in Nat /\ c \in Nat /\ c < b /\ b \in Nat
        BY <1>1, <1>3, <3>4
      <4>5. c \in (a + 1) .. (b - 1) /\ ~messages'[i][c].admin
        BY <1>3, <4>3, <4>4
      <4>6. QED
        BY <4>5
    <3>5. ~(a = Len(messages[i]) + 1)
      BY <1>1, <1>3, <3>1
    <3>6. QED
      BY <1>3, <3>1, <3>3, <3>4, <3>5
  <2>2. Ids' = Ids /\ tokens' = tokens /\ overlapped' = overlapped
    BY <1>2
  <2>3. QED
    BY ONLY <2>1, <2>2 DEF SerialTokenAnswersOnce
<1>9. QED
  BY <1>4, <1>5, <1>6, <1>7, <1>8 DEF IInv, Tables

\* One message, of the user or of the admin, is stored.
LEMMA StoreOneKeeps ==
  ASSUME IInv, NEW s \in sessions, s.ticket \in Ids, s.at \in Nat, NEW admin \in BOOLEAN,
         Stores(s.ticket, [admin |-> admin, at |-> s.at, token |-> NoToken]),
         tickets' = IF admin
           THEN [tickets EXCEPT ![s.ticket].lastAdmin = s.at, ![s.ticket].updated = s.at]
           ELSE [tickets EXCEPT ![s.ticket].lastUser = s.at, ![s.ticket].updated = s.at],
         \/ sessions' = sessions \ {s}
         \/ \E i \in Ids : sessions' = (sessions \ {s}) \cup {[op |-> "tell", ticket |-> i]},
         UNCHANGED <<now, tokens, reopened, overlapped>>
  PROVE  IInv'
<1> DEFINE m == [admin |-> admin, at |-> s.at, token |-> NoToken]
           T == {s.ticket}
           j == s.ticket
<1>1. m \in Message /\ m.token = NoToken /\ m.admin = admin /\ m.at = s.at
  BY DEF Message, NoToken
<1>2. tickets \in [Ids -> Ticket] /\ messages \in [Ids -> Seq(Message)] /\ T \in SUBSET Ids
  BY DEF IInv, Tables, TypeOK, Ids
<1>3. messages' = [messages EXCEPT ![j] = Append(messages[j], m)]
  BY DEF Stores
<1>4. messages' = [i \in Ids |-> IF i \in T THEN Append(messages[i], m) ELSE messages[i]]
  <2> HIDE DEF m
  <2>1. QED
    BY <1>2, <1>3
<1>5. PICK row \in Ticket : /\ tickets' = [tickets EXCEPT ![j] = row]
                            /\ row.user = tickets[j].user /\ row.status = tickets[j].status
                            /\ row.lastUser = IF admin THEN tickets[j].lastUser ELSE s.at
                            /\ row.lastAdmin = IF admin THEN s.at ELSE tickets[j].lastAdmin
  <2>1. tickets[j] \in Ticket
    BY <1>2
  <2>2. CASE admin
    <3> DEFINE row == [tickets[j] EXCEPT !.lastAdmin = s.at, !.updated = s.at]
    <3>1. /\ row \in Ticket
          /\ row.user = tickets[j].user /\ row.status = tickets[j].status
          /\ row.lastUser = tickets[j].lastUser /\ row.lastAdmin = s.at
      BY <2>1 DEF Ticket
    <3>2. tickets' = [tickets EXCEPT ![j] = row]
      BY <2>2
    <3> HIDE DEF row
    <3>3. QED
      BY <2>2, <3>1, <3>2
  <2>3. CASE ~admin
    <3> DEFINE row == [tickets[j] EXCEPT !.lastUser = s.at, !.updated = s.at]
    <3>1. /\ row \in Ticket
          /\ row.user = tickets[j].user /\ row.status = tickets[j].status
          /\ row.lastUser = s.at /\ row.lastAdmin = tickets[j].lastAdmin
      BY <2>1 DEF Ticket
    <3>2. tickets' = [tickets EXCEPT ![j] = row]
      BY <2>3
    <3> HIDE DEF row
    <3>3. QED
      BY <2>3, <3>1, <3>2
  <2>4. QED
    BY <2>2, <2>3
<1>6. /\ tickets' \in [Ids -> Ticket] /\ \A i \in Ids : i \notin T => tickets'[i] = tickets[i]
      /\ \A i \in T : tickets'[i] = row
  BY <1>2, <1>5
<1> HIDE DEF m
<1>7. \A i \in T :
        /\ tickets'[i].user = tickets[i].user
        /\ tickets'[i].status = tickets[i].status
        /\ tickets'[i].lastUser = IF m.admin THEN tickets[i].lastUser ELSE m.at
        /\ tickets'[i].lastAdmin = IF m.admin THEN m.at ELSE tickets[i].lastAdmin
  BY <1>1, <1>5, <1>6
<1>8. m.token # NoToken => m.admin /\ m.token \in DOMAIN tokens
  BY <1>1
<1>9. m.token # NoToken /\ ~overlapped => (Queued(m.token) => \A i \in T : Waits(i))
  BY <1>1
<1> HIDE DEF T
<1>10. QED
  BY <1>1, <1>2, <1>4, <1>6, <1>7, <1>8, <1>9, StoreKeeps

LEMMA CommitAddKeeps ==
  ASSUME IInv, NEW s \in sessions, CommitAdd(s)
  PROVE  IInv'
<1>1. s.ticket \in Ids /\ s.at \in Nat
  BY Shapes DEF IInv, Tables, TypeOK, CommitAdd
<1>2. QED
  BY <1>1, StoreOneKeeps DEF CommitAdd, Ends

LEMMA CommitReplyKeeps ==
  ASSUME IInv, NEW s \in sessions, CommitReply(s)
  PROVE  IInv'
<1>1. s.ticket \in Ids /\ s.at \in Nat
  BY Shapes DEF IInv, Tables, TypeOK, CommitReply
<1>2. QED
  BY <1>1, StoreOneKeeps DEF CommitReply

LEMMA CommitApplyKeeps ==
  ASSUME IInv, NEW s \in sessions, CommitApply(s)
  PROVE  IInv'
<1>1. s.token \in DOMAIN tokens /\ s.tickets \in SUBSET Ids /\ s.at \in Nat
  BY Shapes DEF IInv, Tables, TypeOK, CommitApply
<1>2. CASE UNCHANGED <<tickets, messages>>
  <2>1. sessions' \subseteq sessions
    BY DEF CommitApply, Ends
  <2>2. QED
    BY <1>2, <2>1, EndKeeps DEF CommitApply, Ends
<1>3. CASE /\ tickets' = [i \in Ids |-> IF i \in s.tickets
                THEN [tickets[i] EXCEPT !.lastAdmin = s.at, !.updated = s.at] ELSE tickets[i]]
           /\ messages' = [i \in Ids |-> IF i \in s.tickets
                THEN Append(messages[i], [admin |-> TRUE, at |-> s.at, token |-> s.token])
                ELSE messages[i]]
  <2> DEFINE m == [admin |-> TRUE, at |-> s.at, token |-> s.token]
             row(i) == [tickets[i] EXCEPT !.lastAdmin = s.at, !.updated = s.at]
  <2>1. s.token \in Nat /\ s.token # NoToken
    BY <1>1 DEF IInv, Tables, NoToken
  <2>2. /\ m \in Message /\ m.admin /\ m.at = s.at /\ m.token = s.token
    BY <1>1, <2>1 DEF Message
  <2>3. ASSUME NEW i \in Ids
        PROVE  /\ tickets[i] \in Ticket /\ row(i) \in Ticket
               /\ row(i).user = tickets[i].user /\ row(i).status = tickets[i].status
               /\ row(i).lastUser = tickets[i].lastUser /\ row(i).lastAdmin = s.at
    <3>1. tickets[i] \in Ticket
      BY TicketType DEF IInv, Tables
    <3>2. QED
      BY <1>1, <3>1 DEF Ticket
  <2>4. messages' = [i \in Ids |-> IF i \in s.tickets THEN Append(messages[i], m) ELSE messages[i]]
    BY <1>3
  <2>5. tickets' = [i \in Ids |-> IF i \in s.tickets THEN row(i) ELSE tickets[i]]
    BY <1>3
  <2> HIDE DEF m, row
  <2>6. /\ tickets' \in [Ids -> Ticket]
        /\ \A i \in Ids : i \notin s.tickets => tickets'[i] = tickets[i]
        /\ \A i \in s.tickets : tickets'[i] = row(i)
    BY <1>1, <2>3, <2>5
  <2>7. ~overlapped => (Queued(m.token) => \A i \in s.tickets : Waits(i))
    BY <2>2, LastEnds DEF IInv, Fresh, CommitApply
  <2>8. sessions' = sessions \ {s} /\ UNCHANGED <<now, tokens, reopened, overlapped>>
    BY DEF CommitApply, Ends
  <2>9. \A i \in s.tickets :
          /\ tickets'[i].user = tickets[i].user
          /\ tickets'[i].status = tickets[i].status
          /\ tickets'[i].lastUser = IF m.admin THEN tickets[i].lastUser ELSE m.at
          /\ tickets'[i].lastAdmin = IF m.admin THEN m.at ELSE tickets[i].lastAdmin
    BY <1>1, <2>2, <2>3, <2>6
  <2>10. QED
    BY <1>1, <2>2, <2>4, <2>6, <2>7, <2>8, <2>9, StoreKeeps
<1>4. QED
  BY <1>2, <1>3 DEF CommitApply

\* A ticket and its first message: the user had none open when it was asked for.
LEMMA CommitCreateKeeps ==
  ASSUME IInv, NEW s \in sessions, CommitCreate(s)
  PROVE  IInv'
<1> DEFINE row == [user |-> s.user, category |-> s.category, status |-> "open", created |-> s.at,
                   lastUser |-> s.at, lastAdmin |-> Never, updated |-> s.at]
           m == [admin |-> FALSE, at |-> s.at, token |-> NoToken]
           n == Len(tickets) + 1
<1>1. s.user \in Users /\ s.category \in Categories /\ s.at \in Nat /\ s.op = "create"
  BY Shapes DEF IInv, Tables, TypeOK, CommitCreate
<1>2. /\ row \in Ticket /\ row.user = s.user /\ row.lastUser = s.at /\ row.lastAdmin = Never
      /\ m \in Message /\ ~m.admin /\ m.at = s.at /\ m.token = NoToken
  BY <1>1 DEF Ticket, Message, NoToken
<1>3. /\ tickets' = Append(tickets, row) /\ messages' = Append(messages, <<m>>)
      /\ sessions' = sessions \ {s} /\ UNCHANGED <<now, tokens, reopened, overlapped>>
  BY DEF CommitCreate, Ends
<1>4. /\ DOMAIN <<m>> = {1} /\ <<m>>[1] = m
      /\ <<m>> \in Seq(Message)
  BY <1>2
<1> DEFINE new == <<m>>
<1> HIDE DEF row, m, new
<1>5. /\ tickets' \in Seq(Ticket) /\ Ids' = Ids \cup {n} /\ n \notin Ids
      /\ tickets'[n] = row /\ \A i \in Ids : tickets'[i] = tickets[i]
  <2>1. tickets \in Seq(Ticket)
    BY DEF IInv, Tables, TypeOK
  <2>2. QED
    BY <1>2, <1>3, <2>1, Appended DEF Ids
<1>6. /\ messages' \in Seq(Seq(Message)) /\ DOMAIN messages' = Ids'
      /\ messages'[n] = new /\ \A i \in Ids : messages'[i] = messages[i]
  <2>1. messages \in Seq(Seq(Message)) /\ Len(messages) = Len(tickets) /\ DOMAIN messages = Ids
    <3>1. DOMAIN tickets = 1 .. Len(tickets) /\ Len(tickets) \in Nat
      BY DEF IInv, Tables, TypeOK
    <3>2. messages \in [1 .. Len(tickets) -> Seq(Message)]
      BY <3>1 DEF IInv, Tables, TypeOK, Ids
    <3>3. QED
      BY <3>1, <3>2, SeqDef, LenProperties DEF Ids
  <2>2. messages' = Append(messages, new) /\ new \in Seq(Message)
    BY <1>3, <1>4 DEF new
  <2>3. QED
    BY <1>5, <2>1, <2>2, Appended
<1>7. TypeOK'
  <2>1. sessions' \subseteq Session'
    BY <1>3, <1>5, SessionsGrow DEF IInv, Tables, TypeOK
  <2>2. messages' \in [Ids' -> Seq(Message)]
    BY <1>6
  <2>3. QED
    BY <1>3, <1>5, <2>1, <2>2 DEF IInv, Tables, TypeOK
<1>8. ColumnsOK'
  <2>1. Columns(new, s.at, Never)
    BY <1>2, <1>4 DEF Columns, new
  <2>2. Columns(messages'[n], tickets'[n].lastUser, tickets'[n].lastAdmin)
    BY <1>2, <1>5, <1>6, <2>1
  <2>3. ASSUME NEW i \in Ids
        PROVE  Columns(messages'[i], tickets'[i].lastUser, tickets'[i].lastAdmin)
    BY <1>5, <1>6 DEF IInv, Tables, ColumnsOK
  <2>4. QED
    BY <1>5, <2>2, <2>3 DEF ColumnsOK
<1>9. RepliesOK'
  <2>1. \A a \in DOMAIN messages'[n] : messages'[n][a].token = NoToken
    BY <1>2, <1>4, <1>6 DEF new
  <2>2. QED
    BY <1>3, <1>5, <1>6, <2>1 DEF IInv, Tables, RepliesOK
<1>10. SerialInv'
  <2>1. SUFFICES ASSUME ~overlapped PROVE SerialInv'
    BY <1>3 DEF SerialInv
  <2>2. sessions' = {} /\ OpenOf(s.user) = {} /\ OneOpen
    BY <1>1, <1>3, <2>1, LastEnds DEF IInv, Fresh
  <2>3. ASSUME NEW u \in Users PROVE OpenOf(u)' \subseteq IF u = s.user THEN {n} ELSE OpenOf(u)
    BY <1>2, <1>5, <2>2 DEF OpenOf, Open
  <2>4. OneOpen'
    BY <1>3, <2>2, <2>3 DEF OneOpen
  <2>5. QED
    BY <2>2, <2>4 DEF SerialInv
<1>11. SerialTokenAnswersOnce'
  <2>1. \A a, b \in DOMAIN messages'[n] : ~(a < b)
    BY <1>4, <1>6 DEF new
  <2>2. \A i \in Ids : (InOrder(i)' => InOrder(i)) /\ messages'[i] = messages[i]
    BY <1>6 DEF InOrder
  <2>3. tokens' = tokens /\ overlapped' = overlapped
    BY <1>3
  <2>4. QED
    BY <1>5, <2>1, <2>2, <2>3 DEF IInv, SerialTokenAnswersOnce
<1>12. QED
  BY <1>3, <1>7, <1>8, <1>9, <1>10, <1>11 DEF IInv, Tables

\* A ticket that is reopened is not counted, however many its user has.
LEMMA CommitStatusKeeps ==
  ASSUME IInv, NEW s \in sessions, CommitStatus(s)
  PROVE  IInv'
<1> DEFINE j == s.ticket
           status == IF s.op = "close" THEN "closed" ELSE "open"
           row == [tickets[j] EXCEPT !.status = status, !.updated = s.at]
<1>1. j \in Ids /\ s.at \in Nat /\ s.op \in {"close", "reopen"}
  BY Shapes DEF IInv, Tables, TypeOK, CommitStatus
<1>2. /\ sessions' = sessions \ {s} /\ UNCHANGED <<now, messages, tokens, overlapped>>
      /\ reopened' = IF s.op = "reopen" THEN reopened \cup {j} ELSE reopened
      /\ tickets' = [tickets EXCEPT ![j] = row]
  BY DEF CommitStatus, Ends
<1>3. /\ row \in Ticket /\ row.user = tickets[j].user /\ row.status = status
      /\ row.lastUser = tickets[j].lastUser /\ row.lastAdmin = tickets[j].lastAdmin
  <2>1. tickets[j] \in Ticket /\ status \in {"open", "closed"}
    BY <1>1, TicketType DEF IInv, Tables, TypeOK
  <2> HIDE DEF status
  <2>2. QED
    BY <1>1, <2>1 DEF Ticket
<1> HIDE DEF row
<1>4. /\ tickets' \in Seq(Ticket) /\ Ids' = Ids
      /\ \A i \in Ids : tickets'[i] = IF i = j THEN row ELSE tickets[i]
  BY <1>1, <1>2, <1>3 DEF IInv, Tables, TypeOK, Ids
<1>5. \A i \in Ids : /\ tickets'[i].user = tickets[i].user
                     /\ tickets'[i].lastUser = tickets[i].lastUser
                     /\ tickets'[i].lastAdmin = tickets[i].lastAdmin
  BY <1>3, <1>4
<1>6. TypeOK'
  <2>1. sessions' \subseteq Session'
    BY <1>2, <1>4, SessionsGrow DEF IInv, Tables, TypeOK
  <2>2. reopened' \subseteq Ids
    BY <1>1, <1>2 DEF IInv, Tables, TypeOK
  <2>3. QED
    BY <1>2, <1>4, <2>1, <2>2 DEF IInv, Tables, TypeOK
<1>7. ColumnsOK' /\ RepliesOK'
  BY <1>2, <1>4, <1>5 DEF IInv, Tables, ColumnsOK, RepliesOK
<1>8. SerialInv'
  <2>1. SUFFICES ASSUME ~overlapped PROVE SerialInv'
    BY <1>2 DEF SerialInv
  <2>2. sessions' = {} /\ OneOpen
    BY <1>2, <2>1, LastEnds DEF IInv
  <2>3. ASSUME NEW u \in Users PROVE (OpenOf(u) \ reopened)' \subseteq OpenOf(u) \ reopened
    BY <1>1, <1>2, <1>3, <1>4 DEF OpenOf, Open
  <2>4. OneOpen'
    BY <2>2, <2>3 DEF OneOpen
  <2>5. QED
    BY <2>2, <2>4 DEF SerialInv
<1>9. SerialTokenAnswersOnce'
  BY <1>2, <1>4 DEF IInv, SerialTokenAnswersOnce, InOrder
<1>10. QED
  BY <1>2, <1>6, <1>7, <1>8, <1>9 DEF IInv, Tables

-----------------------------------------------------------------------------
(* The theorems *)

LEMMA InitOK ==
  ASSUME Init
  PROVE  IInv
<1>1. Ids = {} /\ tickets = <<>> /\ messages = <<>> /\ tokens = <<>>
  BY DEF Init, Ids
<1>2. Tables
  BY <1>1 DEF Init, Tables, TypeOK, ColumnsOK, RepliesOK
<1>3. SerialInv
  BY <1>1 DEF Init, SerialInv, OneOpen, OpenOf
<1>4. SerialTokenAnswersOnce
  BY <1>1 DEF SerialTokenAnswersOnce
<1>5. QED
  BY <1>2, <1>3, <1>4 DEF IInv

\* Every step keeps the invariant.
LEMMA StepOK == IInv /\ [Next]_vars => IInv'
<1> SUFFICES ASSUME IInv, [Next]_vars PROVE IInv'
  OBVIOUS
<1>1. CASE Tick
  <2>1. now' \in Nat /\ sessions' \subseteq Session
    BY <1>1 DEF IInv, Tables, TypeOK, Tick
  <2>2. QED
    BY <1>1, <2>1, SessionsOnly DEF IInv, SerialInv, Tick
<1>2. CASE UserStep
  BY <1>2, BeginCreateKeeps, BeginAddKeeps DEF UserStep
<1>3. CASE AdminStep
  BY <1>3, BeginReplyKeeps, BeginStatusKeeps, PreviewKeeps, BeginApplyKeeps DEF AdminStep
<1>4. CASE Commit
  <2>1. ASSUME NEW s \in sessions, Tell(s) PROVE IInv'
    BY <2>1, EndKeeps DEF Tell, Ends
  <2>2. QED
    BY <1>4, <2>1, CommitCreateKeeps, CommitAddKeeps, CommitReplyKeeps, CommitStatusKeeps,
       CommitApplyKeeps DEF Commit
<1>5. CASE Crash
  BY <1>5, EndKeeps DEF Crash
<1>6. CASE UNCHANGED vars
  BY <1>6, EndKeeps DEF vars
<1>7. QED
  BY <1>1, <1>2, <1>3, <1>4, <1>5, <1>6 DEF Next

\* The inductive invariant holds in every history.
THEOREM SupportInvariant == Spec => []IInv
<1>1. Init => IInv
  BY InitOK
<1>2. QED
  BY <1>1, StepOK, PTL DEF Spec

\* Tickets, messages, tokens and sessions have their types.
THEOREM SupportTypes == Spec => []TypeOK
<1>1. IInv => TypeOK
  BY DEF IInv, Tables
<1>2. QED
  BY <1>1, SupportInvariant, PTL

\* Whatever sessions overlap, the two time columns of an open ticket whose messages came
\* in order say that it waits for the admin exactly when a message is unanswered.
THEOREM WaitingMeansUnanswered == Spec => []WaitingIsUnanswered
<1>1. ASSUME IInv PROVE WaitingIsUnanswered
  <2>1. SUFFICES ASSUME NEW i \in Ids, Open(i), InOrder(i)
                 PROVE  WaitingState(i) = "awaiting_admin" <=> Unanswered(i)
    BY DEF WaitingIsUnanswered
  <2>2. TypeOK /\ Columns(messages[i], tickets[i].lastUser, tickets[i].lastAdmin)
    BY <1>1 DEF IInv, Tables, ColumnsOK
  <2>3. /\ DOMAIN messages[i] \subseteq Nat
        /\ \A a \in DOMAIN messages[i] : messages[i][a].at \in Nat
    BY <2>2, TicketType
  <2>4. PICK u \in DOMAIN messages[i] : /\ ~messages[i][u].admin
                                        /\ messages[i][u].at = tickets[i].lastUser
                                        /\ \A b \in DOMAIN messages[i] : ~messages[i][b].admin => b <= u
    BY <2>2 DEF Columns
  <2>5. WaitingState(i) = "awaiting_admin" <=> Waits(i)
    BY <2>1 DEF WaitingState, Waits
  <2>6. CASE tickets[i].lastAdmin = Never
    BY <2>2, <2>4, <2>5, <2>6 DEF Columns, Unanswered, Waits
  <2>7. CASE tickets[i].lastAdmin # Never
    <3>1. PICK r \in DOMAIN messages[i] : /\ messages[i][r].admin
                                          /\ messages[i][r].at = tickets[i].lastAdmin
                                          /\ \A b \in DOMAIN messages[i] : messages[i][b].admin => b <= r
      BY <2>2, <2>7 DEF Columns
    <3>2. \A b \in DOMAIN messages[i] :
            /\ messages[i][b].admin => messages[i][b].at <= messages[i][r].at
            /\ ~messages[i][b].admin => messages[i][b].at <= messages[i][u].at
      BY <2>1, <2>3, <2>4, <3>1 DEF InOrder
    <3>3. Waits(i) <=> messages[i][u].at > messages[i][r].at
      BY <2>4, <2>7, <3>1 DEF Waits
    <3>4. ASSUME messages[i][u].at > messages[i][r].at PROVE Unanswered(i)
      BY <2>3, <2>4, <3>2, <3>4 DEF Unanswered
    <3>5. ASSUME Unanswered(i) PROVE messages[i][u].at > messages[i][r].at
      BY <2>3, <3>1, <3>2, <3>5 DEF Unanswered
    <3>6. QED
      BY <2>5, <3>3, <3>4, <3>5
  <2>8. QED
    BY <2>6, <2>7
<1>2. QED
  BY <1>1, SupportInvariant, PTL

\* While sessions do not overlap, a user has one open ticket, reopened ones apart.
THEOREM OneOpenTicket == Spec => []SerialOneOpen
<1>1. ASSUME IInv PROVE SerialOneOpen
  <2>1. SUFFICES ASSUME ~overlapped, NEW u \in Users
                 PROVE  Cardinality(OpenOf(u) \ reopened) <= 1
    BY DEF SerialOneOpen
  <2>2. \A i, j \in OpenOf(u) \ reopened : i = j
    BY <1>1, <2>1 DEF IInv, SerialInv, OneOpen
  <2>3. CASE OpenOf(u) \ reopened = {}
    BY <2>3, FS_EmptySet
  <2>4. CASE OpenOf(u) \ reopened # {}
    <3>1. PICK i : OpenOf(u) \ reopened = {i}
      BY <2>2, <2>4
    <3>2. Cardinality({i}) = 1
      BY FS_Singleton
    <3>3. QED
      BY <3>1, <3>2
  <2>5. QED
    BY <2>3, <2>4
<1>2. QED
  BY <1>1, SupportInvariant, PTL

\* While sessions do not overlap and messages come in order, a triage token answers a
\* ticket that waited for the admin once until its user writes again.
THEOREM TokenAnswersOnce == Spec => []SerialTokenAnswersOnce
<1>1. IInv => SerialTokenAnswersOnce
  BY DEF IInv
<1>2. QED
  BY <1>1, SupportInvariant, PTL

-----------------------------------------------------------------------------
(* The first of a queue.                                                   *)
(*                                                                         *)
(* S is a finite set in a strict total order, given as a set of pairs; the *)
(* first n are the elements with less than n others before them.           *)

Before(S, R, x) == {y \in S : <<y, x>> \in R}
FirstOf(S, R, n) == {x \in S : Cardinality(Before(S, R, x)) < n}

Ordered(S, R) ==
  /\ IsFiniteSet(S)
  /\ \A x \in S : <<x, x>> \notin R
  /\ \A x, y, z \in S : <<x, y>> \in R /\ <<y, z>> \in R => <<x, z>> \in R
  /\ \A x, y \in S : x = y \/ <<x, y>> \in R \/ <<y, x>> \in R

LEMMA LeastNumber ==
  ASSUME NEW S, S \subseteq Nat, S # {}
  PROVE  \E c \in S : \A d \in S : c <= d
<1> DEFINE Less == {p \in Nat \X Nat : p[1] < p[2]}
<1>1. IsWellFoundedOn(Less, Nat)
  BY NatLessThanWellFounded DEF OpToRel
<1>2. \A c, d \in S : <<d, c>> \in Less <=> d < c
  OBVIOUS
<1> HIDE DEF Less
<1>3. PICK c \in S : \A d \in S : ~(<<d, c>> \in Less)
  BY <1>1, WFMin
<1>4. \A d \in S : ~(d < c)
  BY <1>2, <1>3
<1>5. \A d \in S : c <= d
  BY <1>4
<1>6. QED
  BY <1>5

LEMMA BeforeGrows ==
  ASSUME NEW S, NEW R, Ordered(S, R), NEW x \in S, NEW y \in S, <<x, y>> \in R
  PROVE  /\ Cardinality(Before(S, R, x)) \in Nat
         /\ Cardinality(Before(S, R, y)) \in Nat
         /\ Cardinality(Before(S, R, x)) < Cardinality(Before(S, R, y))
<1>1. IsFiniteSet(Before(S, R, x)) /\ IsFiniteSet(Before(S, R, y))
  BY FS_Subset DEF Ordered, Before
<1>2. Before(S, R, x) \in SUBSET Before(S, R, y)
  BY DEF Ordered, Before
<1>3. x \in Before(S, R, y) /\ x \notin Before(S, R, x)
  BY DEF Ordered, Before
<1>4. Cardinality(Before(S, R, x)) \in Nat /\ Cardinality(Before(S, R, y)) \in Nat
  BY <1>1, FS_CardinalityType
<1>5. /\ Cardinality(Before(S, R, x)) <= Cardinality(Before(S, R, y))
      /\ Cardinality(Before(S, R, x)) # Cardinality(Before(S, R, y))
  BY <1>1, <1>2, <1>3, FS_Subset
<1>6. QED
  BY <1>4, <1>5

LEMMA BeforeCounts ==
  ASSUME NEW S, NEW R, Ordered(S, R), NEW x \in S
  PROVE  /\ IsFiniteSet(Before(S, R, x))
         /\ Cardinality(Before(S, R, x)) \in Nat
         /\ Cardinality(Before(S, R, x)) <= Cardinality(S)
         /\ Cardinality(S) \in Nat
<1>1. Before(S, R, x) \in SUBSET S /\ IsFiniteSet(S)
  BY DEF Ordered, Before
<1>2. QED
  BY <1>1, FS_Subset, FS_CardinalityType

\* Every subset that is not empty has a first element and a last one.
LEMMA FirstElement ==
  ASSUME NEW S, NEW R, Ordered(S, R), NEW T, T \subseteq S, T # {}
  PROVE  \E x \in T : \A y \in T : y = x \/ <<x, y>> \in R
<1> DEFINE N == {Cardinality(Before(S, R, y)) : y \in T}
<1>1. N \subseteq Nat /\ N # {}
  BY BeforeCounts
<1>2. \E c \in N : \A d \in N : c <= d
  <2> HIDE DEF N
  <2>1. QED
    BY <1>1, LeastNumber
<1>3. PICK x \in T : \A y \in T : Cardinality(Before(S, R, x)) <= Cardinality(Before(S, R, y))
  BY <1>2
<1>4. ASSUME NEW y \in T PROVE y = x \/ <<x, y>> \in R
  <2>1. ~(<<y, x>> \in R)
    BY <1>3, BeforeGrows
  <2>2. QED
    BY <2>1 DEF Ordered
<1>5. QED
  BY <1>4

LEMMA LastElement ==
  ASSUME NEW S, NEW R, Ordered(S, R), NEW T, T \subseteq S, T # {}
  PROVE  \E x \in T : \A y \in T : y = x \/ <<y, x>> \in R
<1> DEFINE After(y) == Cardinality(S) - Cardinality(Before(S, R, y))
           N == {After(y) : y \in T}
<1>1. \A y \in T : After(y) \in Nat
  BY BeforeCounts
<1>2. \E c \in N : \A d \in N : c <= d
  <2>1. N \subseteq Nat /\ N # {}
    BY <1>1
  <2> HIDE DEF N
  <2>2. QED
    BY <2>1, LeastNumber
<1>3. PICK x \in T : \A y \in T : After(x) <= After(y)
  BY <1>2
<1>4. ASSUME NEW y \in T PROVE y = x \/ <<y, x>> \in R
  <2>1. After(x) <= After(y)
    BY <1>3
  <2>2. ASSUME <<x, y>> \in R PROVE FALSE
    <3>1. /\ Cardinality(Before(S, R, x)) \in Nat
          /\ Cardinality(Before(S, R, y)) \in Nat
          /\ Cardinality(Before(S, R, x)) < Cardinality(Before(S, R, y))
      BY <2>2, BeforeGrows
    <3>2. Cardinality(S) \in Nat
      BY BeforeCounts
    <3>3. QED
      BY <2>1, <3>1, <3>2
  <2>3. QED
    BY <2>2 DEF Ordered
<1>5. QED
  BY <1>4

\* The first n are at most n,
LEMMA FirstAreFew ==
  ASSUME NEW S, NEW R, Ordered(S, R), NEW n \in Nat
  PROVE  /\ IsFiniteSet(FirstOf(S, R, n))
         /\ Cardinality(FirstOf(S, R, n)) \in Nat
         /\ Cardinality(FirstOf(S, R, n)) <= n
<1>1. IsFiniteSet(FirstOf(S, R, n)) /\ Cardinality(FirstOf(S, R, n)) \in Nat
  BY FS_Subset, FS_CardinalityType DEF Ordered, FirstOf
<1>2. CASE FirstOf(S, R, n) = {}
  BY <1>1, <1>2, FS_EmptySet
<1>3. CASE FirstOf(S, R, n) # {}
  <2>1. FirstOf(S, R, n) \subseteq S
    BY DEF FirstOf
  <2>2. PICK x \in FirstOf(S, R, n) :
          \A y \in FirstOf(S, R, n) : y = x \/ <<y, x>> \in R
    BY <1>3, <2>1, LastElement
  <2>3. x \in S /\ Cardinality(Before(S, R, x)) < n
    BY DEF FirstOf
  <2>4. IsFiniteSet(Before(S, R, x)) /\ Cardinality(Before(S, R, x)) \in Nat
    BY <2>3, BeforeCounts
  <2>5. x \notin Before(S, R, x)
    BY <2>3 DEF Ordered, Before
  <2>6. /\ IsFiniteSet(Before(S, R, x) \cup {x})
        /\ Cardinality(Before(S, R, x) \cup {x}) = Cardinality(Before(S, R, x)) + 1
    BY <2>5, <2>4, FS_AddElement
  <2>7. FirstOf(S, R, n) \in SUBSET (Before(S, R, x) \cup {x})
    BY <2>1, <2>2 DEF Before
  <2>8. Cardinality(FirstOf(S, R, n)) <= Cardinality(Before(S, R, x)) + 1
    BY <2>6, <2>7, FS_Subset
  <2>9. QED
    BY <1>1, <2>3, <2>4, <2>8
<1>4. QED
  BY <1>2, <1>3

\* they come before the others,
LEMMA FirstComeFirst ==
  ASSUME NEW S, NEW R, Ordered(S, R), NEW n \in Nat,
         NEW x \in FirstOf(S, R, n), NEW y \in S \ FirstOf(S, R, n)
  PROVE  <<x, y>> \in R
<1>1. /\ x \in S /\ x # y
      /\ Cardinality(Before(S, R, x)) < n
      /\ ~(Cardinality(Before(S, R, y)) < n)
  BY DEF FirstOf
<1>2. ASSUME <<y, x>> \in R PROVE FALSE
  BY <1>1, <1>2, BeforeGrows
<1>3. QED
  BY <1>1, <1>2 DEF Ordered

\* and they are fewer than n only when nobody is left out.
LEMMA FirstAreAll ==
  ASSUME NEW S, NEW R, Ordered(S, R), NEW n \in Nat, FirstOf(S, R, n) # S
  PROVE  Cardinality(FirstOf(S, R, n)) = n
<1>1. S \ FirstOf(S, R, n) # {} /\ S \ FirstOf(S, R, n) \subseteq S
  BY DEF FirstOf
<1>2. PICK y \in S \ FirstOf(S, R, n) :
        \A z \in S \ FirstOf(S, R, n) : z = y \/ <<y, z>> \in R
  BY <1>1, FirstElement
<1>3. Before(S, R, y) \in SUBSET FirstOf(S, R, n)
  <2>1. SUFFICES ASSUME NEW z \in S, <<z, y>> \in R, z \notin FirstOf(S, R, n) PROVE FALSE
    BY DEF Before
  <2>2. z # y /\ <<y, z>> \in R
    BY <1>2, <2>1 DEF Ordered
  <2>3. QED
    BY <2>1, <2>2 DEF Ordered
<1>4. Cardinality(Before(S, R, y)) \in Nat /\ ~(Cardinality(Before(S, R, y)) < n)
  BY BeforeCounts DEF FirstOf
<1>5. /\ IsFiniteSet(FirstOf(S, R, n))
      /\ Cardinality(FirstOf(S, R, n)) \in Nat
      /\ Cardinality(FirstOf(S, R, n)) <= n
  BY FirstAreFew
<1>6. Cardinality(Before(S, R, y)) <= Cardinality(FirstOf(S, R, n))
  BY <1>3, <1>5, FS_Subset
<1>7. QED
  BY <1>4, <1>5, <1>6

-----------------------------------------------------------------------------
(* Samples and tokens *)

Ranks == {p \in Ids \X Ids : RankedBefore(p[1], p[2])}

\* The queue rank orders tickets strictly and totally, whatever their times.
LEMMA RanksOrder ==
  ASSUME TypeOK, NEW S, S \subseteq Ids
  PROVE  Ordered(S, Ranks)
<1>1. Ids = 1 .. Len(tickets) /\ Len(tickets) \in Nat
  BY DEF TypeOK, Ids
<1>2. IsFiniteSet(S)
  <2>1. IsFiniteSet(1 .. Len(tickets))
    BY <1>1, FS_Interval
  <2>2. QED
    BY <1>1, <2>1, FS_Subset
<1>3. \A i \in Ids : i \in Nat /\ tickets[i].updated \in Nat
  <2>1. \A t \in Ticket : t.updated \in Nat
    BY DEF Ticket
  <2>2. QED
    BY <1>1, <2>1, TicketType
\* Between tickets that are both late, or both not, time and id decide.
<1> DEFINE Older(i, j) == \/ tickets[i].updated < tickets[j].updated
                          \/ tickets[i].updated = tickets[j].updated /\ i < j
<1>4. /\ \A i \in Ids : ~Older(i, i)
      /\ \A i, j, k \in Ids : Older(i, j) /\ Older(j, k) => Older(i, k)
      /\ \A i, j \in Ids : i = j \/ Older(i, j) \/ Older(j, i)
  BY <1>3
<1>5. \A i : Breach(i) \in BOOLEAN
  BY DEF Breach
<1>6. \A i, j : RankedBefore(i, j) <=> \/ Breach(i) /\ ~Breach(j)
                                       \/ (Breach(i) <=> Breach(j)) /\ Older(i, j)
  <2>1. \A i, j : RankedBefore(i, j) =
                   IF Breach(i) # Breach(j) THEN Breach(i) ELSE Older(i, j)
    BY DEF RankedBefore
  <2> HIDE DEF Older
  <2>2. QED
    BY <1>5, <2>1, Zenon
<1> HIDE DEF Older
<1>7. \A i, j \in Ids : <<i, j>> \in Ranks <=> RankedBefore(i, j)
  BY DEF Ranks
<1>8. \A i \in S : <<i, i>> \notin Ranks
  BY <1>4, <1>6, <1>7
<1>9. \A i, j, k \in S : <<i, j>> \in Ranks /\ <<j, k>> \in Ranks => <<i, k>> \in Ranks
  BY <1>4, <1>6, <1>7
<1>10. \A i, j \in S : i = j \/ <<i, j>> \in Ranks \/ <<j, i>> \in Ranks
  BY <1>4, <1>6, <1>7
<1>11. QED
  BY <1>2, <1>8, <1>9, <1>10 DEF Ordered

LEMMA SampleIsFirst ==
  ASSUME TypeOK, NEW k
  PROVE  Sample(k) = FirstOf(InScope(k), Ranks, SampleLimit)
<1>1. \A i \in InScope(k) : {j \in InScope(k) : RankedBefore(j, i)} = Before(InScope(k), Ranks, i)
  BY DEF InScope, Before, Ranks
<1>2. QED
  BY <1>1 DEF Sample, FirstOf

\* A sample is the head of its queue: its tickets, SampleLimit at most, are ranked before
\* all that are left out, and none is left out below the limit.
SampleIsHead(k) ==
  /\ Cardinality(Sample(k)) <= SampleLimit
  /\ \A i \in Sample(k), j \in InScope(k) \ Sample(k) : RankedBefore(i, j)
  /\ Sample(k) # InScope(k) => Cardinality(Sample(k)) = SampleLimit

LEMMA SampleHead ==
  ASSUME TypeOK, NEW k
  PROVE  SampleIsHead(k)
<1>1. Ordered(InScope(k), Ranks) /\ SampleLimit \in Nat
  BY RanksOrder, SupportAssumption DEF InScope
<1>2. \A i \in Sample(k), j \in InScope(k) \ Sample(k) : RankedBefore(i, j)
  <2>1. \A i \in Sample(k), j \in InScope(k) \ Sample(k) : <<i, j>> \in Ranks
    BY <1>1, SampleIsFirst, FirstComeFirst
  <2>2. QED
    BY <2>1 DEF Ranks
<1>3. QED
  BY <1>1, <1>2, SampleIsFirst, FirstAreFew, FirstAreAll DEF SampleIsHead

\* A token covers a ticket at least and SampleLimit at most.
TokensBounded ==
  \A t \in DOMAIN tokens :
    tokens[t].tickets # {} /\ Cardinality(tokens[t].tickets) <= SampleLimit

LEMMA PreviewBounds ==
  ASSUME IInv, TokensBounded, NEW i \in Ids, NEW focus \in Ids \cup {0}, Preview(Scope(i), focus)
  PROVE  TokensBounded'
<1> DEFINE k == Scope(i)
           head == {j \in Sample(k) : Cardinality({l \in Sample(k) : RankedBefore(l, j)})
                                        < SampleLimit - 1}
           rest == IF focus \in Sample(k) \cup {0} THEN Sample(k) ELSE head
           token == [scope |-> k, tickets |-> rest \cup ({focus} \ {0}), ends |-> now + TokenTTL]
<1>1. tokens' = Append(tokens, token) /\ InScope(k) # {}
  BY DEF Preview
<1>2. TypeOK /\ SampleLimit \in Nat /\ SampleLimit > 0 /\ SampleLimit - 1 \in Nat
  <2>1. SampleLimit \in Nat \ {0}
    BY SupportAssumption
  <2>2. QED
    BY <2>1 DEF IInv, Tables
<1> HIDE DEF k
<1>3. Ordered(InScope(k), Ranks) /\ Ordered(Sample(k), Ranks)
  BY <1>2, RanksOrder DEF InScope, Sample
<1>4. /\ IsFiniteSet(Sample(k))
      /\ Cardinality(Sample(k)) <= SampleLimit
  BY <1>2, <1>3, SampleIsFirst, FirstAreFew
<1>5. Sample(k) # {}
  <2>1. CASE Sample(k) = InScope(k)
    BY <1>1, <2>1
  <2>2. CASE Sample(k) # InScope(k)
    <3>1. Cardinality(Sample(k)) = SampleLimit
      BY <1>2, <2>2, SampleHead DEF SampleIsHead
    <3>2. QED
      BY <1>2, <3>1, FS_EmptySet
  <2>3. QED
    BY <2>1, <2>2
<1>6. /\ IsFiniteSet(head) /\ Cardinality(head) \in Nat
      /\ Cardinality(head) <= SampleLimit - 1
      /\ head \subseteq Sample(k)
  <2>1. \A j \in Sample(k) : {l \in Sample(k) : RankedBefore(l, j)} = Before(Sample(k), Ranks, j)
    BY DEF Sample, InScope, Before, Ranks
  <2>2. head = FirstOf(Sample(k), Ranks, SampleLimit - 1)
    BY <2>1 DEF FirstOf
  <2>3. head \subseteq Sample(k)
    OBVIOUS
  <2> HIDE DEF head
  <2>4. QED
    BY <1>2, <1>3, <2>2, <2>3, FirstAreFew
<1> HIDE DEF head
<1>7. token.tickets # {} /\ Cardinality(token.tickets) <= SampleLimit
  <2>1. CASE focus \in Sample(k) \cup {0}
    <3>1. token.tickets = Sample(k)
      BY <2>1
    <3>2. QED
      BY <1>4, <1>5, <3>1
  <2>2. CASE focus \notin Sample(k) \cup {0}
    <3>1. token.tickets = head \cup {focus}
      BY <2>2
    <3>2. focus \notin head
      BY <1>6, <2>2
    <3>3. Cardinality(head \cup {focus}) = Cardinality(head) + 1
      BY <1>6, <3>2, FS_AddElement
    <3>4. Cardinality(head) + 1 <= SampleLimit
      BY <1>2, <1>6
    <3>5. QED
      BY <3>1, <3>3, <3>4
  <2>3. QED
    BY <2>1, <2>2
<1> HIDE DEF token
<1>8. \A t \in DOMAIN tokens' : \/ t \in DOMAIN tokens /\ tokens'[t] = tokens[t]
                               \/ tokens'[t] = token
  <2>1. tokens \in Seq(Token)
    BY DEF IInv, Tables
  <2>2. QED
    BY <1>1, <2>1
<1>9. QED
  BY <1>7, <1>8 DEF TokensBounded

\* S, but for one ticket perhaps, is a head of the queue k: its tickets wait there, ranked
\* before every ticket of the queue that S leaves out; and it leaves none out below the limit.
HeadBut(focus, k, S) ==
  /\ S \ {focus} \subseteq InScope(k)
  /\ \A i \in S \ {focus}, j \in InScope(k) \ S : RankedBefore(i, j)
  /\ ~(InScope(k) \subseteq S) => Cardinality(S) = SampleLimit

\* A token that is issued covers the head of its queue and at most one other ticket,
\* the one the admin looks at.
NewTokensAreHeads ==
  \A t \in DOMAIN tokens' \ DOMAIN tokens :
    \E focus \in Ids \cup {0} : HeadBut(focus, tokens'[t].scope, tokens'[t].tickets)

\* A sample that gives up its last tickets for the one in front is still a head.
LEMMA PreviewTakesHead ==
  ASSUME IInv, NEW i \in Ids, NEW focus \in Ids \cup {0}, Preview(Scope(i), focus)
  PROVE  NewTokensAreHeads
<1> DEFINE k == Scope(i)
           head == {j \in Sample(k) : Cardinality({l \in Sample(k) : RankedBefore(l, j)})
                                        < SampleLimit - 1}
           rest == IF focus \in Sample(k) \cup {0} THEN Sample(k) ELSE head
           token == [scope |-> k, tickets |-> rest \cup ({focus} \ {0}), ends |-> now + TokenTTL]
<1>1. tokens' = Append(tokens, token)
  BY DEF Preview
<1>2. TypeOK /\ SampleLimit \in Nat /\ SampleLimit - 1 \in Nat
  <2>1. SampleLimit \in Nat \ {0}
    BY SupportAssumption
  <2>2. QED
    BY <2>1 DEF IInv, Tables
<1> HIDE DEF k
<1>3. Sample(k) \subseteq InScope(k) /\ head \subseteq Sample(k) /\ 0 \notin InScope(k)
  BY <1>2 DEF Sample, InScope, TypeOK, Ids
<1>4. \A a \in Sample(k), b \in InScope(k) \ Sample(k) : RankedBefore(a, b)
  BY <1>2, SampleHead DEF SampleIsHead
<1>5. \A a \in head, b \in Sample(k) \ head : RankedBefore(a, b)
  <2>1. \A j \in Sample(k) : {l \in Sample(k) : RankedBefore(l, j)} = Before(Sample(k), Ranks, j)
    BY DEF Sample, InScope, Before, Ranks
  <2>2. head = FirstOf(Sample(k), Ranks, SampleLimit - 1)
    BY <2>1 DEF FirstOf
  <2>3. Ordered(Sample(k), Ranks)
    BY <1>2, RanksOrder DEF InScope, Sample
  <2> HIDE DEF head
  <2>4. \A a \in head, b \in Sample(k) \ head : <<a, b>> \in Ranks
    BY <1>2, <2>2, <2>3, FirstComeFirst
  <2>5. QED
    BY <2>4 DEF Ranks
<1>6. focus \notin Sample(k) /\ head # InScope(k) => Cardinality(head \cup {focus}) = SampleLimit
  <2>1. \A j \in Sample(k) : {l \in Sample(k) : RankedBefore(l, j)} = Before(Sample(k), Ranks, j)
    BY DEF Sample, InScope, Before, Ranks
  <2>2. head = FirstOf(Sample(k), Ranks, SampleLimit - 1)
    BY <2>1 DEF FirstOf
  <2>3. Ordered(InScope(k), Ranks) /\ Ordered(Sample(k), Ranks)
    BY <1>2, RanksOrder DEF InScope, Sample
  <2> HIDE DEF head
  <2>4. IsFiniteSet(head) /\ Cardinality(head) <= SampleLimit - 1
    BY <1>2, <2>2, <2>3, FirstAreFew
  <2>5. head # Sample(k) => Cardinality(head) = SampleLimit - 1
    BY <1>2, <2>2, <2>3, FirstAreAll
  <2>6. Sample(k) # InScope(k) => Cardinality(Sample(k)) = SampleLimit
    BY <1>2, SampleHead DEF SampleIsHead
  <2>7. head = Sample(k) => Sample(k) = InScope(k)
    BY <1>2, <2>4, <2>6
  <2>8. SUFFICES ASSUME focus \notin Sample(k), head # InScope(k)
                 PROVE  Cardinality(head \cup {focus}) = SampleLimit
    OBVIOUS
  <2>9. Cardinality(head) = SampleLimit - 1 /\ focus \notin head
    BY <1>3, <2>5, <2>7, <2>8
  <2>10. Cardinality(head \cup {focus}) = Cardinality(head) + 1
    BY <2>4, <2>9, FS_AddElement
  <2>11. QED
    BY <1>2, <2>9, <2>10
<1> HIDE DEF head
<1>7. HeadBut(focus, k, rest \cup ({focus} \ {0}))
  <2>1. CASE focus \in Sample(k) \cup {0}
    <3>1. rest \cup ({focus} \ {0}) = Sample(k)
      BY <2>1
    <3>2. Sample(k) # InScope(k) => Cardinality(Sample(k)) = SampleLimit
      BY <1>2, SampleHead DEF SampleIsHead
    <3>3. QED
      BY <1>3, <1>4, <3>1, <3>2 DEF HeadBut
  <2>2. CASE focus \notin Sample(k) \cup {0}
    <3>1. rest \cup ({focus} \ {0}) = head \cup {focus}
      BY <2>2
    <3>2. ~(InScope(k) \subseteq head \cup {focus}) => Cardinality(head \cup {focus}) = SampleLimit
      BY <1>3, <1>6, <2>2
    <3>3. QED
      BY <1>3, <1>4, <1>5, <3>1, <3>2 DEF HeadBut
  <2>3. QED
    BY <2>1, <2>2
<1>8. token.scope = k /\ token.tickets = rest \cup ({focus} \ {0})
  OBVIOUS
<1> HIDE DEF token, rest
<1>9. \A t \in DOMAIN tokens' \ DOMAIN tokens : tokens'[t] = token
  <2>1. tokens \in Seq(Token)
    BY DEF IInv, Tables
  <2>2. QED
    BY <1>1, <2>1
<1>10. QED
  BY <1>7, <1>8, <1>9 DEF NewTokensAreHeads

\* What run_web_admin_support_triage_confirm_action shows for confirmation is the head
\* of its queue, whatever messages, replies and tokens came before; also when the
\* ticket the admin looks at takes the place of the last one.
THEOREM TokensAreHeads == Spec => [][NewTokensAreHeads]_vars
<1>1. IInv /\ [Next]_vars => NewTokensAreHeads
  <2>1. SUFFICES ASSUME IInv, [Next]_vars PROVE NewTokensAreHeads
    OBVIOUS
  <2>2. CASE \E i \in Ids, focus \in Ids \cup {0} : Preview(Scope(i), focus)
    BY <2>1, <2>2, PreviewTakesHead
  <2>3. CASE UNCHANGED tokens
    BY <2>3 DEF NewTokensAreHeads
  <2>4. QED
    BY <2>1, <2>2, <2>3 DEF Next, Tick, UserStep, AdminStep, Commit, Crash, vars, BeginCreate,
       BeginAdd, BeginReply, BeginStatus, BeginApply, ReadsOnly, CommitCreate, CommitAdd,
       CommitReply, Tell, CommitStatus, CommitApply
<1>2. QED
  BY <1>1, SupportInvariant, PTL DEF Spec

\* A confirmation answers SUPPORT_TRIAGE_APPLY_MAX_TICKETS tickets at most, also when the
\* ticket the admin looks at is put in front of the sample.
THEOREM TokensAreBounded == Spec => []TokensBounded
<1>1. Init => TokensBounded
  BY DEF Init, TokensBounded
<1>2. IInv /\ TokensBounded /\ [Next]_vars => TokensBounded'
  <2>1. SUFFICES ASSUME IInv, TokensBounded, [Next]_vars PROVE TokensBounded'
    OBVIOUS
  <2>2. CASE \E i \in Ids, focus \in Ids \cup {0} : Preview(Scope(i), focus)
    BY <2>1, <2>2, PreviewBounds
  <2>3. CASE UNCHANGED tokens
    BY <2>1, <2>3 DEF TokensBounded
  <2>4. QED
    BY <2>1, <2>2, <2>3 DEF Next, Tick, UserStep, AdminStep, Commit, Crash, vars, BeginCreate,
       BeginAdd, BeginReply, BeginStatus, BeginApply, ReadsOnly, CommitCreate, CommitAdd,
       CommitReply, Tell, CommitStatus, CommitApply
<1>3. QED
  BY <1>1, <1>2, SupportInvariant, PTL DEF Spec

=============================================================================
