------------------------------ MODULE Support ------------------------------
(***************************************************************************)
(* The support desk: tickets and their messages (support_ticket_flow), the *)
(* messages of users and of the admin, closing and reopening, and the      *)
(* triage of the web dashboard, where a signed token issued by a preview   *)
(* later applies a canned reply to the previewed tickets.                  *)
(*                                                                         *)
(* A handler checks the ticket in one step and commits in a later one; its *)
(* UPDATE writes only the columns it changed.  Messages carry the time     *)
(* Telegram took them (message.date, whole seconds): handlers can be late  *)
(* and out of order, and two messages can have the same time.              *)
(*                                                                         *)
(* Abstractions: one admin; texts, audit rows and screens are left out.    *)
(* The forms in the FSM storage only route a text to its handler: here any *)
(* text a form may wait for can come at any time, and come twice.          *)
(***************************************************************************)
EXTENDS Integers, Sequences, FiniteSets, SequencesExt

CONSTANTS
  Users,
  Categories,   \* subset of {"payment", "access", "technical", "other"}
  DailyLimit,   \* SUPPORT_TICKET_DAILY_LIMIT
  Day,          \* one day, in units of the clock, as are the next four
  DueHigh,      \* SUPPORT_SLA_HOURS_BY_PRIORITY, high
  DueNormal,    \* and normal
  StaleAfter,   \* SUPPORT_STALE_HOURS
  TokenTTL,     \* SUPPORT_TRIAGE_APPLY_TOKEN_TTL_MINUTES
  SampleLimit,  \* SUPPORT_TRIAGE_APPLY_MAX_TICKETS
  MaxDelay,     \* bound on the time from message.date to its handler
  MaxTime, MaxTickets, MaxMessages, MaxTokens, MaxSessions  \* bounds

ASSUME SupportAssumption ==
  /\ Categories \subseteq {"payment", "access", "technical", "other"}
  /\ {DailyLimit, Day, DueHigh, DueNormal, TokenTTL, SampleLimit} \subseteq Nat \ {0}
  /\ StaleAfter \in Nat
  /\ {MaxDelay, MaxTime, MaxTickets, MaxMessages, MaxTokens, MaxSessions} \subseteq Nat

VARIABLES
  now,       \* utcnow()
  tickets,   \* table support_tickets
  messages,  \* table support_messages: messages[i] of ticket i, as committed
  tokens,    \* triage tokens the dashboard has issued
  sessions,  \* open sessions of handlers and requests
  reopened,  \* history: tickets an admin has reopened
  overlapped \* history: two sessions were open at once

vars == <<now, tickets, messages, tokens, sessions, reopened, overlapped>>

-----------------------------------------------------------------------------
Never == -1
NoToken == 0

Ids == DOMAIN tickets
Ticket == [user : Users, category : Categories, status : {"open", "closed"},
           created : Nat, lastUser : Nat, lastAdmin : Nat \cup {Never}, updated : Nat]
Message == [admin : BOOLEAN, at : Nat, token : Nat]

Session ==
  [op : {"create"}, user : Users, category : Categories, at : Nat]
  \cup [op : {"add"}, user : Users, ticket : Ids, at : Nat]
  \cup [op : {"reply", "close", "reopen"}, ticket : Ids, at : Nat]
  \cup [op : {"tell"}, ticket : Ids]
  \cup [op : {"apply"}, token : DOMAIN tokens, tickets : SUBSET Ids, at : Nat]

TypeOK ==
  /\ now \in Nat
  /\ tickets \in Seq(Ticket)
  /\ messages \in [Ids -> Seq(Message)]
  /\ \A k \in DOMAIN tokens : tokens[k].tickets \subseteq Ids
  /\ sessions \subseteq Session
  /\ reopened \subseteq Ids

-----------------------------------------------------------------------------
(* Where a ticket stands: support_sla *)

Open(i) == tickets[i].status = "open"
OpenOf(u) == {i \in Ids : tickets[i].user = u /\ Open(i)}

HighPriority(i) == tickets[i].category \in {"payment", "access"}
Due(i) == IF HighPriority(i) THEN DueHigh ELSE DueNormal

WaitingState(i) ==
  IF ~Open(i) THEN "closed"
  ELSE IF tickets[i].lastAdmin = Never \/ tickets[i].lastUser > tickets[i].lastAdmin
       THEN "awaiting_admin" ELSE "awaiting_user"

Breach(i) == now - tickets[i].updated >= Due(i)
Stale(i) == tickets[i].updated < now - StaleAfter

ReplyPack(i) == <<WaitingState(i), tickets[i].category>>

ActionLane(i) ==
  CASE WaitingState(i) = "awaiting_user" -> "waiting_user_followup"
    [] Breach(i) -> "reply_now"
    [] tickets[i].category = "payment" -> "payment_review"
    [] tickets[i].category = "access" -> "access_review"
    [] tickets[i].category = "technical" -> "technical_triage"
    [] OTHER -> "clarify_request"

EscalationLane(i) ==
  IF WaitingState(i) = "awaiting_admin" /\ tickets[i].category # "other"
  THEN tickets[i].category
  ELSE CASE WaitingState(i) = "awaiting_user" /\ Stale(i) -> "waiting_user_risk"
         [] HighPriority(i) /\ Stale(i) -> "stale_high_priority"
         [] Breach(i) -> "reply_breach"
         [] HighPriority(i) -> "high_priority_watch"
         [] OTHER -> "routine_queue"

\* The queue of the triage a ticket is in: one item of the dashboard.
Scope(i) == <<EscalationLane(i), ActionLane(i), ReplyPack(i)>>
InScope(k) == {i \in Ids : Open(i) /\ Scope(i) = k}

\* _support_ticket_queue_rank_key, for tickets of one scope: they wait for the same
\* side and, of one category, have the same priority and hours due, so that of two
\* tickets that are not in breach the one with the warning is the older.
RankedBefore(i, j) ==
  IF Breach(i) # Breach(j) THEN Breach(i)
  ELSE \/ tickets[i].updated < tickets[j].updated
       \/ tickets[i].updated = tickets[j].updated /\ i < j

Sample(k) == {i \in InScope(k) :
                Cardinality({j \in InScope(k) : RankedBefore(j, i)}) < SampleLimit}

-----------------------------------------------------------------------------
Init ==
  /\ now = 0
  /\ tickets = <<>>
  /\ messages = <<>>
  /\ tokens = <<>>
  /\ sessions = {}
  /\ reopened = {}
  /\ overlapped = FALSE

Tick ==
  /\ now < MaxTime
  /\ now' = now + 1
  /\ UNCHANGED <<tickets, messages, tokens, sessions,
                 reopened, overlapped>>

Total == FoldSeq(LAMBDA s, n : n + Len(s), 0, messages)

Begins(s) ==
  /\ Cardinality(sessions) < MaxSessions
  /\ s \notin sessions
  /\ sessions' = sessions \cup {s}
  /\ overlapped' = (overlapped \/ sessions # {})

Ends(s) ==
  /\ s \in sessions
  /\ sessions' = sessions \ {s}
  /\ UNCHANGED overlapped

SentAt == {t \in 0..now : now - MaxDelay <= t}

\* A message of ticket i is stored; its time goes to column last_..._message_at.
Stores(i, m) ==
  /\ Total < MaxMessages
  /\ messages' = [messages EXCEPT ![i] = Append(@, m)]

-----------------------------------------------------------------------------
(* The user *)

ReadsOnly == UNCHANGED <<now, tickets, messages, tokens, reopened>>

\* Mutant of BeginCreate: an open ticket of the user is no obstacle.
BeginCreateAnyway(u, c, at) ==
  /\ Len(tickets) < MaxTickets
  /\ Begins([op |-> "create", user |-> u, category |-> c, at |-> at])
  /\ ReadsOnly

\* receive_support_message, create_support_ticket: no open ticket, and less than
\* DailyLimit created in the last day.
BeginCreate(u, c, at) ==
  /\ OpenOf(u) = {}
  /\ Cardinality({i \in Ids : tickets[i].user = u /\ tickets[i].created >= at - Day})
       < DailyLimit
  /\ Len(tickets) < MaxTickets
  /\ Begins([op |-> "create", user |-> u, category |-> c, at |-> at])
  /\ ReadsOnly

\* Mutant of CommitCreate: last_user_message_at is not set.
CommitCreateNew(s) ==
  /\ s.op = "create"
  /\ Total < MaxMessages
  /\ Len(tickets) < MaxTickets
  /\ tickets' = Append(tickets,
       [user |-> s.user, category |-> s.category, status |-> "open", created |-> s.at,
        lastUser |-> Never, lastAdmin |-> Never, updated |-> s.at])
  /\ messages' = Append(messages, <<[admin |-> FALSE, at |-> s.at, token |-> NoToken]>>)
  /\ Ends(s)
  /\ UNCHANGED <<now, tokens, reopened>>

CommitCreate(s) ==
  /\ s.op = "create"
  /\ Total < MaxMessages
  /\ Len(tickets) < MaxTickets
  /\ tickets' = Append(tickets,
       [user |-> s.user, category |-> s.category, status |-> "open", created |-> s.at,
        lastUser |-> s.at, lastAdmin |-> Never, updated |-> s.at])
  /\ messages' = Append(messages, <<[admin |-> FALSE, at |-> s.at, token |-> NoToken]>>)
  /\ Ends(s)
  /\ UNCHANGED <<now, tokens, reopened>>

\* receive_support_message, add_user_ticket_message.
BeginAdd(u, i, at) ==
  /\ i \in OpenOf(u)
  /\ Begins([op |-> "add", user |-> u, ticket |-> i, at |-> at])
  /\ ReadsOnly

\* Mutant of CommitAdd: only updated_at is written.
CommitAddUpdatedOnly(s) ==
  /\ s.op = "add"
  /\ Stores(s.ticket, [admin |-> FALSE, at |-> s.at, token |-> NoToken])
  /\ tickets' = [tickets EXCEPT ![s.ticket].updated = s.at]
  /\ Ends(s)
  /\ UNCHANGED <<now, tokens, reopened>>

CommitAdd(s) ==
  /\ s.op = "add"
  /\ Stores(s.ticket, [admin |-> FALSE, at |-> s.at, token |-> NoToken])
  /\ tickets' = [tickets EXCEPT ![s.ticket].lastUser = s.at, ![s.ticket].updated = s.at]
  /\ Ends(s)
  /\ UNCHANGED <<now, tokens, reopened>>

-----------------------------------------------------------------------------
(* The admin in Telegram *)

\* admin_support_receive_reply, add_admin_ticket_reply.
BeginReply(i, at) ==
  /\ Open(i)
  /\ Begins([op |-> "reply", ticket |-> i, at |-> at])
  /\ ReadsOnly

\* The reply is committed before the user is notified of it.
CommitReply(s) ==
  /\ s.op = "reply"
  /\ Stores(s.ticket, [admin |-> TRUE, at |-> s.at, token |-> NoToken])
  /\ tickets' = [tickets EXCEPT ![s.ticket].lastAdmin = s.at, ![s.ticket].updated = s.at]
  /\ s \in sessions
  /\ sessions' = (sessions \ {s}) \cup {[op |-> "tell", ticket |-> s.ticket]}
  /\ UNCHANGED <<now, tokens, reopened, overlapped>>

\* The user is notified or the admin is told that the reply failed, though it is stored.
Tell(s) ==
  /\ s.op = "tell"
  /\ Ends(s)
  /\ UNCHANGED <<now, tickets, messages, tokens, reopened>>

\* admin_support_close, admin_support_reopen: event_time is taken here.
BeginStatus(op, i) ==
  /\ Open(i) <=> op = "close"
  /\ Begins([op |-> op, ticket |-> i, at |-> now])
  /\ ReadsOnly

CommitStatus(s) ==
  /\ s.op \in {"close", "reopen"}
  /\ tickets' = [tickets EXCEPT
                   ![s.ticket].status = IF s.op = "close" THEN "closed" ELSE "open",
                   ![s.ticket].updated = s.at]
  /\ reopened' = IF s.op = "reopen" THEN reopened \cup {s.ticket} ELSE reopened
  /\ Ends(s)
  /\ UNCHANGED <<now, messages, tokens>>

-----------------------------------------------------------------------------
(* The triage of the dashboard *)

\* run_web_admin_support_triage_confirm_action: the sample of an item, and the
\* ticket the admin looks at in front of it.
Preview(k, focus) ==
  /\ Len(tokens) < MaxTokens
  /\ InScope(k) # {}
  /\ LET rest == IF focus \in Sample(k) \cup {0} THEN Sample(k)
                 ELSE {i \in Sample(k) : Cardinality({j \in Sample(k) : RankedBefore(j, i)})
                                           < SampleLimit - 1}
     IN tokens' = Append(tokens, [scope |-> k, tickets |-> rest \cup ({focus} \ {0}),
                                  ends |-> now + TokenTTL])
  /\ UNCHANGED <<now, tickets, messages, sessions, reopened,
                 overlapped>>

\* Mutant of InTokenScope: the tickets only have to be open.
StillOpen(t, S) == \A i \in S : Open(i)

InTokenScope(t, S) == S \subseteq InScope(tokens[t].scope)

\* run_web_admin_support_triage_apply_action: the token has not ended, and every
\* ticket is open and still in the scope that was previewed.
BeginApply(t, S) ==
  /\ now < tokens[t].ends
  /\ S = tokens[t].tickets \/ Cardinality(S) = 1
  /\ InTokenScope(t, S)
  /\ Begins([op |-> "apply", token |-> t, tickets |-> S, at |-> now])
  /\ ReadsOnly

\* add_admin_ticket_reply reads every ticket again; one that was closed undoes
\* all.  Notifications are sent after the commit, each may fail.
CommitApply(s) ==
  /\ s.op = "apply"
  /\ Ends(s)
  /\ IF \A i \in s.tickets : Open(i)
     THEN /\ Total + Cardinality(s.tickets) <= MaxMessages
          /\ tickets' = [i \in Ids |-> IF i \in s.tickets
               THEN [tickets[i] EXCEPT !.lastAdmin = s.at, !.updated = s.at]
               ELSE tickets[i]]
          /\ messages' = [i \in Ids |-> IF i \in s.tickets
               THEN Append(messages[i], [admin |-> TRUE, at |-> s.at, token |-> s.token])
               ELSE messages[i]]
     ELSE UNCHANGED <<tickets, messages>>
  /\ UNCHANGED <<now, tokens, reopened>>

-----------------------------------------------------------------------------
\* Open sessions are rolled back.
Crash ==
  /\ sessions # {}
  /\ sessions' = {}
  /\ UNCHANGED <<now, tickets, messages, tokens, reopened, overlapped>>

UserStep ==
  \E u \in Users, at \in SentAt :
    \/ \E c \in Categories : BeginCreate(u, c, at)
    \/ \E i \in Ids : BeginAdd(u, i, at)

AdminStep ==
  \/ \E i \in Ids, at \in SentAt : BeginReply(i, at)
  \/ \E op \in {"close", "reopen"}, i \in Ids : BeginStatus(op, i)
  \/ \E i \in Ids, focus \in Ids \cup {0} : Preview(Scope(i), focus)
  \/ \E t \in DOMAIN tokens : \E S \in SUBSET tokens[t].tickets : BeginApply(t, S)

Commit ==
  \E s \in sessions :
    \/ CommitCreate(s)
    \/ CommitAdd(s)
    \/ CommitReply(s)
    \/ Tell(s)
    \/ CommitStatus(s)
    \/ CommitApply(s)

Next == Tick \/ UserStep \/ AdminStep \/ Commit \/ Crash

Spec == Init /\ [][Next]_vars

-----------------------------------------------------------------------------
(* Properties *)

\* As long as sessions do not overlap, a user has one open ticket, those an
\* admin reopened apart: create_support_ticket refuses a second one, and
\* nothing in the database does; reopen_support_ticket does not look.
SerialOneOpen ==
  ~overlapped => \A u \in Users : Cardinality(OpenOf(u) \ reopened) <= 1

\* While the messages of a ticket were stored in the order of their times, the
\* two time columns tell who waits for whom: the admin has to answer exactly
\* when a user's message is later than every reply.
InOrder(i) ==
  \A a, b \in DOMAIN messages[i] : a < b => messages[i][a].at <= messages[i][b].at

Unanswered(i) ==
  \E a \in DOMAIN messages[i] :
    /\ ~messages[i][a].admin
    /\ \A b \in DOMAIN messages[i] : messages[i][b].admin => messages[i][b].at < messages[i][a].at

WaitingIsUnanswered ==
  \A i \in Ids : Open(i) /\ InOrder(i) => (WaitingState(i) = "awaiting_admin" <=> Unanswered(i))

\* As long as sessions do not overlap and messages come in order, a triage token
\* whose tickets waited for the admin answers a ticket once until its user writes
\* again: the reply moves the ticket out of the token's scope.  (A reply in Telegram
\* that is stored late, with an older time, moves it back.)
SerialTokenAnswersOnce ==
  ~overlapped =>
    \A i \in Ids : InOrder(i) => \A a, b \in DOMAIN messages[i] :
      /\ a < b
      /\ messages[i][a].token # NoToken
      /\ messages[i][a].token = messages[i][b].token
      /\ tokens[messages[i][a].token].scope[3][1] = "awaiting_admin"
      => \E c \in (a + 1)..(b - 1) : ~messages[i][c].admin
=============================================================================
