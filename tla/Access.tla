------------------------------- MODULE Access -------------------------------
(***************************************************************************)
(* The paid access of the bot: the table subscriptions, the payment        *)
(* handlers that write it (activate_or_extend_subscription called by       *)
(* process_successful_stars_payment and sync_crypto_invoice) and the       *)
(* background pass that warns, notices and revokes                         *)
(* (process_expired_subscriptions), all for one private channel.           *)
(*                                                                         *)
(* Every handler and every pass works in a database session of its own     *)
(* under READ COMMITTED, without row locks or version columns: it reads    *)
(* rows, keeps them in the session and writes back at its commit the       *)
(* columns it changed.  A session is therefore a record of what it read,   *)
(* and its commit an update of the columns of the stored row.              *)
(*                                                                         *)
(* Abstractions: one channel and one ordinary tariff of Days ticks; the    *)
(* texts, offers and audit rows are left out; a *_sent_at column is a      *)
(* Boolean.  A worker's phase that only sends messages is one step.        *)
(***************************************************************************)
EXTENDS Integers, Sequences, FiniteSets

CONSTANTS
  Users,       \* subscribers
  Charges,     \* telegram_payment_charge_id of every payment made
  Owner,       \* Owner[c]: the user who pays charge c
  Handlers,    \* handlers that can run at once: tasks of the dispatcher, webhook requests
  Days,        \* duration of the tariff
  Warn3,       \* a 3-day warning is due this long before the end ...
  Warn1,       \* ... and a 1-day warning this long
  Grace,       \* GRACE_PERIOD_HOURS, at least one tick
  BatchLimit,  \* rows one phase of a pass takes at most (batch_limit)
  MaxTime,     \* bound on the clock
  MaxMishaps   \* bound on failed removals, failed passes and restarts, together

ASSUME AccessAssumption ==
  /\ Owner \in [Charges -> Users]
  /\ Days \in Nat \ {0}
  /\ Warn3 \in Nat
  /\ Warn1 \in Nat
  /\ Grace \in Nat \ {0}
  /\ BatchLimit \in Nat
  /\ MaxTime \in Nat
  /\ MaxMishaps \in Nat

VARIABLES
  now,      \* utcnow()
  subs,     \* table subscriptions: the row with id i is subs[i]
  payments, \* charges with a row in table payments (the column is UNIQUE)
  paidAt,   \* paidAt[c]: when the provider took the money of c (message.date, remote.paid_at)
  sessions, \* open sessions of payment handlers
  cycle,    \* the pass of the expirer and the writes its session holds
  member,   \* member[u]: whether u is in the channel, and what a pass was told of him
  mishaps,  \* failed removals, failed passes and restarts so far
  credits,  \* history: credits[c] activations were committed for charge c
  overlap   \* history: two sessions have been open at the same time

vars == <<now, subs, payments, paidAt, sessions, cycle, member,
          mishaps, credits, overlap>>

-----------------------------------------------------------------------------
(* Rows, sessions and passes *)

NoTime == -1
Moment == Nat \cup {NoTime}

Row == [user    : Users,
        status  : {"active", "expired"},
        started : Nat,
        expires : Nat,
        warn3   : BOOLEAN,
        warn1   : BOOLEAN,
        notice  : BOOLEAN,
        grace   : Moment,
        revoked : Moment]

\* Mutant of NewRow: started_at is left out.
NewRowWithoutStart(u, at) ==
  [user |-> u, status |-> "active", started |-> NoTime, expires |-> at + Days,
   warn3 |-> FALSE, warn1 |-> FALSE, notice |-> FALSE,
   grace |-> NoTime, revoked |-> NoTime]

NewRow(u, at) ==
  [user |-> u, status |-> "active", started |-> at, expires |-> at + Days,
   warn3 |-> FALSE, warn1 |-> FALSE, notice |-> FALSE,
   grace |-> NoTime, revoked |-> NoTime]

\* current is None: neither condition of activate_or_extend holds of this row.
NoRow(u) ==
  [user |-> u, status |-> "expired", started |-> 0, expires |-> 0,
   warn3 |-> FALSE, warn1 |-> FALSE, notice |-> FALSE,
   grace |-> NoTime, revoked |-> 0]

\* id is 0 and row is NoRow when the user has no subscription yet.
Session == [handler : Handlers, charge : Charges, id : Nat, row : Row]

Phases == {"idle", "warn1", "notice", "revoke", "remove"}

Cycle == [phase   : Phases,
          at      : Nat,
          todo    : SUBSET Nat,   \* rows of the grace_revoke query not yet handled
          warned3 : SUBSET Nat,   \* the rest: ids of the rows whose columns changed
          warned1 : SUBSET Nat,
          noticed : SUBSET Nat,
          marked  : SUBSET Nat,
          revoked : SUBSET Nat]

Idle == [phase |-> "idle", at |-> 0, todo |-> {}, warned3 |-> {}, warned1 |-> {},
         noticed |-> {}, marked |-> {}, revoked |-> {}]

\* A forgotten user is in the channel like a member, but a pass that was to remove
\* him was told that he, or the channel, does not exist.
Standings == {"out", "member", "forgotten", "banned"}
InChannel(u) == member[u] \in {"member", "forgotten"}

Ids == DOMAIN subs
IsLive(row) == row.status = "active" /\ row.revoked = NoTime
IsCurrent(row) == IsLive(row) /\ row.expires > now
HasCurrent(u) == \E i \in Ids : subs[i].user = u /\ IsCurrent(subs[i])

-----------------------------------------------------------------------------
(* The queries of SubscriptionRepository *)

RowsOf(u) == {i \in Ids : subs[i].user = u}

\* ORDER BY expires_at DESC, id DESC LIMIT 1, whatever the status of the row.
IsLatest(i, u) ==
  /\ i \in RowsOf(u)
  /\ \A j \in RowsOf(u) : \/ subs[j].expires < subs[i].expires
                          \/ subs[j].expires = subs[i].expires /\ j <= i

DueForWarning3(at) == {i \in Ids : /\ IsLive(subs[i])
                                   /\ ~subs[i].warn3
                                   /\ subs[i].expires > at + Warn1
                                   /\ subs[i].expires <= at + Warn3}
DueForWarning1(at) == {i \in Ids : /\ IsLive(subs[i])
                                   /\ ~subs[i].warn1
                                   /\ subs[i].expires > at
                                   /\ subs[i].expires <= at + Warn1}

\* Mutant of DueForNotice: the window of the 1-day warning.
DueForNoticeEarly(at) == {i \in Ids : /\ IsLive(subs[i])
                                      /\ ~subs[i].notice
                                      /\ subs[i].expires <= at + Warn1}
DueForNotice(at)   == {i \in Ids : /\ IsLive(subs[i])
                                   /\ ~subs[i].notice
                                   /\ subs[i].expires <= at}

\* Mutants of DueForRevoke: no look at the clock; only rows whose
\* notice went out.
DueForRevokeAnyMark(at)  == {i \in Ids : IsLive(subs[i]) /\ subs[i].grace # NoTime}
DueForRevokeNoticed(at)  == {i \in Ids : /\ IsLive(subs[i])
                                         /\ subs[i].notice
                                         /\ subs[i].grace # NoTime
                                         /\ subs[i].grace <= at}
\* The query looks at grace_revoke_after only, never at expires_at.
DueForRevoke(at)   == {i \in Ids : /\ IsLive(subs[i])
                                   /\ subs[i].grace # NoTime
                                   /\ subs[i].grace <= at}

\* ORDER BY key ASC LIMIT BatchLimit: the rows taken, key[i] being the sort column.
Batches(due, key) ==
  {S \in SUBSET due :
     /\ Cardinality(S) <= BatchLimit
     /\ Cardinality(S) < BatchLimit => S = due
     /\ \A i \in S, j \in due \ S : key[i] <= key[j]}

Ends   == [i \in Ids |-> subs[i].expires]
Graces == [i \in Ids |-> subs[i].grace]

-----------------------------------------------------------------------------
(* Payments *)

Init ==
  /\ now = 0
  /\ subs = <<>>
  /\ payments = {}
  /\ paidAt = [c \in Charges |-> NoTime]
  /\ sessions = {}
  /\ cycle = Idle
  /\ member = [u \in Users |-> "out"]
  /\ mishaps = 0
  /\ credits = [c \in Charges |-> 0]
  /\ overlap = FALSE

Tick ==
  /\ now < MaxTime
  /\ now' = now + 1
  /\ UNCHANGED <<subs, payments, paidAt, sessions, cycle, member,
                 mishaps, credits, overlap>>

\* The user pays: Telegram or Crypto Pay takes the money.
Pay(c) ==
  /\ paidAt[c] = NoTime
  /\ paidAt' = [paidAt EXCEPT ![c] = now]
  /\ UNCHANGED <<now, subs, payments, sessions, cycle, member,
                 mishaps, credits, overlap>>

\* A handler takes the notification of charge c (which may be delivered again
\* at any time), finds no payment with this charge id and reads the row that
\* activate_or_extend_subscription works on.
BeginPayment(h, c) ==
  LET u == Owner[c] IN
  /\ paidAt[c] # NoTime
  /\ c \notin payments
  /\ \A s \in sessions : s.handler # h
  /\ \/ /\ RowsOf(u) = {}
        /\ sessions' = sessions \cup
             {[handler |-> h, charge |-> c, id |-> 0, row |-> NoRow(u)]}
     \/ \E i \in Ids :
          /\ IsLatest(i, u)
          /\ sessions' = sessions \cup
               {[handler |-> h, charge |-> c, id |-> i, row |-> subs[i]]}
  /\ overlap' = (overlap \/ sessions # {} \/ cycle.phase # "idle")
  /\ UNCHANGED <<now, subs, payments, paidAt, cycle, member,
                 mishaps, credits>>

\* Mutant of Extends: a subscription that was warned is not extended.
ExtendsUnlessWarned(row, at) == IsLive(row) /\ row.expires > at /\ ~row.warn3

Extends(row, at) == IsLive(row) /\ row.expires > at
Lapses(row, at) == row.revoked = NoTime /\ row.expires <= at

\* Mutants of Extended: the end is overwritten; the 1-day warning is not reset;
\* every column of the session's row is written; the grace period stays.
ExtendedFromStart(stored, row) ==
  [stored EXCEPT !.expires = row.started + Days,
                 !.warn3   = @ /\ ~row.warn3,
                 !.warn1   = @ /\ ~row.warn1,
                 !.notice  = @ /\ ~row.notice,
                 !.grace   = IF row.grace # NoTime THEN NoTime ELSE @]
ExtendedStillWarned(stored, row) ==
  [stored EXCEPT !.expires = row.expires + Days,
                 !.warn3   = @ /\ ~row.warn3,
                 !.notice  = @ /\ ~row.notice,
                 !.grace   = IF row.grace # NoTime THEN NoTime ELSE @]
ExtendedWholeRow(stored, row) ==
  [row EXCEPT !.expires = @ + Days, !.warn3 = FALSE, !.warn1 = FALSE,
              !.notice = FALSE, !.grace = NoTime]

ExtendedStillEnding(stored, row) ==
  [stored EXCEPT !.expires = row.expires + Days,
                 !.warn3   = @ /\ ~row.warn3,
                 !.warn1   = @ /\ ~row.warn1,
                 !.notice  = @ /\ ~row.notice]

\* The UPDATE of an extension.  A column is written only when its value in the
\* session changed: one that was already NULL when the row was read is not.
Extended(stored, row) ==
  [stored EXCEPT !.expires = row.expires + Days,
                 !.warn3   = @ /\ ~row.warn3,
                 !.warn1   = @ /\ ~row.warn1,
                 !.notice  = @ /\ ~row.notice,
                 !.grace   = IF row.grace # NoTime THEN NoTime ELSE @]

\* Rows the open pass has updated and flushed: the database holds their locks
\* until its commit.  A row is flushed with its audit row, after its message is
\* sent: until the next phase begins, the rows of a phase may still be waiting
\* for that.  A row that was only marked, because its notice could not be sent,
\* waits for the next audited row.
Locked ==
  (IF cycle.phase = "warn1" THEN {} ELSE cycle.warned3) \cup
  (IF cycle.phase = "notice" THEN {} ELSE cycle.warned1) \cup
  (IF cycle.phase = "revoke" THEN {} ELSE cycle.noticed) \cup
  (IF cycle.revoked = {} THEN {} ELSE cycle.revoked \cup cycle.marked)

ActivateOrExtend(s) ==
  LET at == paidAt[s.charge] IN
  IF Extends(s.row, at)
  THEN /\ s.id \notin Locked
       /\ subs' = [subs EXCEPT ![s.id] = Extended(@, s.row)]
  ELSE LET lapsed == IF Lapses(s.row, at) /\ s.row.status = "active"
                     THEN [subs EXCEPT ![s.id].status = "expired"]
                     ELSE subs
       IN /\ Lapses(s.row, at) /\ s.row.status = "active" => s.id \notin Locked
          /\ subs' = Append(lapsed, NewRow(s.row.user, at))

\* Mutant of CommitPayment: the charge id is not UNIQUE.
CommitPaymentNotUnique(s) ==
  /\ sessions' = sessions \ {s}
  /\ ActivateOrExtend(s)
  /\ payments' = payments \cup {s.charge}
  /\ credits' = [credits EXCEPT ![s.charge] = @ + 1]
  /\ UNCHANGED <<now, paidAt, cycle, member, mishaps, overlap>>

\* The handler inserts the payment and commits.  When another session has
\* committed the same charge id the INSERT fails and everything is rolled back.
CommitPayment(s) ==
  /\ sessions' = sessions \ {s}
  /\ \/ /\ s.charge \in payments
        /\ UNCHANGED <<subs, payments, credits>>
     \/ /\ s.charge \notin payments
        /\ ActivateOrExtend(s)
        /\ payments' = payments \cup {s.charge}
        /\ credits' = [credits EXCEPT ![s.charge] = @ + 1]
  /\ UNCHANGED <<now, paidAt, cycle, member, mishaps, overlap>>

\* The handler raises before its commit: session.rollback().
RollbackPayment(s) ==
  /\ sessions' = sessions \ {s}
  /\ UNCHANGED <<now, subs, payments, paidAt, cycle, member,
                 mishaps, credits, overlap>>

\* The user joins the channel with an invite of a subscription, which may have
\* ended since: module Invites says which links there are.
Join(u) ==
  /\ member[u] = "out"
  /\ RowsOf(u) # {}
  /\ member' = [member EXCEPT ![u] = "member"]
  /\ UNCHANGED <<now, subs, payments, paidAt, sessions, cycle,
                 mishaps, credits, overlap>>

-----------------------------------------------------------------------------
(* The expirer: process_expired_subscriptions *)

cycleOnly == <<now, subs, payments, paidAt, sessions, member,
               mishaps, credits>>

\* Each phase lists its rows and sends; sent are the rows whose message went
\* out (none of them when the warning is disabled in the settings).  The pass
\* starts with the 3-day warnings.
StartCycle ==
  /\ cycle.phase = "idle"
  /\ \E batch \in Batches(DueForWarning3(now), Ends) : \E sent \in SUBSET batch :
       cycle' = [Idle EXCEPT !.phase = "warn1", !.at = now, !.warned3 = sent]
  /\ overlap' = (overlap \/ sessions # {})
  /\ UNCHANGED cycleOnly

SendWarnings1 ==
  /\ cycle.phase = "warn1"
  /\ \E batch \in Batches(DueForWarning1(cycle.at), Ends) : \E sent \in SUBSET batch :
       cycle' = [cycle EXCEPT !.phase = "notice", !.warned1 = sent]
  /\ UNCHANGED <<cycleOnly, overlap>>

\* Mutant of SendNotices: the grace period only starts when the notice was sent.
SendNoticesMarkSent ==
  /\ cycle.phase = "notice"
  /\ \E batch \in Batches(DueForNotice(cycle.at), Ends) : \E sent \in SUBSET batch :
       cycle' = [cycle EXCEPT !.phase = "revoke",
                              !.noticed = sent,
                              !.marked = {i \in sent : subs[i].grace = NoTime}]
  /\ UNCHANGED <<cycleOnly, overlap>>

\* The grace period starts whether or not the notice could be sent.
SendNotices ==
  /\ cycle.phase = "notice"
  /\ \E batch \in Batches(DueForNotice(cycle.at), Ends) : \E sent \in SUBSET batch :
       cycle' = [cycle EXCEPT !.phase = "revoke",
                              !.noticed = sent,
                              !.marked = {i \in batch : subs[i].grace = NoTime}]
  /\ UNCHANGED <<cycleOnly, overlap>>

ListRevocations ==
  /\ cycle.phase = "revoke"
  /\ \E batch \in Batches(DueForRevoke(cycle.at), Graces) :
       cycle' = [cycle EXCEPT !.phase = "remove", !.todo = batch]
  /\ UNCHANGED <<cycleOnly, overlap>>

\* remove_user_from_channel and, when it succeeds, the revocation in the session.
\* An answer that the user or the chat does not exist counts as success: at the
\* ban it leaves a member where he is, at the unban it leaves him banned.
RemoveMember(i) ==
  LET u == subs[i].user IN
  /\ cycle.phase = "remove"
  /\ i \in cycle.todo
  /\ cycle' = [cycle EXCEPT !.todo = @ \ {i}, !.revoked = @ \cup {i}]
  /\ \/ member' = [member EXCEPT ![u] = "out"]
     \/ member' = [member EXCEPT ![u] = "banned"]
     \/ member' = [member EXCEPT ![u] = IF @ = "member" THEN "forgotten" ELSE @]
  /\ UNCHANGED <<now, subs, payments, paidAt, sessions, mishaps,
                 credits, overlap>>

\* Mutant of FailRemoval: the row is revoked all the same.
FailRemovalIgnored(i) ==
  /\ cycle.phase = "remove"
  /\ i \in cycle.todo
  /\ mishaps < MaxMishaps
  /\ mishaps' = mishaps + 1
  /\ cycle' = [cycle EXCEPT !.todo = @ \ {i}, !.revoked = @ \cup {i}]
  /\ UNCHANGED <<now, subs, payments, paidAt, sessions, member, credits, overlap>>

\* The ban fails, or the ban succeeds and the unban fails: the row is skipped.
FailRemoval(i) ==
  /\ cycle.phase = "remove"
  /\ i \in cycle.todo
  /\ mishaps < MaxMishaps
  /\ mishaps' = mishaps + 1
  /\ cycle' = [cycle EXCEPT !.todo = @ \ {i}]
  /\ \/ UNCHANGED member
     \/ member' = [member EXCEPT ![subs[i].user] = "banned"]
  /\ UNCHANGED <<now, subs, payments, paidAt, sessions, credits, overlap>>

\* What the commit of the pass makes of the stored row i.
Processed(i) ==
  [subs[i] EXCEPT !.warn3   = @ \/ i \in cycle.warned3,
                  !.warn1   = @ \/ i \in cycle.warned1,
                  !.notice  = @ \/ i \in cycle.noticed,
                  !.grace   = IF i \in cycle.marked THEN cycle.at + Grace ELSE @,
                  !.status  = IF i \in cycle.revoked THEN "expired" ELSE @,
                  !.revoked = IF i \in cycle.revoked THEN cycle.at ELSE @]

CommitCycle ==
  /\ cycle.phase = "remove"
  /\ cycle.todo = {}
  /\ subs' = [i \in Ids |-> Processed(i)]
  /\ cycle' = Idle
  /\ UNCHANGED <<now, payments, paidAt, sessions, member, mishaps,
                 credits, overlap>>

\* The pass raises: its session is rolled back and the scheduler goes on.
FailCycle ==
  /\ cycle.phase # "idle"
  /\ mishaps < MaxMishaps
  /\ mishaps' = mishaps + 1
  /\ cycle' = Idle
  /\ UNCHANGED <<now, subs, payments, paidAt, sessions, member, credits, overlap>>

\* The process dies and is restarted: open sessions are rolled back by the database.
Crash ==
  /\ mishaps < MaxMishaps
  /\ mishaps' = mishaps + 1
  /\ sessions' = {}
  /\ cycle' = Idle
  /\ UNCHANGED <<now, subs, payments, paidAt, member, credits, overlap>>

-----------------------------------------------------------------------------
Worker ==
  \/ StartCycle
  \/ SendWarnings1
  \/ SendNotices
  \/ ListRevocations
  \/ \E i \in cycle.todo : RemoveMember(i) \/ FailRemoval(i)
  \/ CommitCycle

Next ==
  \/ Tick
  \/ \E c \in Charges : Pay(c)
  \/ \E h \in Handlers, c \in Charges : BeginPayment(h, c)
  \/ \E s \in sessions : CommitPayment(s) \/ RollbackPayment(s)
  \/ \E u \in Users : Join(u)
  \/ Worker
  \/ FailCycle
  \/ Crash

Spec == Init /\ [][Next]_vars
-----------------------------------------------------------------------------
(* Properties *)

\* Every variable has its type.
TypeOK ==
  /\ now \in Nat
  /\ subs \in Seq(Row)
  /\ payments \in SUBSET Charges
  /\ paidAt \in [Charges -> Moment]
  /\ sessions \in SUBSET Session
  /\ \A s \in sessions : s.id <= Len(subs)
  /\ cycle \in Cycle
  /\ cycle.todo \subseteq Ids
  /\ member \in [Users -> Standings]
  /\ mishaps \in Nat
  /\ credits \in [Charges -> Nat]
  /\ overlap \in BOOLEAN

\* However often a payment is notified, and however the handlers of its
\* notifications and restarts interleave, it activates or extends a
\* subscription once, and only together with its row in table payments.
CreditedOnce ==
  \A c \in Charges : credits[c] = IF c \in payments THEN 1 ELSE 0

\* No subscription is revoked before the period it was first bought for and
\* the whole grace period after it are over.
ServedBeforeRevoke ==
  \A i \in Ids : subs[i].revoked # NoTime =>
                   subs[i].revoked >= subs[i].started + Days + Grace

\* The same of the channel itself, where a removal is final even when the pass
\* dies before it commits: a user is only removed, or banned, on account of
\* a subscription whose first period and grace period are over.
ServedBeforeRemoval ==
  [][\A u \in Users : InChannel(u) /\ ~InChannel(u)' =>
       \E i \in RowsOf(u) : now >= subs[i].started + Days + Grace]_vars

\* A revoked subscription is never brought back: its revocation stands and it
\* stays expired, whatever sessions that read it earlier write.
RevokedIsFinal ==
  [][\A i \in Ids : subs[i].revoked # NoTime =>
       /\ subs'[i].revoked = subs[i].revoked
       /\ subs'[i].status = "expired"]_vars

\* While sessions do not overlap, a user never has two current subscriptions.
SerialOneCurrent ==
  ~overlap => \A u \in Users : \A i, j \in RowsOf(u) :
                IsCurrent(subs[i]) /\ IsCurrent(subs[j]) => i = j

\* While sessions do not overlap, every credited payment has added its days:
\* the subscriptions of a user run, together, Days for each payment.
DaysOf(u) == UNION {{i} \X (subs[i].started .. (subs[i].expires - 1)) : i \in RowsOf(u)}
PaidBy(u) == {c \in payments : Owner[c] = u}
SerialDaysConserved ==
  ~overlap => \A u \in Users : Cardinality(DaysOf(u)) = Days * Cardinality(PaidBy(u))

\* While sessions do not overlap, the warning, notice and grace columns of a
\* live subscription belong to the end it has now: a renewal has cleared those
\* of the end before.
SerialMarksMatchEnd ==
  ~overlap => \A i \in Ids : IsLive(subs[i]) =>
    /\ subs[i].warn3 => subs[i].expires <= now + Warn3
    /\ subs[i].warn1 => subs[i].expires <= now + Warn1
    /\ subs[i].notice \/ subs[i].grace # NoTime => subs[i].expires <= now

\* While sessions do not overlap, nobody is removed, or banned, who has a current
\* subscription: neither the grace mark of the end before a renewal nor the row
\* that a second purchase left behind costs him the channel.  InOrder: his rows
\* follow each other in time.  A payment handled only when the subscription it
\* belonged to is revoked starts a row that lies before that end; the next
\* purchase does not close it, and its grace period removes a paying user.
InOrder(u) ==
  \A i, j \in RowsOf(u) : i < j => subs[j].started >= subs[i].expires
SerialRenewedNotRemoved ==
  [][~overlap => \A u \in Users :
       InOrder(u) /\ InChannel(u) /\ ~InChannel(u)' => ~HasCurrent(u)]_vars

\* A user who renewed in time is not removed from the channel on account of
\* the old grace-period record.
RenewedNotRemoved ==
  [][\A u \in Users : InChannel(u) /\ ~InChannel(u)' => ~HasCurrent(u)]_vars

\* "A new purchase extends the term instead of overwriting the end date":
\* every credited payment adds its days, also when payments overlap.
DaysConserved ==
  \A u \in Users : Cardinality(DaysOf(u)) = Days * Cardinality(PaidBy(u))

\* A live subscription whose grace period ends within the horizon of the model
\* is revoked, or renewed.
GraceRunning(i) == /\ i \in Ids
                   /\ IsLive(subs[i])
                   /\ subs[i].grace # NoTime
                   /\ subs[i].grace <= MaxTime
GraceEnds ==
  \A i \in 1 .. Cardinality(Charges) : GraceRunning(i) ~> ~GraceRunning(i)

\* While sessions do not overlap, the grace period of a subscription that has
\* ended starts, unless it is renewed: no failing message holds it up.
Overdue(i) == /\ i \in Ids
              /\ IsLive(subs[i])
              /\ subs[i].expires <= now
              /\ subs[i].grace = NoTime
SerialGraceStarts ==
  \A i \in 1 .. Cardinality(Charges) :
    Overdue(i) /\ ~overlap ~> ~Overdue(i) \/ overlap

=============================================================================
