------------------------------ MODULE Referral ------------------------------
(***************************************************************************)
(* Referrals: the columns of table users that bind a user to a referrer,   *)
(* the reward days a referrer has in store, and the payment sessions that  *)
(* use and grant them (referral_service, called by both kinds of payment). *)
(*                                                                         *)
(* A payment session first reads the buyer's row, then books (the payment  *)
(* is flushed, the referrer's row read), then commits.  The ORM writes     *)
(* values computed from the rows as they were read.  The Stars handler     *)
(* holds on to the buyer's object, so the session's identity map answers   *)
(* later reads with it; sync_crypto_invoice does not, and reads again.     *)
(*                                                                         *)
(* Abstractions: a subscription is whether it is endless and the reward    *)
(* days added to it; codes stand for their owners; audit rows are history  *)
(* variables.                                                              *)
(***************************************************************************)
EXTENDS Integers, FiniteSets

CONSTANTS
  Users,
  Charges,     \* charges of Telegram Stars and paid invoices of Crypto Pay
  Owner,       \* Owner[c]: the user who paid c
  Crypto,      \* charges that are invoices of Crypto Pay
  Endless,     \* charges for a lifetime tariff
  RewardDays,  \* settings.referral_reward_days
  MaxSessions, \* bound on sessions open at once
  MaxFailures  \* bound on sessions that fail

Nobody == "nobody"

ASSUME ReferralAssumption ==
  /\ IsFiniteSet(Users)
  /\ Nobody \notin Users \cup Charges
  /\ Owner \in [Charges -> Users]
  /\ Crypto \subseteq Charges
  /\ Endless \subseteq Charges
  /\ {RewardDays, MaxSessions, MaxFailures} \subseteq Nat

VARIABLES
  users,     \* table users: who has a row, and its referral columns
  paid,      \* table payments: charges booked
  endless,   \* users with a lifetime subscription
  sessions,  \* open sessions
  failures,
  served,    \* history: served[u] reward days added to the subscription of u
  granted,   \* history: granted[u] reward days granted to u
  rewards,   \* history: rewards[c]: the referrer that payment c rewarded
  first,     \* history: first[u]: the first payment of u booked, if any
  overlapped \* history: two sessions were open at once

history == <<served, granted, rewards, first>>
vars == <<users, paid, endless, sessions, failures, history, overlapped>>

-----------------------------------------------------------------------------
Row == [known : BOOLEAN, referrer : Users \cup {Nobody}, rewarded : BOOLEAN, pending : Nat]

\* bonus: referral_bonus_days; own, ref: rows of the buyer and of the referrer.
Session ==
  [op : {"bind"}, user : Users, to : Users]
  \cup [op : {"pay"}, charge : Charges, bonus : Nat, own : Row]
  \cup [op : {"booked"}, charge : Charges, bonus : Nat, own : Row, left : Nat, ref : Nat]

TypeOK ==
  /\ users \in [Users -> Row]
  /\ paid \subseteq Charges
  /\ endless \subseteq Users
  /\ sessions \subseteq Session
  /\ \A s \in sessions : s.op = "bind" => s.to # s.user
  /\ served \in [Users -> Nat]
  /\ granted \in [Users -> Nat]
  /\ rewards \in [Charges -> Users \cup {Nobody}]
  /\ first \in [Users -> Charges \cup {Nobody}]

PaidBy(u) == {c \in paid : Owner[c] = u}

Init ==
  /\ users = [u \in Users |-> [known |-> FALSE, referrer |-> Nobody,
                               rewarded |-> FALSE, pending |-> 0]]
  /\ paid = {}
  /\ endless = {}
  /\ sessions = {}
  /\ failures = 0
  /\ served = [u \in Users |-> 0]
  /\ granted = [u \in Users |-> 0]
  /\ rewards = [c \in Charges |-> Nobody]
  /\ first = [u \in Users |-> Nobody]
  /\ overlapped = FALSE

Begins(s) ==
  /\ Cardinality(sessions) < MaxSessions
  /\ s \notin sessions
  /\ sessions' = sessions \cup {s}
  /\ overlapped' = (overlapped \/ sessions # {})

Ends(s) == sessions' = sessions \ {s} /\ UNCHANGED overlapped

-----------------------------------------------------------------------------
(* /start *)

\* UserSyncMiddleware commits the row of the sender before any handler runs.
Start(u) ==
  /\ ~users[u].known
  /\ users' = [users EXCEPT ![u].known = TRUE]
  /\ UNCHANGED <<paid, endless, sessions, failures, history, overlapped>>

\* Mutant of BeginBind: payments of the user are not looked for.
BeginBindCustomer(u, r) ==
  /\ users[u].known
  /\ users[u].referrer = Nobody
  /\ users[r].known
  /\ r # u
  /\ Begins([op |-> "bind", user |-> u, to |-> r])
  /\ UNCHANGED <<users, paid, endless, failures, history>>

\* bind_referrer_for_user: every other status leaves the user as it is.
BeginBind(u, r) ==
  /\ users[u].known
  /\ users[u].referrer = Nobody
  /\ PaidBy(u) = {}
  /\ users[r].known
  /\ r # u
  /\ Begins([op |-> "bind", user |-> u, to |-> r])
  /\ UNCHANGED <<users, paid, endless, failures, history>>

CommitBind(s) ==
  /\ s.op = "bind"
  /\ users' = [users EXCEPT ![s.user].referrer = s.to]
  /\ Ends(s)
  /\ UNCHANGED <<paid, endless, failures, history>>

-----------------------------------------------------------------------------
(* Payments *)

\* The charge has no payment yet; the days in store are read.
BeginPay(c) ==
  LET u == Owner[c] IN
  /\ users[u].known
  /\ c \notin paid
  /\ Begins([op |-> "pay", charge |-> c, bonus |-> users[u].pending, own |-> users[u]])
  /\ UNCHANGED <<users, paid, endless, failures, history>>

Lower(a, b) == IF a < b THEN a ELSE b

\* Mutant of Consumed: the days promised are taken off, whatever there are.
ConsumedAll(own, bonus) == own.pending - bonus

\* consume_pending_referral_reward_days
Consumed(own, bonus) == own.pending - Lower(own.pending, bonus)

\* grant_referral_reward_for_first_payment; referrers are not the user itself.
Grants(own) == RewardDays > 0 /\ own.referrer # Nobody /\ ~own.rewarded

\* The row is the one read first, or read again.
OwnRow(s) == IF s.charge \in Crypto THEN users[Owner[s.charge]] ELSE s.own

Book(s) ==
  LET own == OwnRow(s) IN
  /\ s.op = "pay"
  /\ s.charge \notin paid
  /\ sessions' = (sessions \ {s}) \cup
       {[op |-> "booked", charge |-> s.charge, bonus |-> s.bonus, own |-> own,
         left |-> Consumed(own, s.bonus),
         ref |-> IF Grants(own) THEN users[own.referrer].pending ELSE 0]}
  /\ UNCHANGED <<users, paid, endless, failures, history, overlapped>>

\* Mutant of OwnBooked: the days in store stay there.
OwnBookedUnused(s) ==
  [users[Owner[s.charge]] EXCEPT !.rewarded = @ \/ Grants(s.own)]

\* The columns that changed are written: pending_referral_reward_days of both
\* rows, referral_reward_granted_at of the buyer's.
OwnBooked(s) ==
  LET used == s.bonus > 0 /\ s.left # s.own.pending
  IN [users[Owner[s.charge]] EXCEPT !.pending = IF used THEN s.left ELSE @,
                                    !.rewarded = @ \/ Grants(s.own)]

Booked(s) ==
  [v \in Users |->
    CASE v = Owner[s.charge] -> OwnBooked(s)
      [] v = s.own.referrer /\ Grants(s.own) ->
           [users[v] EXCEPT !.pending = s.ref + RewardDays]
      [] OTHER -> users[v]]

\* Mutant of Unique: the column has no such constraint.
NotUnique(s) == s.charge \in Charges

\* payments.telegram_payment_charge_id is UNIQUE.
Unique(s) == s.charge \notin paid

\* The days go to the subscription unless it has no end.
CommitPay(s) ==
  LET u == Owner[s.charge] IN
  /\ s.op = "booked"
  /\ Unique(s)
  /\ users' = Booked(s)
  /\ paid' = paid \cup {s.charge}
  /\ endless' = IF s.charge \in Endless THEN endless \cup {u} ELSE endless
  /\ served' = [served EXCEPT ![u] = IF u \in endless' THEN @ ELSE @ + s.bonus]
  /\ granted' = IF Grants(s.own) THEN [granted EXCEPT ![s.own.referrer] = @ + RewardDays]
                ELSE granted
  /\ rewards' = [rewards EXCEPT ![s.charge] = IF Grants(s.own) THEN s.own.referrer ELSE @]
  /\ first' = [first EXCEPT ![u] = IF @ = Nobody THEN s.charge ELSE @]
  /\ Ends(s)
  /\ UNCHANGED failures

\* The charge was booked meanwhile: the INSERT violates the constraint.
Refuse(s) ==
  /\ s.op \in {"pay", "booked"}
  /\ s.charge \in paid
  /\ Ends(s)
  /\ UNCHANGED <<users, paid, endless, failures, history>>

\* A query fails, rows are locked the other way round, the process dies:
\* the session is rolled back.  Stars are not handled again, invoices are.
Fail(s) ==
  /\ failures < MaxFailures
  /\ failures' = failures + 1
  /\ Ends(s)
  /\ UNCHANGED <<users, paid, endless, history>>

Next ==
  \/ \E u \in Users : Start(u)
  \/ \E u, r \in Users : BeginBind(u, r)
  \/ \E c \in Charges : BeginPay(c)
  \/ \E s \in sessions : CommitBind(s) \/ Book(s) \/ CommitPay(s) \/ Refuse(s) \/ Fail(s)

Spec == Init /\ [][Next]_vars

-----------------------------------------------------------------------------
(* Properties *)

\* As long as sessions do not overlap no reward day is lost or used twice: the
\* days granted are in store or in a subscription.  Days that a user with a
\* lifetime subscription used are gone: nothing can be added to it.
SerialDaysBalance ==
  ~overlapped =>
    \A u \in Users :
      /\ served[u] + users[u].pending <= granted[u]
      /\ u \notin endless => served[u] + users[u].pending = granted[u]

\* As long as sessions do not overlap a referrer is rewarded for the first
\* payment of the user he brought, and for no other: binding refuses
\* customers, the grant only looks at its own mark.
SerialFirstPaymentRewards ==
  ~overlapped /\ RewardDays > 0 =>
    \A c \in paid :
      LET u == Owner[c] IN
      rewards[c] = IF c = first[u] THEN users[u].referrer ELSE Nobody

\* Whatever sessions overlap, a payment rewards at most once, and only a
\* referrer other than its buyer: days come from booked payments alone.
GrantsArePaidFor ==
  /\ \A c \in Charges : rewards[c] # Nobody => c \in paid /\ rewards[c] # Owner[c]
  /\ \A u \in Users :
       users[u].pending <= granted[u] /\
       granted[u] = RewardDays * Cardinality({c \in Charges : rewards[c] = u})
=============================================================================
