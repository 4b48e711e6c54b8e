------------------------------ MODULE Checkout ------------------------------
(***************************************************************************)
(* Buying with Telegram Stars: the checks before and after the money is    *)
(* taken, the promo codes of a user and the kinds of tariff.               *)
(*                                                                         *)
(* The bot answers a pre-checkout query, Telegram takes the money, and an  *)
(* update "successful_payment" is handled in a session of its own, which   *)
(* repeats the checks of the pre-checkout; a check that fails then is      *)
(* reported to the user, and the charge is not looked at again.  Between   *)
(* the two, administrators edit tariffs and disable promo codes, and the   *)
(* user applies other codes and pays other invoices.                       *)
(*                                                                         *)
(* Abstractions: an amount is the number of price edits of its tariff;     *)
(* updated_at, which picks the latest redemption of a code, is left open;  *)
(* a subscription is live or not (module Access has its life).             *)
(***************************************************************************)
EXTENDS Integers, Sequences, FiniteSets, SequencesExt

CONSTANTS
  Users,          \* buyers, none of them blocked
  Charges,        \* payments that Telegram takes
  Handlers,       \* handlers that can run at once
  Kind,           \* Kind[t]: "plain", "trial" (is_trial) or "lifetime" (is_lifetime)
  Code,           \* Code[p]: the row of promo code p (see CheckoutAssumption)
  MaxRedemptions, \* bound on redemptions
  MaxEdits,       \* bound on what administrators do
  MaxMishaps      \* bound on failed sessions and restarts, together

Tariffs == DOMAIN Kind
Promos  == DOMAIN Code

ASSUME CheckoutAssumption ==
  /\ IsFiniteSet(Handlers)
  /\ Kind \in [Tariffs -> {"plain", "trial", "lifetime"}]
  /\ Code \in [Promos -> [freeDays     : BOOLEAN,         \* promo_type "free_days"
                          firstOnly    : BOOLEAN,         \* first_purchase_only
                          tariffs      : SUBSET Tariffs,  \* what it gives a discount on, or grants
                          maxUses      : Nat \ {0},
                          perUserLimit : Nat \ {0}]]
  /\ \A p \in Promos : Code[p].freeDays => Cardinality(Code[p].tariffs) = 1
  /\ MaxRedemptions \in Nat
  /\ MaxEdits \in Nat
  /\ MaxMishaps \in Nat

VARIABLES
  onSale,      \* tariffs that are active, not archived and whose channel can host them
  price,       \* price[t]: how often the price of t was edited
  promoOn,     \* promo codes that are active and within their dates
  redemptions, \* table promo_redemptions
  rows,        \* table subscriptions
  charges,     \* charges[c]: what Telegram took the money for
  payments,    \* charges with a row in table payments, in the order of their commits
  sessions,    \* open sessions of successful_payment_handler and promo_command
  edits,       \* edits of administrators so far
  mishaps,     \* failed sessions and restarts so far
  overlap      \* history: two sessions have been open at the same time

vars == <<onSale, price, promoOn, redemptions, rows, charges, payments,
          sessions, edits, mishaps, overlap>>

-----------------------------------------------------------------------------
Redemption == [promo : Promos, user : Users,
               status : {"pending", "consumed", "cancelled"}]

\* endless: expires_at is LIFETIME_EXPIRES_AT, the last day that a datetime has.
Row == [user : Users, tariff : Tariffs, endless : BOOLEAN, live : BOOLEAN]

\* redemption is 0 for an invoice without discount.
Charge == [state : {"charged", "refused"}, user : Users, tariff : Tariffs,
           redemption : Nat, amount : Nat]
NoCharge == [state |-> "none"]

\* row is 0 when activate_or_extend_subscription found none to extend; tariff and
\* endless are what it read of that row; drops are the pending redemptions read.
Session ==
  [kind : {"book"}, handler : Handlers, charge : Charges, row : Nat, read : Row]
  \cup [kind : {"grant"}, handler : Handlers, user : Users, promo : Promos,
        row : Nat, read : Row]
  \cup [kind : {"apply"}, handler : Handlers, user : Users, promo : Promos,
        keep : Nat, drops : SUBSET Nat]

Busy(h) == \E s \in sessions : s.handler = h
Booked == ToSet(payments)

-----------------------------------------------------------------------------
(* Subscriptions *)

RowsOf(u) == {i \in DOMAIN rows : rows[i].user = u}
Rank(row) == IF row.endless THEN 2 ELSE IF row.live THEN 1 ELSE 0

\* get_latest_for_user_channel: the row with the latest end.
Latest(u) == {i \in RowsOf(u) : \A j \in RowsOf(u) : Rank(rows[j]) <= Rank(rows[i])}

\* What activate_or_extend_subscription reads: a row to extend, or none.
Extendable(u) ==
  {i \in Latest(u) : rows[i].live} \cup (IF \E i \in Latest(u) : rows[i].live THEN {} ELSE {0})
ReadOf(u, t, i) ==
  IF i = 0 THEN [user |-> u, tariff |-> t, endless |-> FALSE, live |-> FALSE] ELSE rows[i]

\* _extended_expires_at looks at the tariff bought and at the tariff that was loaded
\* with the row, not at the end of the row.
StaysEndless(t, read) == Kind[t] = "lifetime" \/ Kind[read.tariff] = "lifetime"

\* Mutant of Overflows: the days are counted from the payment.
OverflowsNever(t, i, read) == FALSE

\* Days cannot be added to the last day: OverflowError.
Overflows(t, i, read) == i # 0 /\ read.endless /\ ~StaysEndless(t, read)

\* A column is written only when its value in the session changed.
Extended(stored, t, read) ==
  [stored EXCEPT
     !.tariff  = IF read.tariff = t THEN @ ELSE t,
     !.endless = IF read.endless /\ StaysEndless(t, read) THEN @ ELSE StaysEndless(t, read)]

Activate(u, t, i, read) ==
  /\ ~Overflows(t, i, read)
  /\ rows' = IF i = 0
             THEN Append(rows, [user |-> u, tariff |-> t,
                                endless |-> Kind[t] = "lifetime", live |-> TRUE])
             ELSE [rows EXCEPT ![i] = Extended(@, t, read)]

\* The row ends and is revoked, as in module Access.
Lapse(i) ==
  /\ rows[i].live /\ ~rows[i].endless
  /\ rows' = [rows EXCEPT ![i].live = FALSE]
  /\ UNCHANGED <<onSale, price, promoOn, redemptions, charges, payments,
                 sessions, edits, mishaps, overlap>>

\* ensure_tariff_purchase_allowed
PurchaseAllowed(u, t) ==
  /\ t \in onSale
  /\ Kind[t] = "trial" => \A i \in RowsOf(u) : Kind[rows[i].tariff] # "trial"
  /\ \A i \in Latest(u) : rows[i].live => Kind[rows[i].tariff] # "lifetime"

-----------------------------------------------------------------------------
(* Promo codes *)

Uses(p) == {r \in DOMAIN redemptions : /\ redemptions[r].promo = p
                                       /\ redemptions[r].status # "cancelled"}
UsesOf(u, p) == {r \in Uses(p) : redemptions[r].user = u}
RedemptionsOf(u, p) == {r \in DOMAIN redemptions : /\ redemptions[r].user = u
                                                   /\ redemptions[r].promo = p}
Pending(u) == {r \in DOMAIN redemptions : /\ redemptions[r].user = u
                                          /\ redemptions[r].status = "pending"}

\* _ensure_first_purchase_only
FirstPurchaseOnly(u, p) ==
  Code[p].firstOnly => \A c \in Booked : charges[c].user # u

\* Mutant of UsageLeft: off by one.
UsageLeftOneMore(p) == Cardinality(Uses(p)) <= Code[p].maxUses

\* _ensure_usage_available
UsageLeft(p) == Cardinality(Uses(p)) < Code[p].maxUses

\* _ensure_user_usage_available
UserUsageLeft(u, p) ==
  /\ FirstPurchaseOnly(u, p)
  /\ Cardinality(UsesOf(u, p)) < Code[p].perUserLimit

\* Mutants of Discounts: a used redemption counts; first_purchase_only is not
\* checked again.
DiscountsAgain(u, t, r) ==
  LET p == redemptions[r].promo IN
  /\ redemptions[r].user = u
  /\ p \in promoOn
  /\ FirstPurchaseOnly(u, p)
  /\ t \in Code[p].tariffs
DiscountsLater(u, t, r) ==
  LET p == redemptions[r].promo IN
  /\ redemptions[r].user = u
  /\ redemptions[r].status = "pending"
  /\ p \in promoOn
  /\ t \in Code[p].tariffs

\* get_discount_quote_for_redemption does not raise.
Discounts(u, t, r) ==
  LET p == redemptions[r].promo IN
  /\ redemptions[r].user = u
  /\ redemptions[r].status = "pending"
  /\ p \in promoOn
  /\ FirstPurchaseOnly(u, p)
  /\ t \in Code[p].tariffs

-----------------------------------------------------------------------------
Init ==
  /\ onSale = Tariffs
  /\ price = [t \in Tariffs |-> 0]
  /\ promoOn = Promos
  /\ redemptions = <<>>
  /\ rows = <<>>
  /\ charges = [c \in Charges |-> NoCharge]
  /\ payments = <<>>
  /\ sessions = {}
  /\ edits = 0
  /\ mishaps = 0
  /\ overlap = FALSE

(* Administrators *)

Reprice(t) ==
  /\ edits < MaxEdits
  /\ edits' = edits + 1
  /\ price' = [price EXCEPT ![t] = @ + 1]
  /\ UNCHANGED <<onSale, promoOn, redemptions, rows, charges, payments,
                 sessions, mishaps, overlap>>

\* The switch of a tariff, and of its channel.
ToggleTariff(t) ==
  /\ edits < MaxEdits
  /\ edits' = edits + 1
  /\ onSale' = IF t \in onSale THEN onSale \ {t} ELSE onSale \cup {t}
  /\ UNCHANGED <<price, promoOn, redemptions, rows, charges, payments,
                 sessions, mishaps, overlap>>

\* Disabled by an administrator, or past its last day.
EndPromo(p) ==
  /\ edits < MaxEdits
  /\ edits' = edits + 1
  /\ promoOn' = promoOn \ {p}
  /\ UNCHANGED <<onSale, price, redemptions, rows, charges, payments,
                 sessions, mishaps, overlap>>

-----------------------------------------------------------------------------
(* Payment *)

\* pre_checkout_handler approves and Telegram takes the money.  An invoice can be
\* paid long after it was sent, as long as its amount is still the one asked for;
\* redemption r is 0 or the one named in its payload.
PreCheckout(c, u, t, r) ==
  /\ charges[c] = NoCharge
  /\ PurchaseAllowed(u, t)
  /\ r # 0 => Discounts(u, t, r)
  /\ charges' = [charges EXCEPT ![c] = [state |-> "charged", user |-> u, tariff |-> t,
                                        redemption |-> r, amount |-> price[t]]]
  /\ UNCHANGED <<onSale, price, promoOn, redemptions, rows, payments,
                 sessions, edits, mishaps, overlap>>

\* The checks of successful_payment_handler.
Accepted(charge) ==
  /\ PurchaseAllowed(charge.user, charge.tariff)
  /\ charge.redemption # 0 => Discounts(charge.user, charge.tariff, charge.redemption)
  /\ charge.amount = price[charge.tariff]

Open(s) ==
  /\ sessions' = sessions \cup {s}
  /\ overlap' = (overlap \/ sessions # {})

BeginBooking(h, c) ==
  /\ ~Busy(h)
  /\ charges[c] # NoCharge
  /\ charges[c].state = "charged"
  /\ c \notin Booked
  /\ Accepted(charges[c])
  /\ \E i \in Extendable(charges[c].user) :
       Open([kind |-> "book", handler |-> h, charge |-> c, row |-> i,
             read |-> ReadOf(charges[c].user, charges[c].tariff, i)])
  /\ UNCHANGED <<onSale, price, promoOn, redemptions, rows, charges, payments,
                 edits, mishaps>>

Refused(c) == [charges EXCEPT ![c].state = "refused"]

\* A check fails: the user is told, the money is kept.
RefuseBooking(c) ==
  /\ charges[c] # NoCharge
  /\ charges[c].state = "charged"
  /\ c \notin Booked
  /\ ~Accepted(charges[c])
  /\ charges' = Refused(c)
  /\ UNCHANGED <<onSale, price, promoOn, redemptions, rows, payments,
                 sessions, edits, mishaps, overlap>>

\* Mutants of CommitBooking: the charge id is not UNIQUE; the redemption is used
\* although the activation fails.
CommitBookingNotUnique(s) ==
  LET charge == charges[s.charge] IN
  /\ s.kind = "book"
  /\ sessions' = sessions \ {s}
  /\ Activate(charge.user, charge.tariff, s.row, s.read)
  /\ payments' = Append(payments, s.charge)
  /\ UNCHANGED <<onSale, price, promoOn, redemptions, charges, edits, mishaps, overlap>>
CommitBookingInTwo(s) ==
  LET charge == charges[s.charge] IN
  /\ s.kind = "book"
  /\ s.charge \notin Booked
  /\ sessions' = sessions \ {s}
  /\ redemptions' = IF charge.redemption = 0 THEN redemptions
                    ELSE [redemptions EXCEPT ![charge.redemption].status = "consumed"]
  /\ \/ /\ Activate(charge.user, charge.tariff, s.row, s.read)
        /\ payments' = Append(payments, s.charge)
        /\ UNCHANGED charges
     \/ /\ Overflows(charge.tariff, s.row, s.read)
        /\ charges' = Refused(s.charge)
        /\ UNCHANGED <<rows, payments>>
  /\ UNCHANGED <<onSale, price, promoOn, edits, mishaps, overlap>>

\* process_successful_stars_payment, consume_discount_redemption and the commit.  A
\* charge id booked meanwhile is not UNIQUE, and an overflow raises: rollback.
CommitBooking(s) ==
  LET charge == charges[s.charge] IN
  /\ s.kind = "book"
  /\ sessions' = sessions \ {s}
  /\ \/ /\ s.charge \notin Booked
        /\ Activate(charge.user, charge.tariff, s.row, s.read)
        /\ payments' = Append(payments, s.charge)
        /\ redemptions' = IF charge.redemption = 0 THEN redemptions
                          ELSE [redemptions EXCEPT ![charge.redemption].status = "consumed"]
        /\ UNCHANGED charges
     \/ /\ s.charge \in Booked
        /\ UNCHANGED <<rows, payments, redemptions, charges>>
     \/ /\ s.charge \notin Booked
        /\ Overflows(charge.tariff, s.row, s.read)
        /\ charges' = Refused(s.charge)
        /\ UNCHANGED <<rows, payments, redemptions>>
  /\ UNCHANGED <<onSale, price, promoOn, edits, mishaps, overlap>>

-----------------------------------------------------------------------------
(* promo_command and apply_promo_code *)

\* A code for free days of its tariff.
BeginGrant(h, u, p) ==
  /\ ~Busy(h)
  /\ p \in promoOn
  /\ Code[p].freeDays
  /\ UserUsageLeft(u, p)
  /\ UsageLeft(p)
  /\ Len(redemptions) < MaxRedemptions
  /\ \E t \in Code[p].tariffs, i \in Extendable(u) :
       Open([kind |-> "grant", handler |-> h, user |-> u, promo |-> p,
             row |-> i, read |-> ReadOf(u, t, i)])
  /\ UNCHANGED <<onSale, price, promoOn, redemptions, rows, charges, payments,
                 edits, mishaps>>

CommitGrant(s) ==
  /\ s.kind = "grant"
  /\ sessions' = sessions \ {s}
  /\ \E t \in Code[s.promo].tariffs :
       \/ /\ Activate(s.user, t, s.row, s.read)
          /\ redemptions' = Append(redemptions, [promo |-> s.promo, user |-> s.user,
                                                 status |-> "consumed"])
       \/ /\ Overflows(t, s.row, s.read)
          /\ UNCHANGED <<rows, redemptions>>
  /\ UNCHANGED <<onSale, price, promoOn, charges, payments, edits, mishaps, overlap>>

\* Mutant of Dropped: every redemption of the user, whatever became of it.
DroppedAll(u, keep) == {r \in DOMAIN redemptions : redemptions[r].user = u} \ {keep}

\* cancel_other_pending_for_user
Dropped(u, keep) == Pending(u) \ {keep}

\* A code for a discount on the next purchase: the latest redemption of the user is
\* kept when it is pending, and a new one made otherwise.
BeginApply(h, u, p) ==
  /\ ~Busy(h)
  /\ p \in promoOn
  /\ ~Code[p].freeDays
  /\ \E keep \in RedemptionsOf(u, p) \cup {0} :
       /\ \/ /\ keep \in Pending(u)
             /\ FirstPurchaseOnly(u, p)
          \/ /\ keep = 0
             /\ RedemptionsOf(u, p) # {} => ~(RedemptionsOf(u, p) \subseteq Pending(u))
             /\ UserUsageLeft(u, p)
             /\ UsageLeft(p)
             /\ Len(redemptions) < MaxRedemptions
       /\ Open([kind |-> "apply", handler |-> h, user |-> u, promo |-> p,
                keep |-> keep, drops |-> Dropped(u, keep)])
  /\ UNCHANGED <<onSale, price, promoOn, redemptions, rows, charges, payments,
                 edits, mishaps>>

\* The redemptions read as pending are cancelled, whatever they are now.
CommitApply(s) ==
  LET cancelled == [r \in DOMAIN redemptions |->
                      IF r \in s.drops THEN [redemptions[r] EXCEPT !.status = "cancelled"]
                      ELSE redemptions[r]] IN
  /\ s.kind = "apply"
  /\ sessions' = sessions \ {s}
  /\ redemptions' = IF s.keep # 0 THEN cancelled
                    ELSE Append(cancelled, [promo |-> s.promo, user |-> s.user,
                                            status |-> "pending"])
  /\ UNCHANGED <<onSale, price, promoOn, rows, charges, payments, edits, mishaps, overlap>>

\* The handler raises and rolls back.
FailSession(s) ==
  /\ mishaps < MaxMishaps
  /\ mishaps' = mishaps + 1
  /\ sessions' = sessions \ {s}
  /\ charges' = IF s.kind = "book" /\ s.charge \notin Booked THEN Refused(s.charge) ELSE charges
  /\ UNCHANGED <<onSale, price, promoOn, redemptions, rows, payments, edits, overlap>>

\* The process dies and is restarted; Telegram may deliver the update again.
Crash ==
  /\ mishaps < MaxMishaps
  /\ mishaps' = mishaps + 1
  /\ sessions' = {}
  /\ UNCHANGED <<onSale, price, promoOn, redemptions, rows, charges, payments,
                 edits, overlap>>

-----------------------------------------------------------------------------
Next ==
  \/ \E t \in Tariffs : Reprice(t) \/ ToggleTariff(t)
  \/ \E p \in Promos : EndPromo(p)
  \/ \E i \in DOMAIN rows : Lapse(i)
  \/ \E c \in Charges, u \in Users, t \in Tariffs, r \in {0} \cup DOMAIN redemptions :
       PreCheckout(c, u, t, r)
  \/ \E h \in Handlers, c \in Charges : BeginBooking(h, c)
  \/ \E c \in Charges : RefuseBooking(c)
  \/ \E h \in Handlers, u \in Users, p \in Promos : BeginGrant(h, u, p) \/ BeginApply(h, u, p)
  \/ \E s \in sessions : \/ CommitBooking(s)
                         \/ CommitGrant(s)
                         \/ CommitApply(s)
                         \/ FailSession(s)
  \/ Crash

Spec == Init /\ [][Next]_vars
-----------------------------------------------------------------------------
(* Properties *)

\* Every variable has its type.
TypeOK ==
  /\ onSale \subseteq Tariffs
  /\ price \in [Tariffs -> Nat]
  /\ promoOn \subseteq Promos
  /\ redemptions \in Seq(Redemption)
  /\ rows \in Seq(Row)
  /\ charges \in [Charges -> Charge \cup {NoCharge}]
  /\ payments \in Seq(Charges) /\ IsInjective(payments)
  /\ sessions \in SUBSET Session
  /\ \A s \in sessions : s.kind \in {"book", "grant"} => s.row \in {0} \cup DOMAIN rows
  /\ edits \in Nat
  /\ mishaps \in Nat
  /\ overlap \in BOOLEAN

\* A promo code is not used more often than max_uses and per_user_limit allow,
\* but for the sessions that counted its uses while another was still open.
LimitsExceededBySessionsOnly ==
  \A p \in Promos :
    /\ Cardinality(Uses(p)) < Code[p].maxUses + Cardinality(Handlers)
    /\ \A u \in Users :
         Cardinality(UsesOf(u, p)) < Code[p].perUserLimit + Cardinality(Handlers)

\* While sessions do not overlap, a redemption gives its discount to one payment
\* at most, however many invoices that name it have passed the pre-checkout.
SerialDiscountOnce ==
  ~overlap => \A c, d \in Booked :
    charges[c].redemption # 0 /\ charges[c].redemption = charges[d].redemption => c = d

\* A discount is only used up by a payment that was booked with it: a booking that
\* is refused, fails half-way or dies with the process leaves it to the user.
UsedIsPaid ==
  \A r \in DOMAIN redemptions :
    redemptions[r].status = "consumed" /\ ~Code[redemptions[r].promo].freeDays =>
      \E c \in Booked : charges[c].redemption = r

\* While sessions do not overlap, a used redemption stays used: no code applied
\* later frees it for another use.
SerialUsedStaysUsed ==
  [][~overlap => \A r \in DOMAIN redemptions :
       redemptions[r].status = "consumed" => redemptions'[r].status = "consumed"]_vars

\* While sessions do not overlap, a first-purchase code only makes the first payment
\* of a user cheaper, also when the user pays another invoice in between.
SerialFirstOnlyIsFirst ==
  ~overlap => \A n \in DOMAIN payments :
    LET charge == charges[payments[n]] IN
    charge.redemption # 0 /\ Code[redemptions[charge.redemption].promo].firstOnly =>
      \A m \in 1 .. n - 1 : charges[payments[m]].user # charge.user

\* While sessions do not overlap, nobody who has access for life loses it to a
\* purchase or a code for days that comes on top of it.
SerialLifetimeStays ==
  [][~overlap => \A i \in DOMAIN rows : rows[i].endless => rows'[i].endless]_vars

\* "The trial tariff can be used only once."
TrialOnce ==
  \A c, d \in Booked :
    /\ Kind[charges[c].tariff] = "trial"
    /\ Kind[charges[d].tariff] = "trial"
    /\ charges[c].user = charges[d].user
    => c = d

=============================================================================
