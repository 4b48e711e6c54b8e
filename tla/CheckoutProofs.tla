--------------------------- MODULE CheckoutProofs ---------------------------
(***************************************************************************)
(* Theorems about Checkout for every catalogue of tariffs and codes, any   *)
(* number of buyers and charges, and any finite number of handlers.        *)
(*                                                                         *)
(* The argument.  The limits of a code are checked long before the row     *)
(* that counts against them is inserted, so what is bounded is the sum of  *)
(* the redemptions held and of the handlers that are about to add one: a   *)
(* check that passes leaves room for every handler, and a commit moves one *)
(* from the second term to the first.  A cancelled redemption that an open *)
(* booking will use nevertheless counts as held all the while.             *)
(*                                                                         *)
(* While sessions do not overlap, what an open session has checked is      *)
(* still so when it commits (Fresh): only its own commit could change it.  *)
(***************************************************************************)
EXTENDS Checkout, FiniteSetTheorems, FunctionTheorems, TLAPS

(* Tables and sessions *)

\* A charge names a redemption of its buyer.
ChargesOK ==
  \A c \in Charges : charges[c] # NoCharge /\ charges[c].redemption # 0 =>
    /\ charges[c].redemption \in DOMAIN redemptions
    /\ redemptions[charges[c].redemption].user = charges[c].user

BookedOK == \A c \in Booked : charges[c] # NoCharge

SessionOK(s) ==
  CASE s.kind = "book"  -> charges[s.charge] # NoCharge
    [] s.kind = "grant" -> Code[s.promo].freeDays
    [] s.kind = "apply" -> ~Code[s.promo].freeDays /\ s.drops \subseteq DOMAIN redemptions
SessionsOK ==
  /\ \A s \in sessions : SessionOK(s)
  /\ \A s, t \in sessions : s.handler = t.handler => s = t

TablesOK == TypeOK /\ ChargesOK /\ BookedOK /\ SessionsOK /\ UsedIsPaid

(* Limits *)

Books(s, r) == s.kind = "book" /\ charges[s.charge].redemption = r

\* Redemptions of p by users of V that count, or that an open booking will make count.
Held(p, V) ==
  {r \in DOMAIN redemptions :
     /\ redemptions[r].promo = p
     /\ redemptions[r].user \in V
     /\ redemptions[r].status # "cancelled" \/ \E s \in sessions : Books(s, r)}

\* s has passed the checks of p for a user of V, and its commit adds a redemption.
Adds(s, p, V) ==
  /\ s.kind \in {"grant", "apply"}
  /\ s.kind = "apply" => s.keep = 0
  /\ s.promo = p
  /\ s.user \in V
Adding(p, V) == {h \in Handlers : \E s \in sessions : s.handler = h /\ Adds(s, p, V)}

Within(p, V, n) ==
  Cardinality(Held(p, V)) + Cardinality(Adding(p, V)) < n + Cardinality(Handlers)

LimitsOK ==
  \A p \in Promos :
    /\ Within(p, Users, Code[p].maxUses)
    /\ \A u \in Users : Within(p, {u}, Code[p].perUserLimit)

(* Histories without overlap *)

\* What s has read or checked is still so.
Fresh(s) ==
  /\ s.kind = "book" =>
       LET charge == charges[s.charge] IN
       charge.redemption # 0 =>
         /\ redemptions[charge.redemption].status = "pending"
         /\ FirstPurchaseOnly(charge.user, redemptions[charge.redemption].promo)
  /\ s.kind = "apply" => \A r \in s.drops : redemptions[r].status = "pending"
  /\ s.kind \in {"book", "grant"} /\ s.row # 0 => rows[s.row].endless = s.read.endless

\* The redemption of a booked charge is used.
BookedAreUsed ==
  \A c \in Booked : charges[c].redemption # 0 =>
    redemptions[charges[c].redemption].status = "consumed"

SerialInv ==
  ~overlap =>
    /\ \A s, t \in sessions : s = t
    /\ \A s \in sessions : Fresh(s)
    /\ BookedAreUsed

IInv == TablesOK /\ LimitsOK /\ SerialInv /\ SerialDiscountOnce /\ SerialFirstOnlyIsFirst

-----------------------------------------------------------------------------
(* Records and small sets *)

\* A charge that is there is of type Charge.
LEMMA ChargeType ==
  ASSUME TypeOK, NEW c \in Charges, charges[c] # NoCharge
  PROVE  /\ charges[c] \in Charge
         /\ charges[c].user \in Users /\ charges[c].tariff \in Tariffs
         /\ charges[c].redemption \in Nat
         /\ charges[c].state \in {"charged", "refused"}
  BY DEF TypeOK, Charge

\* A session is of one of its three shapes.
LEMMA Shapes ==
  ASSUME NEW s \in Session
  PROVE  /\ s.kind \in {"book", "grant", "apply"} /\ s.handler \in Handlers
         /\ s.kind = "book" => s.charge \in Charges
         /\ s.kind \in {"grant", "apply"} => s.user \in Users /\ s.promo \in Promos
         /\ s.kind \in {"book", "grant"} => s.row \in Nat /\ s.read \in Row
         /\ s.kind = "apply" => s.keep \in Nat /\ s.drops \in SUBSET Nat
  BY DEF Session

\* A row to extend has an index, and what is read of it is a row.
LEMMA ReadRow ==
  ASSUME TypeOK, NEW u \in Users, NEW t \in Tariffs, NEW i \in Extendable(u)
  PROVE  /\ i \in {0} \cup DOMAIN rows /\ i \in Nat
         /\ ReadOf(u, t, i) \in Row
         /\ i # 0 => ReadOf(u, t, i) = rows[i]
<1>1. i \in {0} \cup DOMAIN rows
  BY DEF Extendable, Latest, RowsOf
<1>2. DOMAIN rows \subseteq Nat /\ \A j \in DOMAIN rows : rows[j] \in Row
  BY DEF TypeOK
<1>3. QED
  BY <1>1, <1>2 DEF ReadOf, Row

\* What a commit of an activation writes is a table of rows.
LEMMA ActivateType ==
  ASSUME TypeOK, NEW u \in Users, NEW t \in Tariffs, NEW i \in {0} \cup DOMAIN rows,
         NEW read \in Row, Activate(u, t, i, read)
  PROVE  /\ rows' \in Seq(Row) /\ DOMAIN rows \subseteq DOMAIN rows'
         /\ \A j \in DOMAIN rows : j # i => rows'[j] = rows[j]
         /\ i # 0 => rows'[i] = Extended(rows[i], t, read)
<1>2. CASE i = 0
  <2>1. [user |-> u, tariff |-> t, endless |-> Kind[t] = "lifetime", live |-> TRUE] \in Row
    BY DEF Row
  <2>2. QED
    BY <1>2, <2>1, 0 \notin DOMAIN rows DEF TypeOK, Activate
<1>3. CASE i # 0
  <2>1. i \in DOMAIN rows /\ rows \in Seq(Row) /\ rows[i] \in Row
    BY <1>3 DEF TypeOK
  <2>2. StaysEndless(t, read) \in BOOLEAN
    BY DEF StaysEndless
  <2>3. Extended(rows[i], t, read) \in Row
    BY <2>1, <2>2 DEF Extended, Row
  <2>4. rows' = [rows EXCEPT ![i] = Extended(rows[i], t, read)]
    BY <1>3 DEF Activate
  <2>5. QED
    BY <1>3, <2>1, <2>3, <2>4
<1>4. QED
  BY <1>2, <1>3

\* What was appended is there, and the rest is as it was.
LEMMA Appended ==
  ASSUME NEW S, NEW q \in Seq(S), NEW x \in S
  PROVE  /\ Append(q, x) \in Seq(S)
         /\ DOMAIN Append(q, x) = DOMAIN q \cup {Len(q) + 1}
         /\ Len(q) + 1 \notin DOMAIN q
         /\ \A i \in DOMAIN q : Append(q, x)[i] = q[i]
         /\ Append(q, x)[Len(q) + 1] = x
  OBVIOUS

\* Booking appends a charge to the payments.
LEMMA BookedGrows ==
  ASSUME NEW c \in Charges, payments \in Seq(Charges), payments' = Append(payments, c)
  PROVE  Booked' = Booked \cup {c}
  BY Appended DEF Booked, ToSet

\* A part that only loses, or hands an element to the other, keeps the sum within its bound.
LEMMA SumShrinks ==
  ASSUME NEW H, NEW A, NEW H2, NEW A2, NEW n \in Nat, IsFiniteSet(H), IsFiniteSet(A),
         H2 \subseteq H, A2 \subseteq A, Cardinality(H) + Cardinality(A) < n
  PROVE  Cardinality(H2) + Cardinality(A2) < n
<1>1. /\ IsFiniteSet(H2) /\ Cardinality(H2) <= Cardinality(H)
      /\ IsFiniteSet(A2) /\ Cardinality(A2) <= Cardinality(A)
  BY FS_Subset
<1>2. /\ Cardinality(H) \in Nat /\ Cardinality(A) \in Nat
      /\ Cardinality(H2) \in Nat /\ Cardinality(A2) \in Nat
  BY <1>1, FS_CardinalityType
<1>3. QED
  BY <1>1, <1>2

LEMMA SumMoves ==
  ASSUME NEW H, NEW A, NEW H2, NEW A2, NEW x, NEW h \in A, NEW n \in Nat,
         IsFiniteSet(H), IsFiniteSet(A), H2 \subseteq H \cup {x}, A2 \subseteq A \ {h},
         Cardinality(H) + Cardinality(A) < n
  PROVE  Cardinality(H2) + Cardinality(A2) < n
<1>1. /\ IsFiniteSet(H \cup {x}) /\ Cardinality(H \cup {x}) \in Nat
      /\ Cardinality(H \cup {x}) <= Cardinality(H) + 1
      /\ IsFiniteSet(A \ {h}) /\ Cardinality(A \ {h}) = Cardinality(A) - 1
  BY FS_AddElement, FS_RemoveElement, FS_CardinalityType
<1>2. Cardinality(H) \in Nat /\ Cardinality(A) \in Nat
  BY FS_CardinalityType
<1>3. Cardinality(H \cup {x}) + Cardinality(A \ {h}) < n
  BY <1>1, <1>2
<1>4. QED
  BY <1>1, <1>3, SumShrinks

-----------------------------------------------------------------------------
(* The tables *)

\* A step leaves what a charge says of its buyer and its redemption.
Keeps(c) ==
  charges[c] # NoCharge =>
    /\ charges'[c] # NoCharge
    /\ charges'[c].user = charges[c].user
    /\ charges'[c].tariff = charges[c].tariff
    /\ charges'[c].redemption = charges[c].redemption

\* New charges name a redemption of their buyer.
NamesOwn(c) ==
  charges[c] = NoCharge /\ charges'[c] # NoCharge /\ charges'[c].redemption # 0 =>
    /\ charges'[c].redemption \in DOMAIN redemptions
    /\ redemptions[charges'[c].redemption].user = charges'[c].user

\* Redemptions stay where they are, with their promo code and their user.
RedemptionsStay ==
  /\ DOMAIN redemptions \subseteq DOMAIN redemptions'
  /\ \A r \in DOMAIN redemptions : /\ redemptions'[r].promo = redemptions[r].promo
                                   /\ redemptions'[r].user = redemptions[r].user

\* What a step has to do to keep the tables in order.
LEMMA TablesStep ==
  ASSUME TablesOK, TypeOK', RedemptionsStay,
         \A c \in Charges : Keeps(c) /\ NamesOwn(c),
         Booked \subseteq Booked', \A c \in Booked' : charges'[c] # NoCharge,
         \A r \in DOMAIN redemptions' :
           redemptions'[r].status = "consumed" /\ ~Code[redemptions'[r].promo].freeDays =>
             \/ r \in DOMAIN redemptions /\ redemptions[r].status = "consumed"
             \/ \E c \in Booked' : charges'[c].redemption = r,
         \A s \in sessions' : s \in sessions \/ SessionOK(s)',
         \A s, t \in sessions' : s.handler = t.handler => s = t
  PROVE  TablesOK'
<1>1. ChargesOK'
  BY DEF TablesOK, ChargesOK, Keeps, NamesOwn, RedemptionsStay
<1>2. BookedOK'
  BY DEF BookedOK
<1>3. SessionsOK'
  <2>1. ASSUME NEW s \in sessions', s \in sessions PROVE SessionOK(s)'
    <3>1. s \in Session /\ SessionOK(s)
      BY <2>1 DEF TablesOK, TypeOK, SessionsOK
    <3>2. QED
      BY <3>1, Shapes DEF SessionOK, Keeps, RedemptionsStay
  <2>2. QED
    BY <2>1 DEF SessionsOK
<1>4. UsedIsPaid'
  <2>1. SUFFICES ASSUME NEW r \in DOMAIN redemptions', redemptions'[r].status = "consumed",
                        ~Code[redemptions'[r].promo].freeDays
                 PROVE  \E c \in Booked' : charges'[c].redemption = r
    BY DEF UsedIsPaid
  <2>2. CASE r \in DOMAIN redemptions /\ redemptions[r].status = "consumed"
    <3>1. ~Code[redemptions[r].promo].freeDays
      BY <2>1, <2>2 DEF RedemptionsStay
    <3>2. PICK c \in Booked : charges[c].redemption = r
      BY <2>2, <3>1 DEF TablesOK, UsedIsPaid
    <3>3. c \in Charges /\ charges[c] # NoCharge
      BY <3>2 DEF TablesOK, TypeOK, BookedOK, Booked, ToSet
    <3>4. QED
      BY <3>2, <3>3 DEF Keeps
  <2>3. QED
    BY <2>1, <2>2
<1>5. QED
  BY <1>1, <1>2, <1>3, <1>4 DEF TablesOK

\* The tables stay and sessions are ended, or one is opened by an idle handler.
LEMMA SessionsStep ==
  ASSUME TablesOK, TypeOK', UNCHANGED <<redemptions, charges, payments>>,
         \/ sessions' \subseteq sessions
         \/ \E s \in Session : sessions' = sessions \cup {s} /\ ~Busy(s.handler) /\ SessionOK(s)
  PROVE  TablesOK'
<1>1. RedemptionsStay /\ \A c \in Charges : Keeps(c) /\ NamesOwn(c)
  BY DEF RedemptionsStay, Keeps, NamesOwn
<1>2. Booked' = Booked /\ \A c \in Booked' : charges'[c] # NoCharge
  BY DEF TablesOK, BookedOK, Booked
<1>3. ASSUME NEW s, SessionOK(s) PROVE SessionOK(s)'
  BY <1>3 DEF SessionOK
<1>4. /\ \A s \in sessions' : s \in sessions \/ SessionOK(s)'
      /\ \A s, t \in sessions' : s.handler = t.handler => s = t
  BY <1>3 DEF TablesOK, SessionsOK, Busy
<1>5. QED
  BY <1>1, <1>2, <1>4, TablesStep

\* A charge is refused: nothing else of it changes.
LEMMA RefusedKeeps ==
  ASSUME TypeOK, NEW c \in Charges, charges[c] # NoCharge, charges' = Refused(c)
  PROVE  /\ charges' \in [Charges -> Charge \cup {NoCharge}]
         /\ \A d \in Charges : /\ Keeps(d)
                               /\ charges'[d] # NoCharge => charges[d] # NoCharge
<1>1. charges[c] \in Charge /\ charges \in [Charges -> Charge \cup {NoCharge}]
  BY ChargeType DEF TypeOK
<1>2. charges' = [charges EXCEPT ![c] = [charges[c] EXCEPT !.state = "refused"]]
  BY DEF Refused
<1>3. [charges[c] EXCEPT !.state = "refused"] \in Charge
  BY <1>1 DEF Charge
<1>4. [charges[c] EXCEPT !.state = "refused"] # NoCharge
  BY <1>3 DEF Charge, NoCharge
<1>5. /\ [charges[c] EXCEPT !.state = "refused"].user = charges[c].user
      /\ [charges[c] EXCEPT !.state = "refused"].tariff = charges[c].tariff
      /\ [charges[c] EXCEPT !.state = "refused"].redemption = charges[c].redemption
  BY <1>1 DEF Charge
<1>6. QED
  BY <1>1, <1>2, <1>3, <1>4, <1>5 DEF Keeps

LEMMA RepriceTables ==
  ASSUME TablesOK, NEW t \in Tariffs, Reprice(t)
  PROVE  TablesOK'
<1>1. price' \in [Tariffs -> Nat] /\ edits' \in Nat
  BY DEF TablesOK, TypeOK, Reprice
<1>2. TypeOK'
  BY <1>1 DEF TablesOK, TypeOK, Reprice
<1>3. QED
  BY <1>2, SessionsStep DEF Reprice

LEMMA ToggleTables ==
  ASSUME TablesOK, NEW t \in Tariffs, ToggleTariff(t)
  PROVE  TablesOK'
<1>1. onSale' \subseteq Tariffs /\ edits' \in Nat
  BY DEF TablesOK, TypeOK, ToggleTariff
<1>2. TypeOK'
  BY <1>1 DEF TablesOK, TypeOK, ToggleTariff
<1>3. QED
  BY <1>2, SessionsStep DEF ToggleTariff

LEMMA EndPromoTables ==
  ASSUME TablesOK, NEW p \in Promos, EndPromo(p)
  PROVE  TablesOK'
<1>1. promoOn' \subseteq Promos /\ edits' \in Nat
  BY DEF TablesOK, TypeOK, EndPromo
<1>2. TypeOK'
  BY <1>1 DEF TablesOK, TypeOK, EndPromo
<1>3. QED
  BY <1>2, SessionsStep DEF EndPromo

LEMMA LapseTables ==
  ASSUME TablesOK, NEW i \in DOMAIN rows, Lapse(i)
  PROVE  TablesOK'
<1>1. rows' \in Seq(Row) /\ DOMAIN rows' = DOMAIN rows
  <2>1. rows \in Seq(Row) /\ rows[i] \in Row
    BY DEF TablesOK, TypeOK
  <2>2. [rows[i] EXCEPT !.live = FALSE] \in Row
    BY <2>1 DEF Row
  <2>3. rows' = [rows EXCEPT ![i] = [rows[i] EXCEPT !.live = FALSE]]
    BY DEF Lapse
  <2>4. QED
    BY <2>1, <2>2, <2>3
<1>2. TypeOK'
  BY <1>1 DEF TablesOK, TypeOK, Lapse
<1>3. QED
  BY <1>2, SessionsStep DEF Lapse

LEMMA PreCheckoutTables ==
  ASSUME TablesOK, NEW c \in Charges, NEW u \in Users, NEW t \in Tariffs,
         NEW r \in {0} \cup DOMAIN redemptions, PreCheckout(c, u, t, r)
  PROVE  TablesOK'
<1> DEFINE new == [state |-> "charged", user |-> u, tariff |-> t,
                   redemption |-> r, amount |-> price[t]]
<1>1. new \in Charge /\ new # NoCharge
  BY DEF TablesOK, TypeOK, Charge, NoCharge
<1>2. /\ charges[c] = NoCharge /\ charges' = [charges EXCEPT ![c] = new]
      /\ charges \in [Charges -> Charge \cup {NoCharge}]
  BY DEF PreCheckout, TablesOK, TypeOK
<1>3. TypeOK'
  <2>1. charges' \in [Charges -> Charge \cup {NoCharge}]
    BY <1>1, <1>2
  <2>2. QED
    BY <2>1 DEF TablesOK, TypeOK, PreCheckout
<1>4. \A d \in Charges : Keeps(d) /\ NamesOwn(d)
  <2>1. ASSUME NEW d \in Charges, d # c PROVE charges'[d] = charges[d]
    BY <1>2, <2>1
  <2>2. charges'[c] = new
    BY <1>2
  <2>3. NamesOwn(c)
    BY <2>2 DEF PreCheckout, Discounts, NamesOwn
  <2>4. Keeps(c)
    BY <1>2 DEF Keeps
  <2>5. QED
    BY <2>1, <2>3, <2>4 DEF Keeps, NamesOwn
<1>5. Booked' = Booked /\ \A d \in Booked : d \in Charges /\ charges[d] # NoCharge
  BY DEF PreCheckout, TablesOK, TypeOK, BookedOK, Booked, ToSet
<1>6. \A d \in Booked' : charges'[d] # NoCharge
  BY <1>4, <1>5 DEF Keeps
<1>7. RedemptionsStay /\ \A s \in sessions' : s \in sessions
  BY DEF PreCheckout, RedemptionsStay
<1>8. \A s, t2 \in sessions' : s.handler = t2.handler => s = t2
  BY DEF PreCheckout, TablesOK, SessionsOK
<1>9. QED
  BY <1>3, <1>4, <1>5, <1>6, <1>7, <1>8, TablesStep DEF PreCheckout

LEMMA RefuseTables ==
  ASSUME TablesOK, NEW c \in Charges, RefuseBooking(c)
  PROVE  TablesOK'
<1>1. /\ charges' \in [Charges -> Charge \cup {NoCharge}]
      /\ \A d \in Charges : Keeps(d) /\ (charges'[d] # NoCharge => charges[d] # NoCharge)
  BY RefusedKeeps DEF RefuseBooking, TablesOK
<1>2. TypeOK'
  BY <1>1 DEF TablesOK, TypeOK, RefuseBooking
<1>3. \A d \in Charges : Keeps(d) /\ NamesOwn(d)
  BY <1>1 DEF NamesOwn
<1>4. Booked' = Booked /\ \A d \in Booked : d \in Charges /\ charges[d] # NoCharge
  BY DEF RefuseBooking, TablesOK, TypeOK, BookedOK, Booked, ToSet
<1>5. \A d \in Booked' : charges'[d] # NoCharge
  BY <1>1, <1>4 DEF Keeps
<1>6. RedemptionsStay /\ \A s \in sessions' : s \in sessions
  BY DEF RefuseBooking, RedemptionsStay
<1>7. \A s, t2 \in sessions' : s.handler = t2.handler => s = t2
  BY DEF RefuseBooking, TablesOK, SessionsOK
<1>8. QED
  BY <1>2, <1>3, <1>4, <1>5, <1>6, <1>7, TablesStep DEF RefuseBooking

\* A session that is opened with what it has read.
LEMMA OpenTables ==
  ASSUME TablesOK, NEW s \in Session, SessionOK(s), ~Busy(s.handler), Open(s),
         s.kind \in {"book", "grant"} => s.row \in {0} \cup DOMAIN rows,
         UNCHANGED <<onSale, price, promoOn, redemptions, rows, charges, payments,
                     edits, mishaps>>
  PROVE  TablesOK'
<1>1. sessions' = sessions \cup {s} /\ overlap' \in BOOLEAN
  BY DEF Open, TablesOK, TypeOK
<1>2. TypeOK'
  BY <1>1 DEF TablesOK, TypeOK
<1>3. QED
  BY <1>1, <1>2, SessionsStep

LEMMA BeginBookingTables ==
  ASSUME TablesOK, NEW h \in Handlers, NEW c \in Charges, BeginBooking(h, c)
  PROVE  TablesOK'
<1> DEFINE ses(i) == [kind |-> "book", handler |-> h, charge |-> c, row |-> i,
                      read |-> ReadOf(charges[c].user, charges[c].tariff, i)]
<1>1. charges[c] # NoCharge /\ charges[c].user \in Users /\ charges[c].tariff \in Tariffs
  BY ChargeType DEF BeginBooking, TablesOK
<1>2. PICK i \in Extendable(charges[c].user) : Open(ses(i))
  BY DEF BeginBooking
<1>3. /\ i \in {0} \cup DOMAIN rows /\ i \in Nat
      /\ ReadOf(charges[c].user, charges[c].tariff, i) \in Row
  BY <1>1, ReadRow DEF TablesOK
<1>4. ses(i) \in Session /\ SessionOK(ses(i))
  BY <1>1, <1>3 DEF Session, SessionOK
<1>5. QED
  BY <1>2, <1>3, <1>4, OpenTables DEF BeginBooking

LEMMA BeginGrantTables ==
  ASSUME TablesOK, NEW h \in Handlers, NEW u \in Users, NEW p \in Promos, BeginGrant(h, u, p)
  PROVE  TablesOK'
<1> DEFINE ses(t, i) == [kind |-> "grant", handler |-> h, user |-> u, promo |-> p,
                         row |-> i, read |-> ReadOf(u, t, i)]
<1>1. PICK t \in Code[p].tariffs, i \in Extendable(u) : Open(ses(t, i))
  BY DEF BeginGrant
<1>2. t \in Tariffs /\ Code[p].freeDays
  BY CheckoutAssumption DEF BeginGrant
<1>3. i \in {0} \cup DOMAIN rows /\ i \in Nat /\ ReadOf(u, t, i) \in Row
  BY <1>2, ReadRow DEF TablesOK
<1>4. ses(t, i) \in Session /\ SessionOK(ses(t, i))
  BY <1>2, <1>3 DEF Session, SessionOK
<1>5. QED
  BY <1>1, <1>3, <1>4, OpenTables DEF BeginGrant

LEMMA BeginApplyTables ==
  ASSUME TablesOK, NEW h \in Handlers, NEW u \in Users, NEW p \in Promos, BeginApply(h, u, p)
  PROVE  TablesOK'
<1> DEFINE ses(keep) == [kind |-> "apply", handler |-> h, user |-> u, promo |-> p,
                         keep |-> keep, drops |-> Dropped(u, keep)]
<1>1. PICK keep \in RedemptionsOf(u, p) \cup {0} : Open(ses(keep))
  BY DEF BeginApply
<1>2. DOMAIN redemptions \subseteq Nat
  BY DEF TablesOK, TypeOK
<1>3. keep \in Nat /\ Dropped(u, keep) \subseteq DOMAIN redemptions
  BY <1>2 DEF RedemptionsOf, Dropped, Pending
<1>4. ses(keep) \in Session /\ SessionOK(ses(keep))
  BY <1>2, <1>3 DEF Session, SessionOK, BeginApply
<1>5. QED
  BY <1>1, <1>4, OpenTables DEF BeginApply

\* A commit or a rollback of s that leaves the payments: the other sessions stay.
LEMMA CloseTables ==
  ASSUME TablesOK, NEW s \in sessions, sessions' = sessions \ {s}, TypeOK', RedemptionsStay,
         \A c \in Charges : Keeps(c) /\ NamesOwn(c),
         \A r \in DOMAIN redemptions' :
           redemptions'[r].status = "consumed" /\ ~Code[redemptions'[r].promo].freeDays =>
             \/ r \in DOMAIN redemptions /\ redemptions[r].status = "consumed"
             \/ \E c \in Booked' : charges'[c].redemption = r,
         \/ UNCHANGED payments
         \/ \E c \in Charges : charges[c] # NoCharge /\ payments' = Append(payments, c)
  PROVE  TablesOK'
<1>1. \A c \in Booked : c \in Charges /\ charges[c] # NoCharge
  BY DEF TablesOK, TypeOK, BookedOK, Booked, ToSet
<1>2. Booked \subseteq Booked' /\ \A c \in Booked' : c \in Charges /\ charges[c] # NoCharge
  <2>1. CASE UNCHANGED payments
    BY <1>1, <2>1 DEF Booked
  <2>2. ASSUME NEW c \in Charges, charges[c] # NoCharge, payments' = Append(payments, c)
        PROVE  Booked \subseteq Booked' /\ \A d \in Booked' : d \in Charges /\ charges[d] # NoCharge
    BY <1>1, <2>2, BookedGrows DEF TablesOK, TypeOK
  <2>3. QED
    BY <2>1, <2>2
<1>3. \A c \in Booked' : charges'[c] # NoCharge
  BY <1>2 DEF Keeps
<1>4. \A q \in sessions' : q \in sessions
  OBVIOUS
<1>5. \A q, t \in sessions' : q.handler = t.handler => q = t
  BY DEF TablesOK, SessionsOK
<1>6. QED
  BY <1>2, <1>3, <1>4, <1>5, TablesStep

\* The sessions that stay open refer to rows that are still there.
LEMMA CloseTypes ==
  ASSUME TablesOK, NEW s \in sessions, sessions' = sessions \ {s},
         DOMAIN rows \subseteq DOMAIN rows'
  PROVE  /\ sessions' \in SUBSET Session
         /\ \A q \in sessions' : q.kind \in {"book", "grant"} => q.row \in {0} \cup DOMAIN rows'
  BY DEF TablesOK, TypeOK

\* What the booking of a charge writes.
LEMMA CommitBookingWrites ==
  ASSUME TablesOK, NEW s \in sessions, CommitBooking(s), s.charge \notin Booked,
         Activate(charges[s.charge].user, charges[s.charge].tariff, s.row, s.read),
         payments' = Append(payments, s.charge),
         redemptions' = IF charges[s.charge].redemption = 0 THEN redemptions
                        ELSE [redemptions EXCEPT ![charges[s.charge].redemption].status
                                = "consumed"]
  PROVE  /\ s.kind = "book" /\ s.charge \in Charges /\ charges[s.charge] # NoCharge
         /\ rows' \in Seq(Row) /\ DOMAIN rows \subseteq DOMAIN rows'
         /\ redemptions' \in Seq(Redemption) /\ RedemptionsStay
         /\ DOMAIN redemptions' = DOMAIN redemptions
         /\ \A r \in DOMAIN redemptions :
              redemptions'[r].status = IF r = charges[s.charge].redemption THEN "consumed"
                                       ELSE redemptions[r].status
         /\ payments' \in Seq(Charges) /\ IsInjective(payments')
         /\ Booked' = Booked \cup {s.charge}
<1> DEFINE c == s.charge
           d == charges[c].redemption
<1>1. s \in Session /\ s.kind = "book" /\ SessionOK(s)
  BY DEF TablesOK, TypeOK, SessionsOK, CommitBooking
<1>2. c \in Charges /\ charges[c] # NoCharge /\ s.row \in {0} \cup DOMAIN rows /\ s.read \in Row
  BY <1>1, Shapes DEF SessionOK, TablesOK, TypeOK
<1>3. charges[c].user \in Users /\ charges[c].tariff \in Tariffs /\ d \in Nat
  BY <1>2, ChargeType DEF TablesOK
<1>4. rows' \in Seq(Row) /\ DOMAIN rows \subseteq DOMAIN rows'
  BY <1>2, <1>3, ActivateType DEF TablesOK
<1>5. /\ redemptions' \in Seq(Redemption)
      /\ DOMAIN redemptions' = DOMAIN redemptions
      /\ \A r \in DOMAIN redemptions :
           /\ redemptions'[r].promo = redemptions[r].promo
           /\ redemptions'[r].user = redemptions[r].user
           /\ redemptions'[r].status = IF r = d THEN "consumed" ELSE redemptions[r].status
  <2>1. CASE d = 0
    BY <2>1, 0 \notin DOMAIN redemptions DEF TablesOK, TypeOK
  <2>2. CASE d # 0
    <3>1. d \in DOMAIN redemptions /\ redemptions \in Seq(Redemption) /\ redemptions[d] \in Redemption
      BY <1>2, <2>2 DEF TablesOK, TypeOK, ChargesOK
    <3>2. [redemptions[d] EXCEPT !.status = "consumed"] \in Redemption
      BY <3>1 DEF Redemption
    <3>3. redemptions' = [redemptions EXCEPT ![d] = [redemptions[d] EXCEPT !.status = "consumed"]]
      BY <2>2
    <3>4. /\ [redemptions[d] EXCEPT !.status = "consumed"].promo = redemptions[d].promo
          /\ [redemptions[d] EXCEPT !.status = "consumed"].user = redemptions[d].user
          /\ [redemptions[d] EXCEPT !.status = "consumed"].status = "consumed"
      BY <3>1 DEF Redemption
    <3>5. QED
      BY <3>1, <3>2, <3>3, <3>4
  <2>3. QED
    BY <2>1, <2>2
<1>6. Booked' = Booked \cup {c}
  BY <1>2, BookedGrows DEF TablesOK, TypeOK
<1>7. payments' \in Seq(Charges) /\ IsInjective(payments')
  <2>1. payments \in Seq(Charges) /\ IsInjective(payments)
    BY DEF TablesOK, TypeOK
  <2>2. /\ payments' \in Seq(Charges)
        /\ DOMAIN payments' = DOMAIN payments \cup {Len(payments) + 1}
        /\ \A i \in DOMAIN payments : payments'[i] = payments[i]
        /\ payments'[Len(payments) + 1] = c
    BY <1>2, <2>1, Appended
  <2>3. \A i \in DOMAIN payments : payments[i] # c
    BY DEF Booked, ToSet
  <2>4. QED
    BY <2>1, <2>2, <2>3 DEF IsInjective
<1>8. QED
  BY <1>1, <1>2, <1>4, <1>5, <1>6, <1>7 DEF RedemptionsStay

LEMMA CommitBookingTables ==
  ASSUME TablesOK, NEW s \in sessions, CommitBooking(s)
  PROVE  TablesOK'
<1> DEFINE c == s.charge
           d == charges[c].redemption
<1>1. sessions' = sessions \ {s} /\ UNCHANGED <<onSale, price, promoOn, edits, mishaps, overlap>>
  BY DEF CommitBooking
<1>2. s \in Session /\ s.kind = "book" /\ SessionOK(s)
  BY DEF TablesOK, TypeOK, SessionsOK, CommitBooking
<1>3. c \in Charges /\ charges[c] # NoCharge
  BY <1>2, Shapes DEF SessionOK
<1>4. CASE UNCHANGED <<rows, payments, redemptions>> /\ (UNCHANGED charges \/ charges' = Refused(c))
  <2>1. /\ charges' \in [Charges -> Charge \cup {NoCharge}]
        /\ \A e \in Charges : Keeps(e) /\ NamesOwn(e)
    <3>1. CASE UNCHANGED charges
      BY <3>1 DEF TablesOK, TypeOK, Keeps, NamesOwn
    <3>2. CASE charges' = Refused(c)
      BY <1>3, <3>2, RefusedKeeps DEF TablesOK, NamesOwn
    <3>3. QED
      BY <1>4, <3>1, <3>2
  <2>2. TypeOK'
    BY <1>1, <1>4, <2>1, CloseTypes DEF TablesOK, TypeOK
  <2>3. RedemptionsStay
    BY <1>4 DEF RedemptionsStay
  <2>4. QED
    BY <1>1, <1>4, <2>1, <2>2, <2>3, CloseTables
<1>5. CASE /\ c \notin Booked
           /\ Activate(charges[c].user, charges[c].tariff, s.row, s.read)
           /\ payments' = Append(payments, c)
           /\ redemptions' = IF d = 0 THEN redemptions
                             ELSE [redemptions EXCEPT ![d].status = "consumed"]
           /\ UNCHANGED charges
  <2>1. /\ rows' \in Seq(Row) /\ DOMAIN rows \subseteq DOMAIN rows'
        /\ redemptions' \in Seq(Redemption) /\ RedemptionsStay
        /\ DOMAIN redemptions' = DOMAIN redemptions
        /\ \A r \in DOMAIN redemptions :
             redemptions'[r].status = IF r = d THEN "consumed" ELSE redemptions[r].status
        /\ payments' \in Seq(Charges) /\ IsInjective(payments')
        /\ Booked' = Booked \cup {c}
    BY <1>5, CommitBookingWrites
  <2>2. TypeOK'
    BY <1>1, <1>5, <2>1, CloseTypes DEF TablesOK, TypeOK
  <2>3. \A e \in Charges : Keeps(e) /\ NamesOwn(e)
    BY <1>5 DEF Keeps, NamesOwn
  <2>4. \A r \in DOMAIN redemptions' :
           redemptions'[r].status = "consumed" =>
             \/ r \in DOMAIN redemptions /\ redemptions[r].status = "consumed"
             \/ \E e \in Booked' : charges'[e].redemption = r
    BY <1>5, <2>1
  <2>5. QED
    BY <1>1, <1>3, <1>5, <2>1, <2>2, <2>3, <2>4, CloseTables
<1>6. QED
  BY <1>4, <1>5 DEF CommitBooking

LEMMA CommitGrantTables ==
  ASSUME TablesOK, NEW s \in sessions, CommitGrant(s)
  PROVE  TablesOK'
<1> DEFINE new == [promo |-> s.promo, user |-> s.user, status |-> "consumed"]
<1>1. /\ sessions' = sessions \ {s}
      /\ UNCHANGED <<onSale, price, promoOn, charges, payments, edits, mishaps, overlap>>
  BY DEF CommitGrant
<1>2. s \in Session /\ s.kind = "grant" /\ SessionOK(s)
  BY DEF TablesOK, TypeOK, SessionsOK, CommitGrant
<1>3. /\ s.user \in Users /\ s.promo \in Promos /\ s.read \in Row
      /\ s.row \in {0} \cup DOMAIN rows /\ Code[s.promo].freeDays
  BY <1>2, Shapes DEF SessionOK, TablesOK, TypeOK
<1>4. PICK t \in Code[s.promo].tariffs :
        \/ /\ Activate(s.user, t, s.row, s.read)
           /\ redemptions' = Append(redemptions, new)
        \/ UNCHANGED <<rows, redemptions>>
  BY DEF CommitGrant
<1>5. t \in Tariffs
  BY <1>3, CheckoutAssumption
<1>6. \A c \in Charges : Keeps(c) /\ NamesOwn(c)
  BY <1>1 DEF Keeps, NamesOwn
<1>7. CASE Activate(s.user, t, s.row, s.read) /\ redemptions' = Append(redemptions, new)
  <2>1. rows' \in Seq(Row) /\ DOMAIN rows \subseteq DOMAIN rows'
    BY <1>3, <1>5, <1>7, ActivateType DEF TablesOK
  <2>2. new \in Redemption /\ redemptions \in Seq(Redemption)
    BY <1>3 DEF Redemption, TablesOK, TypeOK
  <2>3. /\ redemptions' \in Seq(Redemption)
        /\ DOMAIN redemptions' = DOMAIN redemptions \cup {Len(redemptions) + 1}
        /\ \A r \in DOMAIN redemptions : redemptions'[r] = redemptions[r]
        /\ redemptions'[Len(redemptions) + 1] = new
    BY <1>7, <2>2, Appended
  <2>4. TypeOK'
    BY <1>1, <2>1, <2>3, CloseTypes DEF TablesOK, TypeOK
  <2>5. RedemptionsStay
    BY <2>3 DEF RedemptionsStay
  <2>6. \A r \in DOMAIN redemptions' :
           redemptions'[r].status = "consumed" /\ ~Code[redemptions'[r].promo].freeDays =>
             r \in DOMAIN redemptions /\ redemptions[r].status = "consumed"
    BY <1>3, <2>3
  <2>7. QED
    BY <1>1, <1>6, <2>4, <2>5, <2>6, CloseTables
<1>8. CASE UNCHANGED <<rows, redemptions>>
  <2>1. TypeOK'
    BY <1>1, <1>8, CloseTypes DEF TablesOK, TypeOK
  <2>2. QED
    BY <1>1, <1>6, <1>8, <2>1, CloseTables DEF RedemptionsStay
<1>9. QED
  BY <1>4, <1>7, <1>8

\* What a code for a discount writes: the redemptions read as pending are cancelled,
\* and one is added unless an old one was kept.
LEMMA CommitApplyWrites ==
  ASSUME TablesOK, NEW s \in sessions, CommitApply(s)
  PROVE  /\ s \in Session /\ s.kind = "apply" /\ s.user \in Users /\ s.promo \in Promos
         /\ redemptions' \in Seq(Redemption) /\ RedemptionsStay
         /\ \A r \in DOMAIN redemptions :
              redemptions'[r].status = IF r \in s.drops THEN "cancelled" ELSE redemptions[r].status
         /\ s.keep # 0 => DOMAIN redemptions' = DOMAIN redemptions
         /\ s.keep = 0 =>
              /\ DOMAIN redemptions' = DOMAIN redemptions \cup {Len(redemptions) + 1}
              /\ redemptions'[Len(redemptions) + 1] =
                   [promo |-> s.promo, user |-> s.user, status |-> "pending"]
<1> DEFINE new == [promo |-> s.promo, user |-> s.user, status |-> "pending"]
           cancelled == [r \in DOMAIN redemptions |->
                           IF r \in s.drops THEN [redemptions[r] EXCEPT !.status = "cancelled"]
                           ELSE redemptions[r]]
<1>1. s \in Session /\ s.kind = "apply"
  BY DEF TablesOK, TypeOK, CommitApply
<1>2. s.user \in Users /\ s.promo \in Promos
  BY <1>1, Shapes
<1>3. redemptions' = IF s.keep # 0 THEN cancelled ELSE Append(cancelled, new)
  BY DEF CommitApply
<1>4. /\ redemptions \in Seq(Redemption) /\ Len(redemptions) \in Nat
      /\ DOMAIN redemptions = 1 .. Len(redemptions)
      /\ \A r \in DOMAIN redemptions : redemptions[r] \in Redemption
  BY DEF TablesOK, TypeOK
<1>5. \A x \in Redemption : /\ [x EXCEPT !.status = "cancelled"] \in Redemption
                            /\ [x EXCEPT !.status = "cancelled"].promo = x.promo
                            /\ [x EXCEPT !.status = "cancelled"].user = x.user
                            /\ [x EXCEPT !.status = "cancelled"].status = "cancelled"
  BY DEF Redemption
<1>6. /\ cancelled \in [1 .. Len(redemptions) -> Redemption]
      /\ \A r \in DOMAIN redemptions :
           /\ cancelled[r].promo = redemptions[r].promo
           /\ cancelled[r].user = redemptions[r].user
           /\ cancelled[r].status =
                IF r \in s.drops THEN "cancelled" ELSE redemptions[r].status
  BY <1>4, <1>5
<1>7. cancelled \in Seq(Redemption) /\ Len(cancelled) = Len(redemptions)
  BY <1>4, <1>6
<1>8. new \in Redemption
  BY <1>2 DEF Redemption
<1> HIDE DEF cancelled, new
<1>9. /\ Append(cancelled, new) \in Seq(Redemption)
      /\ DOMAIN Append(cancelled, new) = DOMAIN cancelled \cup {Len(cancelled) + 1}
      /\ \A i \in DOMAIN cancelled : Append(cancelled, new)[i] = cancelled[i]
      /\ Append(cancelled, new)[Len(cancelled) + 1] = new
  BY <1>7, <1>8, Appended
<1>10. DOMAIN cancelled = DOMAIN redemptions
  BY <1>4, <1>6
<1>11. QED
  BY <1>1, <1>2, <1>3, <1>6, <1>7, <1>9, <1>10 DEF RedemptionsStay, new

LEMMA CommitApplyTables ==
  ASSUME TablesOK, NEW s \in sessions, CommitApply(s)
  PROVE  TablesOK'
<1>1. /\ sessions' = sessions \ {s}
      /\ UNCHANGED <<onSale, price, promoOn, rows, charges, payments, edits, mishaps, overlap>>
  BY DEF CommitApply
<1>2. TypeOK'
  BY <1>1, CloseTypes, CommitApplyWrites DEF TablesOK, TypeOK
<1>3. \A c \in Charges : Keeps(c) /\ NamesOwn(c)
  BY <1>1 DEF Keeps, NamesOwn
<1>4. \A r \in DOMAIN redemptions' : redemptions'[r].status = "consumed" =>
        r \in DOMAIN redemptions /\ redemptions[r].status = "consumed"
  <2>1. \A r \in DOMAIN redemptions :
          redemptions'[r].status = IF r \in s.drops THEN "cancelled" ELSE redemptions[r].status
    BY CommitApplyWrites
  <2>2. CASE s.keep # 0
    BY <2>1, <2>2, CommitApplyWrites
  <2>3. CASE s.keep = 0
    <3>1. /\ DOMAIN redemptions' = DOMAIN redemptions \cup {Len(redemptions) + 1}
          /\ redemptions'[Len(redemptions) + 1] =
               [promo |-> s.promo, user |-> s.user, status |-> "pending"]
      BY <2>3, CommitApplyWrites
    <3>2. redemptions'[Len(redemptions) + 1].status = "pending"
      BY <3>1
    <3>3. QED
      BY <2>1, <3>1, <3>2
  <2>4. QED
    BY <2>2, <2>3
<1>5. QED
  BY <1>1, <1>2, <1>3, <1>4, CloseTables, CommitApplyWrites

LEMMA FailSessionTables ==
  ASSUME TablesOK, NEW s \in sessions, FailSession(s)
  PROVE  TablesOK'
<1>1. /\ sessions' = sessions \ {s} /\ mishaps' = mishaps + 1
      /\ UNCHANGED <<onSale, price, promoOn, redemptions, rows, payments, edits, overlap>>
  BY DEF FailSession
<1>2. /\ charges' \in [Charges -> Charge \cup {NoCharge}]
      /\ \A c \in Charges : Keeps(c) /\ NamesOwn(c)
  <2>1. CASE UNCHANGED charges
    BY <2>1 DEF TablesOK, TypeOK, Keeps, NamesOwn
  <2>2. CASE s.kind = "book" /\ charges' = Refused(s.charge)
    <3>1. s.charge \in Charges /\ charges[s.charge] # NoCharge
      BY <2>2, Shapes DEF TablesOK, TypeOK, SessionsOK, SessionOK
    <3>2. QED
      BY <2>2, <3>1, RefusedKeeps DEF TablesOK, NamesOwn
  <2>3. QED
    BY <2>1, <2>2 DEF FailSession
<1>3. TypeOK'
  BY <1>1, <1>2, CloseTypes DEF TablesOK, TypeOK
<1>4. QED
  BY <1>1, <1>2, <1>3, CloseTables DEF RedemptionsStay

LEMMA CrashTables ==
  ASSUME TablesOK, Crash
  PROVE  TablesOK'
<1>1. TypeOK'
  BY DEF TablesOK, TypeOK, Crash
<1>2. QED
  BY <1>1, SessionsStep DEF Crash

-----------------------------------------------------------------------------
(* The limits of promo codes *)

LEMMA HeldFinite ==
  ASSUME TypeOK, NEW p, NEW V
  PROVE  IsFiniteSet(Held(p, V)) /\ IsFiniteSet(Adding(p, V)) /\ Cardinality(Handlers) \in Nat
<1>1. IsFiniteSet(DOMAIN redemptions)
  <2>1. DOMAIN redemptions = 1 .. Len(redemptions) /\ Len(redemptions) \in Nat
    BY DEF TypeOK
  <2>2. QED
    BY <2>1, FS_Interval
<1>2. Held(p, V) \subseteq DOMAIN redemptions /\ Adding(p, V) \subseteq Handlers
  BY DEF Held, Adding
<1>3. QED
  BY <1>1, <1>2, FS_Subset, FS_CardinalityType, CheckoutAssumption

\* A step that takes no limit further.
Tightens == \A p \in Promos, V \in SUBSET Users, n \in Nat : Within(p, V, n) => Within(p, V, n)'

LEMMA LimitTypes ==
  ASSUME NEW p \in Promos
  PROVE  /\ Code[p].maxUses \in Nat /\ Code[p].maxUses > 0
         /\ Code[p].perUserLimit \in Nat /\ Code[p].perUserLimit > 0
         /\ Users \in SUBSET Users /\ \A u \in Users : {u} \in SUBSET Users
  BY CheckoutAssumption

LEMMA TightensKeeps ==
  ASSUME LimitsOK, Tightens
  PROVE  LimitsOK'
  BY LimitTypes DEF LimitsOK, Tightens

\* Nothing is held or added that was not before.
LEMMA ShrinkTightens ==
  ASSUME TypeOK,
         \A p \in Promos, V \in SUBSET Users :
           Held(p, V)' \subseteq Held(p, V) /\ Adding(p, V)' \subseteq Adding(p, V)
  PROVE  Tightens
<1>1. SUFFICES ASSUME NEW p \in Promos, NEW V \in SUBSET Users, NEW n \in Nat, Within(p, V, n)
               PROVE  Within(p, V, n)'
  BY DEF Tightens
<1>2. n + Cardinality(Handlers) \in Nat
  BY HeldFinite
<1>3. Cardinality(Held(p, V)') + Cardinality(Adding(p, V)') < n + Cardinality(Handlers)
  BY <1>1, <1>2, HeldFinite, SumShrinks DEF Within
<1>4. QED
  BY <1>3 DEF Within

\* A commit of s adds the redemption it has been counted for.
LEMMA MoveTightens ==
  ASSUME TypeOK, NEW s \in sessions, NEW q \in Promos, NEW u \in Users, NEW x,
         s.handler \in Handlers, Adds(s, q, {u}),
         \A p \in Promos, V \in SUBSET Users :
           /\ Adding(p, V)' \subseteq Adding(p, V)
           /\ IF p = q /\ u \in V
              THEN Held(p, V)' \subseteq Held(p, V) \cup {x} /\ s.handler \notin Adding(p, V)'
              ELSE Held(p, V)' \subseteq Held(p, V)
  PROVE  Tightens
<1>1. SUFFICES ASSUME NEW p \in Promos, NEW V \in SUBSET Users, NEW n \in Nat, Within(p, V, n)
               PROVE  Within(p, V, n)'
  BY DEF Tightens
<1>2. n + Cardinality(Handlers) \in Nat
  BY HeldFinite
<1>3. CASE p = q /\ u \in V
  <2>1. s.handler \in Adding(p, V)
    BY <1>3 DEF Adding, Adds
  <2>2. /\ Held(p, V)' \subseteq Held(p, V) \cup {x}
        /\ Adding(p, V)' \subseteq Adding(p, V) \ {s.handler}
    BY <1>3
  <2>3. /\ IsFiniteSet(Held(p, V)) /\ IsFiniteSet(Adding(p, V))
        /\ Cardinality(Held(p, V)) + Cardinality(Adding(p, V)) < n + Cardinality(Handlers)
    BY <1>1, HeldFinite DEF Within
  <2>4. Cardinality(Held(p, V)') + Cardinality(Adding(p, V)') < n + Cardinality(Handlers)
    BY ONLY <1>2, <2>1, <2>2, <2>3, SumMoves
  <2>5. QED
    BY <2>4 DEF Within
<1>4. CASE ~(p = q /\ u \in V)
  <2>1. Cardinality(Held(p, V)') + Cardinality(Adding(p, V)') < n + Cardinality(Handlers)
    BY <1>1, <1>2, <1>4, HeldFinite, SumShrinks DEF Within
  <2>2. QED
    BY <2>1 DEF Within
<1>5. QED
  BY <1>3, <1>4

\* Redemptions that count now.
UsesIn(p, V) == {r \in Uses(p) : redemptions[r].user \in V}

\* What is held beyond the uses is named by handlers that are busy with a booking,
\* so a check that finds room for one more use finds room for a whole set of handlers.
LEMMA CheckLeavesRoom ==
  ASSUME TablesOK, NEW p \in Promos, NEW V \in SUBSET Users, NEW n \in Nat,
         Cardinality(UsesIn(p, V)) < n, NEW h \in Handlers, ~Busy(h)
  PROVE  Cardinality(Held(p, V)) + Cardinality(Adding(p, V) \cup {h}) < n + Cardinality(Handlers)
<1> DEFINE U == UsesIn(p, V)
           C == Held(p, V) \ U
           SessionOf(k) == CHOOSE t \in sessions : t.handler = k
           B == {k \in Handlers : \E t \in sessions : t.handler = k /\ \E r \in C : Books(t, r)}
           A == Adding(p, V) \cup {h}
           f == [k \in B |-> charges[SessionOf(k).charge].redemption]
<1>1. U \subseteq Held(p, V) /\ \A r \in C : \E t \in sessions : Books(t, r)
  BY DEF UsesIn, Uses, Held
<1>2. \A t \in sessions : t \in Session /\ t.handler \in Handlers /\ SessionOf(t.handler) = t
  BY Shapes DEF TablesOK, TypeOK, SessionsOK
<1>3. f \in Surjection(B, C)
  <2>1. ASSUME NEW k \in B PROVE f[k] \in C
    <3>1. PICK t \in sessions, r \in C : t.handler = k /\ Books(t, r)
      OBVIOUS
    <3>2. SessionOf(k) = t
      BY <1>2, <3>1
    <3>3. QED
      BY <3>1, <3>2 DEF Books
  <2>2. ASSUME NEW r \in C PROVE \E k \in B : f[k] = r
    <3>1. PICK t \in sessions : Books(t, r)
      BY <1>1
    <3>2. t.handler \in B /\ SessionOf(t.handler) = t
      BY <1>2, <3>1
    <3>3. QED
      BY <3>1, <3>2 DEF Books
  <2>3. f \in [B -> C]
    BY <2>1
  <2>4. QED
    BY <2>2, <2>3, Fun_IsSurj
<1>4. B \cap A = {}
  <2>1. \A t \in sessions : t.handler # h
    BY DEF Busy
  <2>2. \A t \in sessions, r \in C : Books(t, r) => ~Adds(t, p, V)
    BY DEF Books, Adds
  <2>3. QED
    BY <2>1, <2>2 DEF Adding, TablesOK, SessionsOK
<1>5. B \subseteq Handlers /\ A \subseteq Handlers /\ B \cup A \subseteq Handlers
  BY DEF Adding
<1> HIDE DEF B, C, A, f, U
<1>6. /\ IsFiniteSet(B) /\ Cardinality(B) \in Nat
      /\ IsFiniteSet(A) /\ Cardinality(A) \in Nat
      /\ Cardinality(B \cup A) <= Cardinality(Handlers)
  BY <1>5, FS_Subset, FS_CardinalityType, CheckoutAssumption
<1>7. Cardinality(B) + Cardinality(A) <= Cardinality(Handlers)
  <2>1. Cardinality(B \cup A) = Cardinality(B) + Cardinality(A) - Cardinality(B \cap A)
    BY <1>6, FS_Union
  <2>2. Cardinality(B \cap A) = 0
    BY <1>4, FS_EmptySet
  <2>3. QED
    BY <1>6, <2>1, <2>2
<1>8. IsFiniteSet(C) /\ Cardinality(C) \in Nat /\ Cardinality(C) <= Cardinality(B)
  BY <1>3, <1>6, FS_Surjection, FS_CardinalityType
<1>9. Cardinality(Held(p, V)) <= Cardinality(U) + Cardinality(C) /\ Cardinality(U) \in Nat
  <2>1. IsFiniteSet(U) /\ Cardinality(U) \in Nat
    BY <1>1, HeldFinite, FS_Subset, FS_CardinalityType DEF TablesOK
  <2>2. /\ Cardinality(U \cup C) = Cardinality(U) + Cardinality(C) - Cardinality(U \cap C)
        /\ Cardinality(U \cap C) \in Nat
    BY <1>8, <2>1, FS_Union, FS_Intersection, FS_CardinalityType
  <2>3. U \cup C = Held(p, V)
    BY <1>1 DEF C
  <2>4. Cardinality(Held(p, V)) = Cardinality(U \cup C)
    BY <2>3
  <2>5. QED
    BY <1>8, <2>1, <2>2, <2>4
<1>10. Cardinality(U) < n /\ Cardinality(Handlers) \in Nat
  BY HeldFinite DEF U, TablesOK
<1>11. Cardinality(Held(p, V)) \in Nat
  BY HeldFinite, FS_CardinalityType DEF TablesOK
<1>12. Cardinality(Held(p, V)) + Cardinality(A) < n + Cardinality(Handlers)
  BY <1>6, <1>7, <1>8, <1>9, <1>10, <1>11
<1>13. QED
  BY <1>12 DEF A

\* Sessions end, charges are made or refused: no redemption counts that did not.
LEMMA FewerSessionsTighten ==
  ASSUME TablesOK, UNCHANGED redemptions, sessions' \subseteq sessions,
         \A c \in Charges : Keeps(c)
  PROVE  Tightens
<1>1. ASSUME NEW s \in sessions, NEW r PROVE Books(s, r)' => Books(s, r)
  <2>1. s.kind = "book" => s.charge \in Charges /\ charges[s.charge] # NoCharge
    BY Shapes DEF TablesOK, TypeOK, SessionsOK, SessionOK
  <2>2. QED
    BY <2>1 DEF Books, Keeps
<1>2. ASSUME NEW p \in Promos, NEW V \in SUBSET Users
      PROVE  Held(p, V)' \subseteq Held(p, V) /\ Adding(p, V)' \subseteq Adding(p, V)
  BY <1>1 DEF Held, Adding, Adds
<1>3. QED
  BY <1>2, ShrinkTightens DEF TablesOK

\* A booking that is opened names a redemption that is pending and counts already.
LEMMA BeginBookingTightens ==
  ASSUME TablesOK, NEW h \in Handlers, NEW c \in Charges, BeginBooking(h, c)
  PROVE  Tightens
<1> DEFINE ses(i) == [kind |-> "book", handler |-> h, charge |-> c, row |-> i,
                      read |-> ReadOf(charges[c].user, charges[c].tariff, i)]
<1>1. PICK s : /\ sessions' = sessions \cup {s}
               /\ s.kind = "book" /\ s.charge = c
  <2>1. PICK i \in Extendable(charges[c].user) : Open(ses(i))
    BY DEF BeginBooking
  <2>2. sessions' = sessions \cup {ses(i)} /\ ses(i).kind = "book" /\ ses(i).charge = c
    BY <2>1 DEF Open
  <2> HIDE DEF ses
  <2>3. QED
    BY <2>2
<1>2. UNCHANGED <<redemptions, charges>>
  BY DEF BeginBooking
<1>3. ASSUME NEW r \in DOMAIN redemptions, charges[c].redemption = r
      PROVE  redemptions[r].status # "cancelled"
  <2>1. r # 0
    BY DEF TablesOK, TypeOK
  <2>2. QED
    BY <1>3, <2>1 DEF BeginBooking, Accepted, Discounts
<1>4. ASSUME NEW p \in Promos, NEW V \in SUBSET Users
      PROVE  Held(p, V)' \subseteq Held(p, V) /\ Adding(p, V)' \subseteq Adding(p, V)
  <2>1. Held(p, V)' \subseteq Held(p, V)
    BY <1>1, <1>2, <1>3 DEF Held, Books
  <2>2. Adding(p, V)' \subseteq Adding(p, V)
    BY <1>1 DEF Adding, Adds
  <2>3. QED
    BY <2>1, <2>2
<1>5. QED
  BY <1>4, ShrinkTightens DEF TablesOK

\* A session that will add a redemption of q is opened: the checks have left room.
LEMMA OpenLimits ==
  ASSUME TablesOK, LimitsOK, NEW s \in Session, NEW h \in Handlers, ~Busy(h), s.handler = h,
         s.kind \in {"grant", "apply"}, UNCHANGED <<redemptions, charges>>,
         sessions' = sessions \cup {s},
         s.kind = "apply" => s.keep # 0 \/ (UsageLeft(s.promo) /\ UserUsageLeft(s.user, s.promo)),
         s.kind = "grant" => UsageLeft(s.promo) /\ UserUsageLeft(s.user, s.promo)
  PROVE  LimitsOK'
<1>1. s.user \in Users /\ s.promo \in Promos
  BY Shapes
<1>2. ASSUME NEW p \in Promos, NEW V \in SUBSET Users PROVE Held(p, V)' = Held(p, V)
  BY DEF Held, Books
<1>3. ASSUME NEW p \in Promos, NEW V \in SUBSET Users, NEW n \in Nat, Within(p, V, n),
             Adds(s, p, V) => Cardinality(UsesIn(p, V)) < n
      PROVE  Within(p, V, n)'
  <2>1. CASE Adds(s, p, V)
    <3>1. Adding(p, V)' = Adding(p, V) \cup {h}
      BY <2>1 DEF Adding, Adds
    <3>2. Cardinality(Held(p, V)) + Cardinality(Adding(p, V) \cup {h})
            < n + Cardinality(Handlers)
      BY <1>3, <2>1, CheckLeavesRoom
    <3>3. QED
      BY <1>2, <3>1, <3>2 DEF Within
  <2>2. CASE ~Adds(s, p, V)
    <3>1. Adding(p, V)' = Adding(p, V)
      BY <2>2 DEF Adding, Adds
    <3>2. QED
      BY <1>2, <1>3, <3>1 DEF Within
  <2>3. QED
    BY <2>1, <2>2
<1>4. \A r \in DOMAIN redemptions : redemptions[r].user \in Users
  <2>1. \A r \in DOMAIN redemptions : redemptions[r] \in Redemption
    BY DEF TablesOK, TypeOK
  <2>2. QED
    BY <2>1 DEF Redemption
<1>5. ASSUME NEW p \in Promos PROVE Within(p, Users, Code[p].maxUses)'
  <2>1. UsesIn(p, Users) = Uses(p)
    BY <1>4 DEF UsesIn, Uses
  <2>2. Adds(s, p, Users) => Cardinality(UsesIn(p, Users)) < Code[p].maxUses
    BY <2>1 DEF Adds, UsageLeft
  <2>3. Within(p, Users, Code[p].maxUses)
    BY DEF LimitsOK
  <2>4. QED
    BY <1>3, <2>2, <2>3, LimitTypes
<1>6. ASSUME NEW p \in Promos, NEW u \in Users PROVE Within(p, {u}, Code[p].perUserLimit)'
  <2>1. UsesIn(p, {u}) = UsesOf(u, p)
    BY DEF UsesIn, UsesOf
  <2>2. Adds(s, p, {u}) => Cardinality(UsesIn(p, {u})) < Code[p].perUserLimit
    BY <2>1 DEF Adds, UserUsageLeft
  <2>3. Within(p, {u}, Code[p].perUserLimit)
    BY DEF LimitsOK
  <2>4. QED
    BY <1>3, <2>2, <2>3, LimitTypes
<1>7. QED
  BY <1>5, <1>6 DEF LimitsOK

LEMMA BeginGrantLimits ==
  ASSUME TablesOK, LimitsOK, NEW h \in Handlers, NEW u \in Users, NEW p \in Promos,
         BeginGrant(h, u, p)
  PROVE  LimitsOK'
<1> DEFINE ses(t, i) == [kind |-> "grant", handler |-> h, user |-> u, promo |-> p,
                         row |-> i, read |-> ReadOf(u, t, i)]
<1>1. PICK t \in Code[p].tariffs, i \in Extendable(u) : Open(ses(t, i))
  BY DEF BeginGrant
<1>2. t \in Tariffs
  BY CheckoutAssumption
<1>3. ses(t, i) \in Session
  BY <1>2, ReadRow DEF Session, TablesOK
<1>4. /\ ses(t, i).handler = h /\ ses(t, i).kind = "grant"
      /\ ses(t, i).promo = p /\ ses(t, i).user = u
      /\ sessions' = sessions \cup {ses(t, i)}
  BY <1>1 DEF Open
<1>5. ~Busy(h) /\ UsageLeft(p) /\ UserUsageLeft(u, p) /\ UNCHANGED <<redemptions, charges>>
  BY DEF BeginGrant
<1> HIDE DEF ses
<1>6. QED
  BY <1>3, <1>4, <1>5, OpenLimits

LEMMA BeginApplyLimits ==
  ASSUME TablesOK, LimitsOK, NEW h \in Handlers, NEW u \in Users, NEW p \in Promos,
         BeginApply(h, u, p)
  PROVE  LimitsOK'
<1> DEFINE ses(keep) == [kind |-> "apply", handler |-> h, user |-> u, promo |-> p,
                         keep |-> keep, drops |-> Dropped(u, keep)]
<1>1. PICK keep \in RedemptionsOf(u, p) \cup {0} :
        /\ keep \in Pending(u) \/ (keep = 0 /\ UserUsageLeft(u, p) /\ UsageLeft(p))
        /\ Open(ses(keep))
  BY DEF BeginApply
<1>2. DOMAIN redemptions \subseteq Nat \ {0}
  BY DEF TablesOK, TypeOK
<1>3. /\ keep \in Nat /\ Dropped(u, keep) \subseteq Nat
      /\ keep # 0 \/ (UserUsageLeft(u, p) /\ UsageLeft(p))
  BY <1>1, <1>2 DEF RedemptionsOf, Dropped, Pending
<1>4. ses(keep) \in Session
  BY <1>3 DEF Session
<1>5. /\ ses(keep).handler = h /\ ses(keep).kind = "apply" /\ ses(keep).keep = keep
      /\ ses(keep).promo = p /\ ses(keep).user = u
      /\ sessions' = sessions \cup {ses(keep)}
  BY <1>1 DEF Open
<1>6. ~Busy(h) /\ UNCHANGED <<redemptions, charges>>
  BY DEF BeginApply
<1> HIDE DEF ses
<1>7. QED
  BY <1>3, <1>4, <1>5, <1>6, OpenLimits

\* What a booking uses up was held by its session.
LEMMA CommitBookingTightens ==
  ASSUME TablesOK, NEW s \in sessions, CommitBooking(s)
  PROVE  Tightens
<1> DEFINE c == s.charge
           d == charges[c].redemption
<1>1. sessions' = sessions \ {s} /\ s.kind = "book" /\ c \in Charges /\ charges[c] # NoCharge
  BY Shapes DEF CommitBooking, TablesOK, TypeOK, SessionsOK, SessionOK
<1>2. CASE UNCHANGED redemptions /\ (UNCHANGED charges \/ charges' = Refused(c))
  <2>1. \A e \in Charges : Keeps(e)
    BY <1>1, <1>2, RefusedKeeps DEF TablesOK, Keeps
  <2>2. QED
    BY <1>1, <1>2, <2>1, FewerSessionsTighten
<1>3. CASE /\ c \notin Booked
           /\ Activate(charges[c].user, charges[c].tariff, s.row, s.read)
           /\ payments' = Append(payments, c)
           /\ redemptions' = IF d = 0 THEN redemptions
                             ELSE [redemptions EXCEPT ![d].status = "consumed"]
           /\ UNCHANGED charges
  <2>1. /\ RedemptionsStay
        /\ DOMAIN redemptions' = DOMAIN redemptions
        /\ \A r \in DOMAIN redemptions :
             redemptions'[r].status = IF r = d THEN "consumed" ELSE redemptions[r].status
    BY <1>3, CommitBookingWrites
  <2>2. ASSUME NEW p \in Promos, NEW V \in SUBSET Users
        PROVE  Held(p, V)' \subseteq Held(p, V) /\ Adding(p, V)' \subseteq Adding(p, V)
    <3>1. Adding(p, V)' \subseteq Adding(p, V)
      BY <1>1 DEF Adding, Adds
    <3>2. Held(p, V)' \subseteq Held(p, V)
      BY <1>1, <1>3, <2>1 DEF Held, Books, RedemptionsStay
    <3>3. QED
      BY <3>1, <3>2
  <2>3. QED
    BY <2>2, ShrinkTightens DEF TablesOK
<1>4. QED
  BY <1>2, <1>3 DEF CommitBooking

\* A redemption is added by a session that has been counted for it.
LEMMA AppendTightens ==
  ASSUME TablesOK, NEW s \in sessions, sessions' = sessions \ {s}, UNCHANGED charges,
         s.kind \in {"grant", "apply"}, s.kind = "apply" => s.keep = 0,
         NEW x, DOMAIN redemptions' = DOMAIN redemptions \cup {x}, RedemptionsStay,
         redemptions'[x].promo = s.promo, redemptions'[x].user = s.user,
         \A r \in DOMAIN redemptions :
           redemptions'[r].status # "cancelled" => redemptions[r].status # "cancelled"
  PROVE  Tightens
<1>1. /\ s \in Session /\ s.handler \in Handlers /\ s.user \in Users /\ s.promo \in Promos
      /\ \A t \in sessions : t.handler = s.handler => t = s
  BY Shapes DEF TablesOK, TypeOK, SessionsOK
<1>2. Adds(s, s.promo, {s.user})
  BY DEF Adds
<1>3. ASSUME NEW p \in Promos, NEW V \in SUBSET Users
      PROVE  /\ Adding(p, V)' \subseteq Adding(p, V)
             /\ s.handler \notin Adding(p, V)'
             /\ Held(p, V)' \subseteq Held(p, V) \cup {x}
             /\ ~(p = s.promo /\ s.user \in V) => Held(p, V)' \subseteq Held(p, V)
  <2>1. Adding(p, V)' \subseteq Adding(p, V) /\ s.handler \notin Adding(p, V)'
    BY <1>1 DEF Adding, Adds
  <2>2. ASSUME NEW r \in Held(p, V)', r \in DOMAIN redemptions PROVE r \in Held(p, V)
    BY <2>2 DEF Held, Books, RedemptionsStay
  <2>3. ASSUME NEW r \in Held(p, V)', r \notin DOMAIN redemptions
        PROVE  r = x /\ p = s.promo /\ s.user \in V
    BY <2>3 DEF Held
  <2>4. QED
    BY <2>1, <2>2, <2>3
<1>4. QED
  BY <1>1, <1>2, <1>3, MoveTightens DEF TablesOK

LEMMA CommitGrantTightens ==
  ASSUME TablesOK, NEW s \in sessions, CommitGrant(s)
  PROVE  Tightens
<1> DEFINE new == [promo |-> s.promo, user |-> s.user, status |-> "consumed"]
<1>1. s.kind = "grant" /\ sessions' = sessions \ {s} /\ UNCHANGED charges
  BY DEF CommitGrant
<1>2. CASE UNCHANGED redemptions
  BY <1>1, <1>2, FewerSessionsTighten DEF Keeps
<1>3. CASE redemptions' = Append(redemptions, new)
  <2>1. new \in Redemption /\ redemptions \in Seq(Redemption)
    BY <1>1, Shapes DEF Redemption, TablesOK, TypeOK
  <2>2. /\ DOMAIN redemptions' = DOMAIN redemptions \cup {Len(redemptions) + 1}
        /\ \A r \in DOMAIN redemptions : redemptions'[r] = redemptions[r]
        /\ redemptions'[Len(redemptions) + 1] = new
    BY <1>3, <2>1, Appended
  <2>3. RedemptionsStay
    BY <2>2 DEF RedemptionsStay
  <2>4. QED
    BY <1>1, <2>2, <2>3, AppendTightens
<1>4. QED
  BY <1>2, <1>3 DEF CommitGrant

LEMMA CommitApplyTightens ==
  ASSUME TablesOK, NEW s \in sessions, CommitApply(s)
  PROVE  Tightens
<1>1. s.kind = "apply" /\ sessions' = sessions \ {s} /\ UNCHANGED charges
  BY DEF CommitApply
<1>2. /\ RedemptionsStay
      /\ \A r \in DOMAIN redemptions :
           redemptions'[r].status = IF r \in s.drops THEN "cancelled" ELSE redemptions[r].status
  BY CommitApplyWrites
<1>3. CASE s.keep = 0
  <2>1. /\ DOMAIN redemptions' = DOMAIN redemptions \cup {Len(redemptions) + 1}
        /\ redemptions'[Len(redemptions) + 1] =
             [promo |-> s.promo, user |-> s.user, status |-> "pending"]
    BY <1>3, CommitApplyWrites
  <2>2. /\ redemptions'[Len(redemptions) + 1].promo = s.promo
        /\ redemptions'[Len(redemptions) + 1].user = s.user
    BY <2>1
  <2>3. QED
    BY <1>1, <1>2, <1>3, <2>1, <2>2, AppendTightens
<1>4. CASE s.keep # 0
  <2>1. DOMAIN redemptions' = DOMAIN redemptions
    BY <1>4, CommitApplyWrites
  <2>2. ASSUME NEW p \in Promos, NEW V \in SUBSET Users
        PROVE  Held(p, V)' \subseteq Held(p, V) /\ Adding(p, V)' \subseteq Adding(p, V)
    <3>1. Adding(p, V)' \subseteq Adding(p, V)
      BY <1>1 DEF Adding, Adds
    <3>2. Held(p, V)' \subseteq Held(p, V)
      BY <1>1, <1>2, <2>1 DEF Held, Books, RedemptionsStay
    <3>3. QED
      BY <3>1, <3>2
  <2>3. QED
    BY <2>2, ShrinkTightens DEF TablesOK
<1>5. QED
  BY <1>3, <1>4

-----------------------------------------------------------------------------
(* Histories without overlap *)

SerialOK == SerialInv /\ SerialDiscountOnce /\ SerialFirstOnlyIsFirst

\* The rows that are there keep their kind of end.
EndsStay == \A i \in DOMAIN rows : i \in DOMAIN rows' /\ rows'[i].endless = rows[i].endless

\* Sessions end without a trace, and the tables they have read stay.
LEMMA QuietSerial ==
  ASSUME TablesOK, SerialOK, UNCHANGED <<redemptions, payments, overlap>>,
         sessions' \subseteq sessions, \A c \in Charges : Keeps(c), EndsStay
  PROVE  SerialOK'
<1>1. SUFFICES ASSUME ~overlap PROVE SerialOK'
  BY DEF SerialOK, SerialInv, SerialDiscountOnce, SerialFirstOnlyIsFirst
<1>2. Booked' = Booked /\ \A c \in Booked : c \in Charges /\ charges[c] # NoCharge
  BY DEF TablesOK, TypeOK, BookedOK, Booked, ToSet
<1>3. \A c \in Booked : charges'[c].user = charges[c].user
                        /\ charges'[c].redemption = charges[c].redemption
  BY <1>2 DEF Keeps
<1>4. ASSUME NEW s \in sessions' PROVE Fresh(s)'
  <2>1. s \in sessions /\ s \in Session /\ Fresh(s) /\ SessionOK(s)
    BY <1>1 DEF SerialOK, SerialInv, TablesOK, TypeOK, SessionsOK
  <2>2. CASE s.kind = "book"
    <3>1. /\ charges'[s.charge].user = charges[s.charge].user
          /\ charges'[s.charge].redemption = charges[s.charge].redemption
      BY <2>1, <2>2, Shapes DEF SessionOK, Keeps
    <3>2. s.row # 0 => rows'[s.row].endless = s.read.endless
      BY <2>1, <2>2 DEF Fresh, EndsStay, TablesOK, TypeOK
    <3>3. QED
      BY <1>2, <1>3, <2>1, <2>2, <3>1, <3>2 DEF Fresh, FirstPurchaseOnly
  <2>3. CASE s.kind = "grant"
    BY <2>1, <2>3 DEF Fresh, EndsStay, TablesOK, TypeOK
  <2>4. CASE s.kind = "apply"
    BY <2>1, <2>4 DEF Fresh
  <2>5. QED
    BY <2>1, <2>2, <2>3, <2>4, Shapes
<1>5. SerialInv'
  BY <1>1, <1>2, <1>3, <1>4 DEF SerialOK, SerialInv, BookedAreUsed
<1>6. SerialDiscountOnce'
  BY <1>1, <1>2, <1>3 DEF SerialOK, SerialDiscountOnce
<1>7. SerialFirstOnlyIsFirst'
  <2>1. \A n \in DOMAIN payments : payments[n] \in Booked
    BY DEF Booked, ToSet
  <2>2. \A n \in DOMAIN payments : \A m \in 1 .. n - 1 : m \in DOMAIN payments
    BY DEF TablesOK, TypeOK
  <2>3. QED
    BY <1>1, <1>3, <2>1, <2>2 DEF SerialOK, SerialFirstOnlyIsFirst
<1>8. QED
  BY <1>5, <1>6, <1>7 DEF SerialOK

\* A session that is opened is alone or overlaps; alone, it has just read.
LEMMA OpenSerial ==
  ASSUME TablesOK, SerialOK, NEW s, Open(s), Fresh(s),
         UNCHANGED <<redemptions, rows, charges, payments>>
  PROVE  SerialOK'
<1>1. SUFFICES ASSUME ~overlap' PROVE SerialOK'
  BY DEF SerialOK, SerialInv, SerialDiscountOnce, SerialFirstOnlyIsFirst
<1>2. ~overlap /\ sessions' = {s}
  BY <1>1 DEF Open
<1>3. Fresh(s)'
  BY DEF Fresh, FirstPurchaseOnly, Booked
<1>4. SerialInv'
  BY <1>2, <1>3 DEF SerialOK, SerialInv, BookedAreUsed, Booked
<1>5. SerialDiscountOnce' /\ SerialFirstOnlyIsFirst'
  BY <1>2 DEF SerialOK, SerialDiscountOnce, SerialFirstOnlyIsFirst, Booked
<1>6. QED
  BY <1>4, <1>5 DEF SerialOK

LEMMA BeginBookingSerial ==
  ASSUME TablesOK, SerialOK, NEW h \in Handlers, NEW c \in Charges, BeginBooking(h, c)
  PROVE  SerialOK'
<1> DEFINE ses(i) == [kind |-> "book", handler |-> h, charge |-> c, row |-> i,
                      read |-> ReadOf(charges[c].user, charges[c].tariff, i)]
<1>1. charges[c].user \in Users /\ charges[c].tariff \in Tariffs /\ Accepted(charges[c])
  BY ChargeType DEF BeginBooking, TablesOK
<1>2. PICK i \in Extendable(charges[c].user) : Open(ses(i))
  BY DEF BeginBooking
<1>3. i # 0 => ReadOf(charges[c].user, charges[c].tariff, i) = rows[i]
  BY <1>1, ReadRow DEF TablesOK
<1>4. Fresh(ses(i))
  BY <1>1, <1>3 DEF Fresh, Accepted, Discounts
<1>5. QED
  BY <1>2, <1>4, OpenSerial DEF BeginBooking

LEMMA BeginGrantSerial ==
  ASSUME TablesOK, SerialOK, NEW h \in Handlers, NEW u \in Users, NEW p \in Promos,
         BeginGrant(h, u, p)
  PROVE  SerialOK'
<1> DEFINE ses(t, i) == [kind |-> "grant", handler |-> h, user |-> u, promo |-> p,
                         row |-> i, read |-> ReadOf(u, t, i)]
<1>1. PICK t \in Code[p].tariffs, i \in Extendable(u) : Open(ses(t, i))
  BY DEF BeginGrant
<1>2. t \in Tariffs
  BY CheckoutAssumption
<1>3. i # 0 => ReadOf(u, t, i) = rows[i]
  BY <1>2, ReadRow DEF TablesOK
<1>4. Fresh(ses(t, i))
  BY <1>3 DEF Fresh
<1>5. QED
  BY <1>1, <1>4, OpenSerial DEF BeginGrant

LEMMA BeginApplySerial ==
  ASSUME TablesOK, SerialOK, NEW h \in Handlers, NEW u \in Users, NEW p \in Promos,
         BeginApply(h, u, p)
  PROVE  SerialOK'
<1> DEFINE ses(keep) == [kind |-> "apply", handler |-> h, user |-> u, promo |-> p,
                         keep |-> keep, drops |-> Dropped(u, keep)]
<1>1. PICK keep \in RedemptionsOf(u, p) \cup {0} : Open(ses(keep))
  BY DEF BeginApply
<1>2. Fresh(ses(keep))
  BY DEF Fresh, Dropped, Pending
<1>3. QED
  BY <1>1, <1>2, OpenSerial DEF BeginApply

\* The only session ends.
LEMMA LastEnds ==
  ASSUME SerialInv, ~overlap, NEW s \in sessions, sessions' = sessions \ {s}
  PROVE  sessions' = {} /\ Fresh(s)
  BY DEF SerialInv

LEMMA CommitBookingSerial ==
  ASSUME TablesOK, SerialOK, NEW s \in sessions, CommitBooking(s)
  PROVE  SerialOK'
<1> DEFINE c == s.charge
           d == charges[c].redemption
<1>1. sessions' = sessions \ {s} /\ overlap' = overlap /\ s.kind = "book"
  BY DEF CommitBooking
<1>2. c \in Charges /\ charges[c] # NoCharge
  BY <1>1, Shapes DEF TablesOK, TypeOK, SessionsOK, SessionOK
<1>3. CASE UNCHANGED <<rows, payments, redemptions>> /\ (UNCHANGED charges \/ charges' = Refused(c))
  <2>1. \A e \in Charges : Keeps(e)
    BY <1>2, <1>3, RefusedKeeps DEF TablesOK, Keeps
  <2>2. QED
    BY <1>1, <1>3, <2>1, QuietSerial DEF EndsStay
<1>4. CASE /\ c \notin Booked
           /\ Activate(charges[c].user, charges[c].tariff, s.row, s.read)
           /\ payments' = Append(payments, c)
           /\ redemptions' = IF d = 0 THEN redemptions
                             ELSE [redemptions EXCEPT ![d].status = "consumed"]
           /\ UNCHANGED charges
  <2>1. SUFFICES ASSUME ~overlap PROVE SerialOK'
    BY <1>1 DEF SerialOK, SerialInv, SerialDiscountOnce, SerialFirstOnlyIsFirst
  <2>2. sessions' = {} /\ Fresh(s)
    BY <1>1, <2>1, LastEnds DEF SerialOK
  <2>3. /\ RedemptionsStay
        /\ DOMAIN redemptions' = DOMAIN redemptions
        /\ \A r \in DOMAIN redemptions :
             redemptions'[r].status = IF r = d THEN "consumed" ELSE redemptions[r].status
        /\ Booked' = Booked \cup {c}
    BY <1>4, CommitBookingWrites
  <2>4. \A e \in Booked : e \in Charges /\ charges[e] # NoCharge
    BY DEF TablesOK, TypeOK, BookedOK, Booked, ToSet
  <2>5. \A e \in Booked' : charges[e].redemption # 0 => charges[e].redemption \in DOMAIN redemptions
    BY <1>2, <2>3, <2>4 DEF TablesOK, ChargesOK
  <2>6. \A e \in Booked : charges[e].redemption # 0 => /\ charges[e].redemption # d
                                                       /\ redemptions[charges[e].redemption].status = "consumed"
    BY <1>1, <2>1, <2>2, <2>5 DEF SerialOK, SerialInv, BookedAreUsed, Fresh
  <2>7. BookedAreUsed'
    BY <1>4, <2>3, <2>5, <2>6 DEF BookedAreUsed
  <2>8. SerialInv'
    BY <2>2, <2>7 DEF SerialInv
  <2>9. SerialDiscountOnce'
    BY <1>4, <2>1, <2>3, <2>6 DEF SerialOK, SerialDiscountOnce
  <2>10. SerialFirstOnlyIsFirst'
    <3>1. /\ DOMAIN payments' = DOMAIN payments \cup {Len(payments) + 1}
          /\ \A i \in DOMAIN payments : payments'[i] = payments[i]
          /\ payments'[Len(payments) + 1] = c
          /\ DOMAIN payments = 1 .. Len(payments) /\ Len(payments) \in Nat
      BY <1>2, <1>4, Appended DEF TablesOK, TypeOK
    <3>2. \A i \in DOMAIN payments : payments[i] \in Booked
      BY DEF Booked, ToSet
    <3>3. SUFFICES ASSUME NEW n \in DOMAIN payments', charges[payments'[n]].redemption # 0,
                          Code[redemptions'[charges[payments'[n]].redemption].promo].firstOnly,
                          NEW m \in 1 .. n - 1
                   PROVE  charges[payments'[m]].user # charges[payments'[n]].user
      BY <1>4 DEF SerialFirstOnlyIsFirst
    <3>4. m \in DOMAIN payments /\ payments'[m] = payments[m] /\ payments[m] \in Booked
      BY <3>1, <3>2
    <3>5. payments'[n] \in Booked'
      BY <2>3, <3>1, <3>2
    <3>6. Code[redemptions[charges[payments'[n]].redemption].promo].firstOnly
      BY <2>3, <2>5, <3>3, <3>5 DEF RedemptionsStay
    <3>7. CASE n \in DOMAIN payments
      BY <2>1, <3>1, <3>3, <3>4, <3>6, <3>7 DEF SerialOK, SerialFirstOnlyIsFirst
    <3>8. CASE n = Len(payments) + 1
      BY <1>1, <2>2, <3>1, <3>3, <3>4, <3>6, <3>8 DEF Fresh, FirstPurchaseOnly
    <3>9. QED
      BY <3>1, <3>7, <3>8
  <2>11. QED
    BY <2>8, <2>9, <2>10 DEF SerialOK
<1>5. QED
  BY <1>3, <1>4 DEF CommitBooking

\* A commit of a promo code: no payment is made, and no used redemption is touched.
LEMMA CommitCodeSerial ==
  ASSUME TablesOK, SerialOK, NEW s \in sessions, sessions' = sessions \ {s},
         UNCHANGED <<charges, payments, overlap>>, RedemptionsStay,
         ~overlap => \A r \in DOMAIN redemptions :
           redemptions[r].status = "consumed" => redemptions'[r].status = "consumed"
  PROVE  SerialOK'
<1>1. SUFFICES ASSUME ~overlap PROVE SerialOK'
  BY DEF SerialOK, SerialInv, SerialDiscountOnce, SerialFirstOnlyIsFirst
<1>2. sessions' = {}
  BY <1>1, LastEnds DEF SerialOK
<1>3. \A c \in Booked : c \in Charges /\ charges[c] # NoCharge
  BY DEF TablesOK, TypeOK, BookedOK, Booked, ToSet
<1>4. \A c \in Booked : charges[c].redemption # 0 => charges[c].redemption \in DOMAIN redemptions
  BY <1>3 DEF TablesOK, ChargesOK
<1>5. SerialInv'
  BY <1>1, <1>2, <1>4 DEF SerialOK, SerialInv, BookedAreUsed, Booked
<1>6. SerialDiscountOnce'
  BY <1>1 DEF SerialOK, SerialDiscountOnce, Booked
<1>7. SerialFirstOnlyIsFirst'
  <2>1. \A n \in DOMAIN payments : payments[n] \in Booked
    BY DEF Booked, ToSet
  <2>2. QED
    BY <1>1, <1>4, <2>1 DEF SerialOK, SerialFirstOnlyIsFirst, RedemptionsStay
<1>8. QED
  BY <1>5, <1>6, <1>7 DEF SerialOK

LEMMA CommitGrantSerial ==
  ASSUME TablesOK, SerialOK, NEW s \in sessions, CommitGrant(s)
  PROVE  SerialOK'
<1> DEFINE new == [promo |-> s.promo, user |-> s.user, status |-> "consumed"]
<1>1. s.kind = "grant" /\ sessions' = sessions \ {s} /\ UNCHANGED <<charges, payments, overlap>>
  BY DEF CommitGrant
<1>2. CASE UNCHANGED redemptions
  BY <1>1, <1>2, CommitCodeSerial DEF RedemptionsStay
<1>3. CASE redemptions' = Append(redemptions, new)
  <2>1. new \in Redemption /\ redemptions \in Seq(Redemption)
    BY <1>1, Shapes DEF Redemption, TablesOK, TypeOK
  <2>2. /\ DOMAIN redemptions \subseteq DOMAIN redemptions'
        /\ \A r \in DOMAIN redemptions : redemptions'[r] = redemptions[r]
    BY <1>3, <2>1, Appended
  <2>3. QED
    BY <1>1, <2>2, CommitCodeSerial DEF RedemptionsStay
<1>4. QED
  BY <1>2, <1>3 DEF CommitGrant

LEMMA CommitApplySerial ==
  ASSUME TablesOK, SerialOK, NEW s \in sessions, CommitApply(s)
  PROVE  SerialOK'
<1>1. sessions' = sessions \ {s} /\ UNCHANGED <<charges, payments, overlap>>
  BY DEF CommitApply
<1>2. /\ RedemptionsStay /\ s.kind = "apply"
      /\ \A r \in DOMAIN redemptions :
           redemptions'[r].status = IF r \in s.drops THEN "cancelled" ELSE redemptions[r].status
  BY CommitApplyWrites
<1>3. ~overlap => \A r \in s.drops : redemptions[r].status = "pending"
  BY <1>1, <1>2, LastEnds DEF SerialOK, Fresh
<1>4. QED
  BY <1>1, <1>2, <1>3, CommitCodeSerial

-----------------------------------------------------------------------------
(* The theorems *)

LEMMA InitInv ==
  ASSUME Init
  PROVE  IInv
<1>1. TypeOK
  <2>1. /\ redemptions \in Seq(Redemption) /\ rows \in Seq(Row) /\ payments \in Seq(Charges)
        /\ charges \in [Charges -> Charge \cup {NoCharge}]
    BY DEF Init
  <2>2. IsInjective(payments)
    BY DEF Init, IsInjective
  <2>3. price \in [Tariffs -> Nat]
    BY DEF Init
  <2>4. QED
    BY <2>1, <2>2, <2>3 DEF Init, TypeOK
<1>2. Booked = {} /\ sessions = {} /\ DOMAIN redemptions = {} /\ DOMAIN payments = {}
  BY DEF Init, Booked, ToSet
<1>3. TablesOK
  <2>1. \A c \in Charges : charges[c] = NoCharge
    BY DEF Init
  <2>2. QED
    BY <1>1, <1>2, <2>1 DEF TablesOK, ChargesOK, BookedOK, SessionsOK, UsedIsPaid
<1>4. LimitsOK
  <2>1. \A p \in Promos, V \in SUBSET Users : Held(p, V) = {} /\ Adding(p, V) = {}
    BY <1>2 DEF Held, Adding
  <2>2. Cardinality({}) = 0 /\ Cardinality(Handlers) \in Nat
    BY <1>1, FS_EmptySet, HeldFinite
  <2>3. ASSUME NEW p \in Promos, NEW V \in SUBSET Users, NEW n \in Nat, n > 0
        PROVE  Within(p, V, n)
    <3>1. Cardinality(Held(p, V)) = 0 /\ Cardinality(Adding(p, V)) = 0
      BY <2>1, <2>2
    <3>2. QED
      BY <2>2, <2>3, <3>1 DEF Within
  <2>4. QED
    BY <2>3, LimitTypes DEF LimitsOK
<1>5. SerialInv
  BY <1>2 DEF SerialInv, BookedAreUsed
<1>6. SerialDiscountOnce /\ SerialFirstOnlyIsFirst
  BY <1>2 DEF SerialDiscountOnce, SerialFirstOnlyIsFirst
<1>7. QED
  BY <1>3, <1>4, <1>5, <1>6 DEF IInv

\* Steps that end sessions, or none, and write nothing that a session has read.
LEMMA QuietInv ==
  ASSUME IInv, TablesOK', UNCHANGED <<redemptions, payments, overlap>>,
         sessions' \subseteq sessions, \A c \in Charges : Keeps(c), EndsStay
  PROVE  IInv'
<1>1. LimitsOK'
  BY FewerSessionsTighten, TightensKeeps DEF IInv
<1>2. SerialOK'
  BY QuietSerial DEF IInv, SerialOK
<1>3. QED
  BY <1>1, <1>2 DEF IInv, SerialOK

LEMMA AllKeep ==
  ASSUME UNCHANGED charges
  PROVE  \A c \in Charges : Keeps(c)
  BY DEF Keeps

LEMMA NextInv ==
  ASSUME IInv, Next
  PROVE  IInv'
<1>0. TablesOK /\ LimitsOK /\ SerialOK
  BY DEF IInv, SerialOK
<1>1. ASSUME NEW t \in Tariffs, Reprice(t) PROVE IInv'
  BY <1>0, <1>1, RepriceTables, QuietInv, AllKeep DEF Reprice, EndsStay
<1>2. ASSUME NEW t \in Tariffs, ToggleTariff(t) PROVE IInv'
  BY <1>0, <1>2, ToggleTables, QuietInv, AllKeep DEF ToggleTariff, EndsStay
<1>3. ASSUME NEW p \in Promos, EndPromo(p) PROVE IInv'
  BY <1>0, <1>3, EndPromoTables, QuietInv, AllKeep DEF EndPromo, EndsStay
<1>4. ASSUME NEW i \in DOMAIN rows, Lapse(i) PROVE IInv'
  <2>1. EndsStay
    BY <1>0, <1>4 DEF Lapse, EndsStay, TablesOK, TypeOK, Row
  <2>2. QED
    BY <1>0, <1>4, <2>1, LapseTables, QuietInv, AllKeep DEF Lapse
<1>5. ASSUME NEW c \in Charges, NEW u \in Users, NEW t \in Tariffs,
             NEW r \in {0} \cup DOMAIN redemptions, PreCheckout(c, u, t, r)
      PROVE  IInv'
  <2>1. \A e \in Charges : Keeps(e)
    BY <1>0, <1>5 DEF PreCheckout, Keeps, TablesOK, TypeOK
  <2>2. QED
    BY <1>0, <1>5, <2>1, PreCheckoutTables, QuietInv DEF PreCheckout, EndsStay
<1>6. ASSUME NEW h \in Handlers, NEW c \in Charges, BeginBooking(h, c) PROVE IInv'
  BY <1>0, <1>6, BeginBookingTables, BeginBookingTightens, TightensKeeps, BeginBookingSerial
     DEF IInv, SerialOK
<1>7. ASSUME NEW c \in Charges, RefuseBooking(c) PROVE IInv'
  <2>1. \A e \in Charges : Keeps(e)
    BY <1>0, <1>7, RefusedKeeps DEF RefuseBooking, TablesOK
  <2>2. QED
    BY <1>0, <1>7, <2>1, RefuseTables, QuietInv DEF RefuseBooking, EndsStay
<1>8. ASSUME NEW h \in Handlers, NEW u \in Users, NEW p \in Promos, BeginGrant(h, u, p)
      PROVE  IInv'
  BY <1>0, <1>8, BeginGrantTables, BeginGrantLimits, BeginGrantSerial DEF IInv, SerialOK
<1>9. ASSUME NEW h \in Handlers, NEW u \in Users, NEW p \in Promos, BeginApply(h, u, p)
      PROVE  IInv'
  BY <1>0, <1>9, BeginApplyTables, BeginApplyLimits, BeginApplySerial DEF IInv, SerialOK
<1>10. ASSUME NEW s \in sessions, CommitBooking(s) PROVE IInv'
  BY <1>0, <1>10, CommitBookingTables, CommitBookingTightens, TightensKeeps, CommitBookingSerial
     DEF IInv, SerialOK
<1>11. ASSUME NEW s \in sessions, CommitGrant(s) PROVE IInv'
  BY <1>0, <1>11, CommitGrantTables, CommitGrantTightens, TightensKeeps, CommitGrantSerial
     DEF IInv, SerialOK
<1>12. ASSUME NEW s \in sessions, CommitApply(s) PROVE IInv'
  BY <1>0, <1>12, CommitApplyTables, CommitApplyTightens, TightensKeeps, CommitApplySerial
     DEF IInv, SerialOK
<1>13. ASSUME NEW s \in sessions, FailSession(s) PROVE IInv'
  <2>1. s.kind = "book" => s.charge \in Charges /\ charges[s.charge] # NoCharge
    BY <1>0, Shapes DEF TablesOK, TypeOK, SessionsOK, SessionOK
  <2>2. \A c \in Charges : Keeps(c)
    BY <1>0, <1>13, <2>1, RefusedKeeps, AllKeep DEF FailSession, TablesOK
  <2>3. QED
    BY <1>0, <1>13, <2>2, FailSessionTables, QuietInv DEF FailSession, EndsStay
<1>14. CASE Crash
  BY <1>0, <1>14, CrashTables, QuietInv, AllKeep DEF Crash, EndsStay
<1>15. QED
  BY <1>1, <1>2, <1>3, <1>4, <1>5, <1>6, <1>7, <1>8, <1>9, <1>10, <1>11, <1>12, <1>13, <1>14
     DEF Next

LEMMA StutterInv ==
  ASSUME IInv, UNCHANGED vars
  PROVE  IInv'
<1>1. TypeOK'
  BY DEF IInv, TablesOK, TypeOK, vars
<1>2. TablesOK'
  BY <1>1, SessionsStep DEF IInv, vars
<1>3. QED
  BY <1>2, QuietInv, AllKeep DEF vars, EndsStay

\* The inductive invariant holds in every history.
THEOREM CheckoutInvariant == Spec => []IInv
<1>1. IInv /\ [Next]_vars => IInv'
  BY NextInv, StutterInv
<1>2. QED
  BY <1>1, InitInv, PTL DEF Spec

\* Every variable has its type, whoever sells, pays, applies codes or fails.
THEOREM CheckoutTypeOK == Spec => []TypeOK
<1>1. IInv => TypeOK
  BY DEF IInv, TablesOK
<1>2. QED
  BY <1>1, CheckoutInvariant, PTL

\* A discount is only used up by a payment that was booked with it.
THEOREM DiscountsArePaid == Spec => []UsedIsPaid
<1>1. IInv => UsedIsPaid
  BY DEF IInv, TablesOK
<1>2. QED
  BY <1>1, CheckoutInvariant, PTL

\* However many sessions interleave, max_uses and per_user_limit are exceeded by
\* fewer redemptions than there are handlers: with one handler they are exact.
THEOREM LimitsHold == Spec => []LimitsExceededBySessionsOnly
<1>1. ASSUME IInv PROVE LimitsExceededBySessionsOnly
  <2>1. TypeOK /\ LimitsOK
    BY <1>1 DEF IInv, TablesOK
  <2>2. ASSUME NEW p \in Promos, NEW V \in SUBSET Users, NEW n \in Nat, Within(p, V, n),
               NEW U \in SUBSET Held(p, V)
        PROVE  Cardinality(U) < n + Cardinality(Handlers)
    <3>1. /\ Cardinality(U) \in Nat /\ Cardinality(U) <= Cardinality(Held(p, V))
          /\ Cardinality(Held(p, V)) \in Nat /\ Cardinality(Adding(p, V)) \in Nat
          /\ Cardinality(Handlers) \in Nat
      BY <2>1, HeldFinite, FS_Subset, FS_CardinalityType
    <3>2. QED
      BY <2>2, <3>1 DEF Within
  <2>3. ASSUME NEW p \in Promos PROVE Uses(p) \subseteq Held(p, Users)
    <3>1. \A r \in DOMAIN redemptions : redemptions[r].user \in Users
      <4>1. redemptions \in Seq(Redemption)
        BY <2>1 DEF TypeOK
      <4>2. \A x \in Redemption : x.user \in Users
        BY DEF Redemption
      <4>3. QED
        BY <4>1, <4>2
    <3>2. QED
      BY <3>1 DEF Uses, Held
  <2>4. ASSUME NEW p \in Promos, NEW u \in Users PROVE UsesOf(u, p) \subseteq Held(p, {u})
    BY DEF UsesOf, Uses, Held
  <2>5. QED
    BY <2>1, <2>2, <2>3, <2>4, LimitTypes DEF LimitsOK, LimitsExceededBySessionsOnly
<1>2. QED
  BY <1>1, CheckoutInvariant, PTL

\* While sessions do not overlap, a redemption pays into one payment at most.
THEOREM DiscountsOnce == Spec => []SerialDiscountOnce
<1>1. IInv => SerialDiscountOnce
  BY DEF IInv
<1>2. QED
  BY <1>1, CheckoutInvariant, PTL

\* While sessions do not overlap, a first-purchase code is for the first payment.
THEOREM FirstOnlyIsFirst == Spec => []SerialFirstOnlyIsFirst
<1>1. IInv => SerialFirstOnlyIsFirst
  BY DEF IInv
<1>2. QED
  BY <1>1, CheckoutInvariant, PTL

\* While sessions do not overlap, no step takes a used redemption back.
THEOREM UsedStaysUsed == Spec => SerialUsedStaysUsed
<1> DEFINE A == ~overlap => \A r \in DOMAIN redemptions :
                  redemptions[r].status = "consumed" => redemptions'[r].status = "consumed"
<1>1. ASSUME IInv, Next PROVE A
  <2>1. SUFFICES ASSUME ~overlap PROVE A
    OBVIOUS
  <2>2. TablesOK /\ SerialInv
    BY <1>1 DEF IInv
  <2>3. ASSUME NEW s \in sessions, CommitBooking(s) PROVE A
    <3>1. CASE UNCHANGED redemptions
      BY <3>1
    <3>2. CASE /\ s.charge \notin Booked
               /\ Activate(charges[s.charge].user, charges[s.charge].tariff, s.row, s.read)
               /\ payments' = Append(payments, s.charge)
               /\ redemptions' = IF charges[s.charge].redemption = 0 THEN redemptions
                    ELSE [redemptions EXCEPT ![charges[s.charge].redemption].status = "consumed"]
               /\ UNCHANGED charges
      BY <2>2, <2>3, <3>2, CommitBookingWrites
    <3>3. QED
      BY <2>3, <3>1, <3>2 DEF CommitBooking
  <2>4. ASSUME NEW s \in sessions, CommitGrant(s) PROVE A
    <3>1. CASE UNCHANGED redemptions
      BY <3>1
    <3>2. CASE redemptions' = Append(redemptions, [promo |-> s.promo, user |-> s.user,
                                                   status |-> "consumed"])
      <4>1. [promo |-> s.promo, user |-> s.user, status |-> "consumed"] \in Redemption
        BY <2>2, <2>4, Shapes DEF CommitGrant, Redemption, TablesOK, TypeOK
      <4>2. \A r \in DOMAIN redemptions : redemptions'[r] = redemptions[r]
        BY <2>2, <3>2, <4>1, Appended DEF TablesOK, TypeOK
      <4>3. QED
        BY <4>2
    <3>3. QED
      BY <2>4, <3>1, <3>2 DEF CommitGrant
  <2>5. ASSUME NEW s \in sessions, CommitApply(s) PROVE A
    <3>1. \A r \in DOMAIN redemptions :
            redemptions'[r].status = IF r \in s.drops THEN "cancelled" ELSE redemptions[r].status
      BY <2>2, <2>5, CommitApplyWrites
    <3>2. \A r \in s.drops : redemptions[r].status = "pending"
      BY <2>1, <2>2, <2>5 DEF SerialInv, Fresh, CommitApply
    <3>3. QED
      BY <3>1, <3>2
  <2>6. CASE UNCHANGED redemptions
    BY <2>6
  <2>7. QED
    BY <1>1, <2>3, <2>4, <2>5, <2>6
       DEF Next, Reprice, ToggleTariff, EndPromo, Lapse, PreCheckout, BeginBooking, RefuseBooking,
           BeginGrant, BeginApply, FailSession, Crash
<1>2. IInv /\ [Next]_vars => [A]_vars
  BY <1>1
<1>3. QED
  BY <1>2, CheckoutInvariant, PTL DEF Spec, SerialUsedStaysUsed

\* A step that extends what it has just read leaves access for life as it is.
LEMMA ActivateKeepsLife ==
  ASSUME TypeOK, NEW u \in Users, NEW t \in Tariffs, NEW i \in {0} \cup DOMAIN rows,
         NEW read \in Row, Activate(u, t, i, read), i # 0 => rows[i].endless = read.endless
  PROVE  \A j \in DOMAIN rows : rows[j].endless => rows'[j].endless
<1>1. CASE i = 0
  BY <1>1, ActivateType
<1>2. CASE i # 0
  <2>1. rows[i] \in Row /\ rows'[i] = Extended(rows[i], t, read)
    BY <1>2, ActivateType DEF TypeOK
  <2>2. rows[i].endless => StaysEndless(t, read)
    BY <1>2 DEF Activate, Overflows
  <2>3. rows[i].endless => rows'[i].endless
    BY <2>1, <2>2 DEF Extended, Row
  <2>4. QED
    BY <2>3, ActivateType
<1>3. QED
  BY <1>1, <1>2

\* While sessions do not overlap, no purchase, code or lapse ends access for life.
THEOREM LifetimeStays == Spec => SerialLifetimeStays
<1> DEFINE A == ~overlap => \A i \in DOMAIN rows : rows[i].endless => rows'[i].endless
<1>1. ASSUME IInv, Next PROVE A
  <2>1. SUFFICES ASSUME ~overlap PROVE A
    OBVIOUS
  <2>2. TypeOK /\ SerialInv /\ TablesOK
    BY <1>1 DEF IInv, TablesOK
  <2>3. ASSUME NEW s \in sessions, s.kind \in {"book", "grant"}
        PROVE  /\ s.row \in {0} \cup DOMAIN rows /\ s.read \in Row
               /\ s.row # 0 => rows[s.row].endless = s.read.endless
    BY <2>1, <2>2, <2>3, Shapes DEF SerialInv, Fresh, TypeOK
  <2>4. ASSUME NEW s \in sessions, CommitBooking(s) PROVE A
    <3>1. CASE UNCHANGED rows
      BY <3>1
    <3>2. CASE Activate(charges[s.charge].user, charges[s.charge].tariff, s.row, s.read)
      <4>1. s.kind = "book" /\ s.charge \in Charges /\ charges[s.charge] # NoCharge
        BY <2>2, <2>4, Shapes DEF CommitBooking, TypeOK, TablesOK, SessionsOK, SessionOK
      <4>2. charges[s.charge].user \in Users /\ charges[s.charge].tariff \in Tariffs
        BY <2>2, <4>1, ChargeType
      <4>3. QED
        BY <2>2, <2>3, <3>2, <4>1, <4>2, ActivateKeepsLife
    <3>3. QED
      BY <2>4, <3>1, <3>2 DEF CommitBooking
  <2>5. ASSUME NEW s \in sessions, CommitGrant(s) PROVE A
    <3>1. s.kind = "grant" /\ s.user \in Users /\ s.promo \in Promos
      BY <2>2, <2>5, Shapes DEF CommitGrant, TypeOK
    <3>2. Code[s.promo].tariffs \subseteq Tariffs
      BY <3>1, CheckoutAssumption
    <3>3. CASE UNCHANGED rows
      BY <3>3
    <3>4. CASE \E t \in Code[s.promo].tariffs : Activate(s.user, t, s.row, s.read)
      BY <2>2, <2>3, <3>1, <3>2, <3>4, ActivateKeepsLife
    <3>5. QED
      BY <2>5, <3>3, <3>4 DEF CommitGrant
  <2>6. ASSUME NEW i \in DOMAIN rows, Lapse(i) PROVE A
    BY <2>2, <2>6 DEF Lapse, TypeOK, Row
  <2>7. CASE UNCHANGED rows
    BY <2>7
  <2>8. QED
    BY <1>1, <2>4, <2>5, <2>6, <2>7
       DEF Next, Reprice, ToggleTariff, EndPromo, PreCheckout, BeginBooking, RefuseBooking,
           BeginGrant, BeginApply, CommitApply, FailSession, Crash
<1>2. IInv /\ [Next]_vars => [A]_vars
  BY <1>1
<1>3. QED
  BY <1>2, CheckoutInvariant, PTL DEF Spec, SerialLifetimeStays

=============================================================================
