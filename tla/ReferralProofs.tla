--------------------------- MODULE ReferralProofs ---------------------------
(***************************************************************************)
(* Theorems about Referral for every set of users and charges, every size  *)
(* of the reward and any number of sessions at once.                       *)
(*                                                                         *)
(* The argument.  A session writes into the store of reward days a value   *)
(* it computed from an old copy of the row, so the store alone has no      *)
(* inductive bound.  But days granted never decrease: whatever value of    *)
(* the store a session has read is covered by the days granted to that     *)
(* user by then, and so is what the session writes later.  A payment       *)
(* counts as rewarded only in the step that books it, which the UNIQUE     *)
(* column lets happen once.                                                *)
(*                                                                         *)
(* While sessions do not overlap, a payment session is alone from its      *)
(* first read to its commit (only rows of new users are inserted           *)
(* meanwhile), so it writes values computed from what is stored, and SInv  *)
(* balances the days exactly.                                              *)
(***************************************************************************)
EXTENDS Referral, FiniteSetTheorems, TLAPS

Rewarding(u) == {c \in Charges : rewards[c] = u}

\* The store of a user is covered, and nobody is his own referrer.
RowsOK == \A u \in Users : users[u].pending <= granted[u] /\ users[u].referrer # u

\* What an open payment session has read, and what it will write, is covered.
Covered(s) ==
  /\ s.op \in {"pay", "booked"} =>
       /\ s.own.pending <= granted[Owner[s.charge]]
       /\ s.own.referrer # Owner[s.charge]
  /\ s.op = "booked" =>
       /\ s.left <= granted[Owner[s.charge]]
       /\ Grants(s.own) => s.ref <= granted[s.own.referrer]
SessionsOK == \A s \in sessions : Covered(s)

\* Days are granted by booked payments of others, as many as the reward for each.
RewardsOK ==
  /\ \A c \in Charges : rewards[c] # Nobody => c \in paid /\ rewards[c] # Owner[c]
  /\ \A u \in Users : /\ IsFiniteSet(Rewarding(u))
                      /\ granted[u] = RewardDays * Cardinality(Rewarding(u))

IInv == TypeOK /\ RowsOK /\ SessionsOK /\ RewardsOK

-----------------------------------------------------------------------------
(* Rows and sessions *)

\* A session is of one of its three shapes.
LEMMA Shapes ==
  ASSUME NEW s \in Session
  PROVE  /\ s.op \in {"bind", "pay", "booked"}
         /\ s.op = "bind" => s.user \in Users /\ s.to \in Users
         /\ s.op \in {"pay", "booked"} =>
              s.charge \in Charges /\ s.bonus \in Nat /\ s.own \in Row
         /\ s.op = "booked" => s.left \in Nat /\ s.ref \in Nat
  BY DEF Session

\* Using days leaves no more than there were.
LEMMA ConsumedIsLess ==
  ASSUME NEW own \in Row, NEW bonus \in Nat
  PROVE  Consumed(own, bonus) \in Nat /\ Consumed(own, bonus) <= own.pending
  BY DEF Row, Consumed, Lower

\* A step that opens or closes sessions and writes no table.
LEMMA SessionsOnly ==
  ASSUME IInv, UNCHANGED <<users, paid, endless, history>>,
         NEW T, sessions' = T, T \subseteq Session,
         \A s \in T : s.op = "bind" => s.to # s.user,
         \A s \in T : Covered(s)
  PROVE  IInv'
<1> USE DEF history
<1>1. TypeOK'
  BY DEF IInv, TypeOK
<1>2. RowsOK'
  BY DEF IInv, RowsOK
<1>3. SessionsOK'
  BY DEF SessionsOK, Covered, Grants
<1>4. RewardsOK'
  BY DEF IInv, RewardsOK, Rewarding
<1>5. QED
  BY <1>1, <1>2, <1>3, <1>4 DEF IInv

\* A session that ends leaves the others as they are.
LEMMA EndKeeps ==
  ASSUME IInv, NEW s \in sessions, Ends(s), UNCHANGED <<users, paid, endless, history>>
  PROVE  IInv'
<1>1. sessions \ {s} \subseteq Session
  BY DEF IInv, TypeOK
<1>2. \A r \in sessions \ {s} : (r.op = "bind" => r.to # r.user) /\ Covered(r)
  BY DEF IInv, TypeOK, SessionsOK
<1>3. QED
  BY <1>1, <1>2, SessionsOnly DEF Ends

\* A session that begins covered.
LEMMA BeginKeeps ==
  ASSUME IInv, NEW s \in Session, s.op = "bind" => s.to # s.user, Covered(s),
         Begins(s), UNCHANGED <<users, paid, endless, history>>
  PROVE  IInv'
<1>1. sessions \cup {s} \subseteq Session
  BY DEF IInv, TypeOK
<1>2. \A r \in sessions \cup {s} : (r.op = "bind" => r.to # r.user) /\ Covered(r)
  BY DEF IInv, TypeOK, SessionsOK
<1>3. QED
  BY <1>1, <1>2, SessionsOnly DEF Begins

-----------------------------------------------------------------------------
(* The steps *)

LEMMA InitOK == Init => IInv
<1> SUFFICES ASSUME Init PROVE IInv
  OBVIOUS
<1>1. TypeOK
  BY ReferralAssumption DEF Init, TypeOK, Row
<1>2. RowsOK
  BY <1>1, ReferralAssumption DEF Init, RowsOK
<1>3. SessionsOK
  BY DEF Init, SessionsOK
<1>4. RewardsOK
  <2>1. ASSUME NEW u \in Users PROVE Rewarding(u) = {}
    BY ReferralAssumption DEF Init, Rewarding
  <2>2. RewardDays * 0 = 0
    BY ReferralAssumption
  <2>3. QED
    BY <2>1, <2>2, FS_EmptySet DEF Init, RewardsOK
<1>5. QED
  BY <1>1, <1>2, <1>3, <1>4 DEF IInv

LEMMA StartKeeps ==
  ASSUME IInv, NEW u \in Users, Start(u)
  PROVE  IInv'
<1> USE DEF history
<1>1. TypeOK'
  BY DEF IInv, TypeOK, Start, Row
<1>2. RowsOK'
  BY DEF IInv, TypeOK, RowsOK, Start, Row
<1>3. SessionsOK'
  BY DEF IInv, SessionsOK, Covered, Grants, Start
<1>4. RewardsOK'
  BY DEF IInv, RewardsOK, Rewarding, Start
<1>5. QED
  BY <1>1, <1>2, <1>3, <1>4 DEF IInv

LEMMA BeginBindKeeps ==
  ASSUME IInv, NEW u \in Users, NEW r \in Users, BeginBind(u, r)
  PROVE  IInv'
<1> DEFINE s == [op |-> "bind", user |-> u, to |-> r]
<1>1. s \in Session /\ s.to # s.user /\ Covered(s)
  BY DEF BeginBind, Session, Covered
<1>2. QED
  BY <1>1, BeginKeeps DEF BeginBind

LEMMA CommitBindKeeps ==
  ASSUME IInv, NEW s \in sessions, CommitBind(s)
  PROVE  IInv'
<1> USE DEF history
<1>1. s.user \in Users /\ s.to \in Users /\ s.to # s.user
  BY Shapes DEF IInv, TypeOK, CommitBind
<1>2. TypeOK'
  BY <1>1 DEF IInv, TypeOK, CommitBind, Ends, Row
<1>3. RowsOK'
  BY <1>1 DEF IInv, TypeOK, RowsOK, CommitBind, Row
<1>4. SessionsOK'
  BY DEF IInv, SessionsOK, Covered, Grants, CommitBind, Ends
<1>5. RewardsOK'
  BY DEF IInv, RewardsOK, Rewarding, CommitBind
<1>6. QED
  BY <1>2, <1>3, <1>4, <1>5 DEF IInv

LEMMA BeginPayKeeps ==
  ASSUME IInv, NEW c \in Charges, BeginPay(c)
  PROVE  IInv'
<1> DEFINE u == Owner[c]
           s == [op |-> "pay", charge |-> c, bonus |-> users[u].pending, own |-> users[u]]
<1>1. u \in Users
  BY ReferralAssumption
<1>2. s \in Session
  BY <1>1 DEF IInv, TypeOK, Session, Row
<1>3. Covered(s)
  BY <1>1 DEF IInv, RowsOK, Covered
<1>4. QED
  BY <1>2, <1>3, BeginKeeps DEF BeginPay

LEMMA BookKeeps ==
  ASSUME IInv, NEW s \in sessions, Book(s)
  PROVE  IInv'
<1> DEFINE u == Owner[s.charge]
           own == OwnRow(s)
           ref == IF Grants(own) THEN users[own.referrer].pending ELSE 0
           b == [op |-> "booked", charge |-> s.charge, bonus |-> s.bonus, own |-> own,
                 left |-> Consumed(own, s.bonus), ref |-> ref]
<1>1. s.op = "pay" /\ s.charge \in Charges /\ s.bonus \in Nat /\ s.own \in Row
  BY Shapes DEF IInv, TypeOK, Book
<1>2. u \in Users
  BY <1>1, ReferralAssumption
<1>3. own \in Row /\ own.pending <= granted[u] /\ own.referrer # u
  BY <1>1, <1>2 DEF IInv, TypeOK, RowsOK, SessionsOK, Covered, OwnRow
<1>4. /\ Consumed(own, s.bonus) \in Nat
      /\ Consumed(own, s.bonus) <= granted[u]
  <2>1. own.pending \in Nat /\ granted[u] \in Nat
    BY <1>2, <1>3 DEF IInv, TypeOK, Row
  <2>2. QED
    BY <1>1, <1>3, <2>1, ConsumedIsLess
<1>5. ref \in Nat /\ (Grants(own) => ref <= granted[own.referrer])
  <2>1. Grants(own) => own.referrer \in Users
    BY <1>3 DEF Grants, Row
  <2>2. QED
    BY <2>1 DEF IInv, TypeOK, RowsOK, Row
<1>6. b \in Session /\ Covered(b)
  BY <1>1, <1>3, <1>4, <1>5 DEF Session, Covered
<1>7. sessions' = (sessions \ {s}) \cup {b}
  BY DEF Book
<1>8. (sessions \ {s}) \cup {b} \subseteq Session
  BY <1>6 DEF IInv, TypeOK
<1>9. \A r \in (sessions \ {s}) \cup {b} : (r.op = "bind" => r.to # r.user) /\ Covered(r)
  BY <1>6 DEF IInv, TypeOK, SessionsOK
<1>10. UNCHANGED <<users, paid, endless, history>>
  BY DEF Book
<1>11. QED
  BY <1>7, <1>8, <1>9, <1>10, SessionsOnly

\* Days granted grow with the payment that brings them.
LEMMA CommitPayGrants ==
  ASSUME IInv, NEW s \in sessions, CommitPay(s)
  PROVE  /\ s.charge \in Charges /\ s.charge \notin paid /\ Owner[s.charge] \in Users
         /\ s.own \in Row /\ s.left \in Nat /\ s.ref \in Nat /\ s.bonus \in Nat
         /\ s.left <= granted[Owner[s.charge]]
         /\ Grants(s.own) => /\ s.own.referrer \in Users
                             /\ s.ref <= granted[s.own.referrer]
                             /\ s.own.referrer # Owner[s.charge]
                             /\ granted'[s.own.referrer] = granted[s.own.referrer] + RewardDays
         /\ granted' \in [Users -> Nat]
         /\ \A v \in Users : granted'[v] >= granted[v]
         /\ \A v \in Users : ~(Grants(s.own) /\ v = s.own.referrer) => granted'[v] = granted[v]
<1>1. s.op = "booked" /\ s \in Session /\ Covered(s)
  BY DEF IInv, TypeOK, SessionsOK, CommitPay
<1>2. /\ s.charge \in Charges /\ s.own \in Row /\ s.left \in Nat /\ s.ref \in Nat
      /\ s.bonus \in Nat
  BY <1>1, Shapes
<1>3. Owner[s.charge] \in Users /\ s.charge \notin paid
  BY <1>2, ReferralAssumption DEF CommitPay, Unique
<1>4. /\ s.left <= granted[Owner[s.charge]]
      /\ Grants(s.own) => /\ s.own.referrer \in Users
                          /\ s.own.referrer # Owner[s.charge]
                          /\ s.ref <= granted[s.own.referrer]
  BY <1>1, <1>2 DEF Grants, Row, Covered
<1>5. granted \in [Users -> Nat] /\ RewardDays \in Nat
  BY ReferralAssumption DEF IInv, TypeOK
<1>6. granted' = IF Grants(s.own) THEN [granted EXCEPT ![s.own.referrer] = @ + RewardDays]
                 ELSE granted
  BY DEF CommitPay
<1>7. QED
  BY <1>1, <1>2, <1>3, <1>4, <1>5, <1>6

\* What the commit writes is a table of rows whose stores are covered.
LEMMA CommitPayRows ==
  ASSUME IInv, NEW s \in sessions, CommitPay(s), NEW v \in Users
  PROVE  /\ users'[v] \in Row
         /\ users'[v].pending <= granted'[v]
         /\ users'[v].referrer # v
<1> DEFINE u == Owner[s.charge]
           r == s.own.referrer
           p == IF s.bonus > 0 /\ s.left # s.own.pending THEN s.left ELSE users[u].pending
<1>1. /\ users[v] \in Row /\ users[v].referrer # v /\ users[v].pending <= granted[v]
      /\ granted[v] \in Nat /\ granted'[v] \in Nat /\ granted'[v] >= granted[v]
  BY CommitPayGrants DEF IInv, TypeOK, RowsOK
<1>2. CASE v = u
  <2>1. users'[v] = OwnBooked(s)
    BY <1>2, CommitPayGrants DEF CommitPay, Booked
  <2>2. p \in Nat /\ p <= granted[u]
    BY <1>1, <1>2, CommitPayGrants DEF Row
  <2>3. (users[u].rewarded \/ Grants(s.own)) \in BOOLEAN
    BY <1>1, <1>2 DEF Row
  <2>4. ASSUME NEW b \in BOOLEAN
        PROVE  LET row == [users[u] EXCEPT !.pending = p, !.rewarded = b]
               IN row \in Row /\ row.pending = p /\ row.referrer = users[u].referrer
    <3> HIDE DEF p
    <3>1. QED
      BY <1>1, <1>2, <2>2 DEF Row
  <2>5. OwnBooked(s) = [users[u] EXCEPT !.pending = p, !.rewarded = users[u].rewarded \/ Grants(s.own)]
    BY Zenon DEF OwnBooked
  <2>6. /\ OwnBooked(s) \in Row
        /\ OwnBooked(s).pending = p
        /\ OwnBooked(s).referrer = users[u].referrer
    <3> HIDE DEF p
    <3>1. QED
      BY <2>3, <2>4, <2>5
  <2>7. QED
    BY <1>1, <1>2, <2>1, <2>2, <2>6
<1>3. CASE v # u /\ v = r /\ Grants(s.own)
  <2>1. users'[v] = [users[v] EXCEPT !.pending = s.ref + RewardDays]
    BY <1>3 DEF CommitPay, Booked
  <2>2. s.ref + RewardDays \in Nat /\ s.ref + RewardDays <= granted'[v]
    <3>1. RewardDays \in Nat /\ granted[v] \in Nat /\ s.ref \in Nat
      BY <1>1, CommitPayGrants, ReferralAssumption
    <3>2. s.ref <= granted[v] /\ granted'[v] = granted[v] + RewardDays
      BY <1>3, CommitPayGrants
    <3>3. QED
      BY <3>1, <3>2
  <2>3. QED
    BY <1>1, <2>1, <2>2 DEF Row
<1>4. CASE v # u /\ ~(v = r /\ Grants(s.own))
  <2>1. users'[v] = users[v]
    BY <1>4 DEF CommitPay, Booked
  <2>2. QED
    BY <1>1, <2>1 DEF Row
<1>5. QED
  BY <1>2, <1>3, <1>4

\* The payment rewards the referrer of its buyer, or nobody.
LEMMA CommitPayRewards ==
  ASSUME IInv, NEW s \in sessions, CommitPay(s)
  PROVE  RewardsOK'
<1> DEFINE c == s.charge
           r == s.own.referrer
<1>1. c \in Charges /\ c \notin paid /\ rewards \in [Charges -> Users \cup {Nobody}]
  BY CommitPayGrants DEF IInv, TypeOK
<1>2. rewards[c] = Nobody /\ Nobody \notin Users
  BY <1>1, ReferralAssumption DEF IInv, RewardsOK
<1>3. rewards' = [rewards EXCEPT ![c] = IF Grants(s.own) THEN r ELSE @] /\ paid' = paid \cup {c}
  BY DEF CommitPay
<1>4. ASSUME NEW d \in Charges, rewards'[d] # Nobody
      PROVE  d \in paid' /\ rewards'[d] # Owner[d]
  <2>1. CASE d = c
    BY <1>1, <1>2, <1>3, <1>4, <2>1, CommitPayGrants
  <2>2. CASE d # c
    BY <1>1, <1>3, <1>4, <2>2 DEF IInv, RewardsOK
  <2>3. QED
    BY <2>1, <2>2
<1>5. ASSUME NEW v \in Users
      PROVE  /\ IsFiniteSet(Rewarding(v)')
             /\ granted'[v] = RewardDays * Cardinality(Rewarding(v)')
  <2>1. /\ IsFiniteSet(Rewarding(v)) /\ granted[v] = RewardDays * Cardinality(Rewarding(v))
        /\ Cardinality(Rewarding(v)) \in Nat
    BY FS_CardinalityType DEF IInv, RewardsOK
  <2>2. CASE Grants(s.own) /\ v = r
    <3>1. Rewarding(v)' = Rewarding(v) \cup {c} /\ c \notin Rewarding(v)
      BY <1>1, <1>2, <1>3, <2>2 DEF Rewarding
    <3>2. /\ IsFiniteSet(Rewarding(v)')
          /\ Cardinality(Rewarding(v)') = Cardinality(Rewarding(v)) + 1
      BY <2>1, <3>1, FS_AddElement
    <3>3. granted'[v] = granted[v] + RewardDays
      BY <2>2, CommitPayGrants
    <3>4. \A n \in Nat : RewardDays * n + RewardDays = RewardDays * (n + 1)
      BY ReferralAssumption
    <3>5. QED
      BY <2>1, <3>2, <3>3, <3>4
  <2>3. CASE ~(Grants(s.own) /\ v = r)
    <3>1. Rewarding(v)' = Rewarding(v)
      BY <1>1, <1>2, <1>3, <2>3 DEF Rewarding
    <3>2. granted'[v] = granted[v]
      BY <2>3, CommitPayGrants
    <3>3. QED
      BY <2>1, <3>1, <3>2
  <2>4. QED
    BY <2>2, <2>3
<1>6. QED
  BY <1>4, <1>5 DEF RewardsOK

LEMMA CommitPayKeeps ==
  ASSUME IInv, NEW s \in sessions, CommitPay(s)
  PROVE  IInv'
<1>1. users' \in [Users -> Row]
  <2>1. DOMAIN users' = Users /\ users' = [v \in Users |-> users'[v]]
    BY DEF CommitPay, Booked
  <2>2. QED
    BY <2>1, CommitPayRows
<1>2. TypeOK'
  <2>1. paid' \subseteq Charges /\ endless' \subseteq Users
    BY CommitPayGrants DEF IInv, TypeOK, CommitPay
  <2>2. sessions' \subseteq Session /\ \A q \in sessions' : q.op = "bind" => q.to # q.user
    BY DEF IInv, TypeOK, CommitPay, Ends
  <2>3. served' \in [Users -> Nat]
    <3> DEFINE u == Owner[s.charge]
               n == IF u \in endless' THEN served[u] ELSE served[u] + s.bonus
    <3>1. u \in Users /\ served \in [Users -> Nat] /\ s.bonus \in Nat
      BY CommitPayGrants DEF IInv, TypeOK
    <3>2. n \in Nat
      BY <3>1
    <3>3. served' = [served EXCEPT ![u] = n]
      BY DEF CommitPay
    <3> HIDE DEF n
    <3>4. QED
      BY <3>1, <3>2, <3>3
  <2>4. rewards' \in [Charges -> Users \cup {Nobody}] /\ first' \in [Users -> Charges \cup {Nobody}]
    BY CommitPayGrants DEF IInv, TypeOK, CommitPay
  <2>5. QED
    BY <1>1, <2>1, <2>2, <2>3, <2>4, CommitPayGrants DEF TypeOK
<1>3. RowsOK'
  BY CommitPayRows DEF RowsOK
<1>4. SessionsOK'
  <2>1. SUFFICES ASSUME NEW q \in sessions' PROVE Covered(q)'
    BY DEF SessionsOK
  <2>2. q \in sessions /\ Covered(q) /\ q \in Session
    BY DEF CommitPay, Ends, IInv, TypeOK, SessionsOK
  <2>3. /\ q.op \in {"pay", "booked"} =>
             Owner[q.charge] \in Users /\ q.own \in Row /\ q.own.pending \in Nat
        /\ q.op = "booked" => q.left \in Nat /\ q.ref \in Nat
        /\ q.op = "booked" /\ Grants(q.own) => q.own.referrer \in Users
    BY <2>2, Shapes, ReferralAssumption DEF Row, Grants
  <2>4. /\ granted \in [Users -> Nat] /\ granted' \in [Users -> Nat]
        /\ \A v \in Users : granted'[v] >= granted[v]
    BY CommitPayGrants DEF IInv, TypeOK
  <2>5. QED
    BY <2>2, <2>3, <2>4 DEF Covered, Grants
<1>5. RewardsOK'
  BY CommitPayRewards
<1>6. QED
  BY <1>2, <1>3, <1>4, <1>5 DEF IInv

-----------------------------------------------------------------------------
(* The theorems *)

\* Every step keeps the invariant.
LEMMA StepOK == IInv /\ [Next]_vars => IInv'
<1> SUFFICES ASSUME IInv, [Next]_vars PROVE IInv'
  OBVIOUS
<1>1. ASSUME NEW u \in Users, Start(u) PROVE IInv'
  BY <1>1, StartKeeps
<1>2. ASSUME NEW u \in Users, NEW r \in Users, BeginBind(u, r) PROVE IInv'
  BY <1>2, BeginBindKeeps
<1>3. ASSUME NEW c \in Charges, BeginPay(c) PROVE IInv'
  BY <1>3, BeginPayKeeps
<1>4. ASSUME NEW s \in sessions, CommitBind(s) PROVE IInv'
  BY <1>4, CommitBindKeeps
<1>5. ASSUME NEW s \in sessions, Book(s) PROVE IInv'
  BY <1>5, BookKeeps
<1>6. ASSUME NEW s \in sessions, CommitPay(s) PROVE IInv'
  BY <1>6, CommitPayKeeps
<1>7. ASSUME NEW s \in sessions, Refuse(s) \/ Fail(s) PROVE IInv'
  BY <1>7, EndKeeps DEF Refuse, Fail
<1>8. CASE UNCHANGED vars
  BY <1>8 DEF vars, history, IInv, TypeOK, RowsOK, SessionsOK, Covered, Grants, RewardsOK,
              Rewarding
<1>9. QED
  BY <1>1, <1>2, <1>3, <1>4, <1>5, <1>6, <1>7, <1>8 DEF Next

\* The strengthened invariant: whatever a session has read or is about to write into
\* the store of reward days is covered by the days granted to that user.
THEOREM RewardInvariant == Spec => []IInv
  BY InitOK, StepOK, PTL DEF Spec

\* The tables and the sessions of referral_service have their types; a store of
\* reward days is never negative, whatever sessions overlap.
THEOREM RewardTypes == Spec => []TypeOK
<1>1. IInv => TypeOK
  BY DEF IInv
<1>2. QED
  BY <1>1, RewardInvariant, PTL

\* Whatever sessions overlap, referral days are granted by booked payments alone, once
\* for each and never to the buyer, and no store holds more than was granted.
THEOREM RewardsArePaidFor == Spec => []GrantsArePaidFor
<1>1. IInv => GrantsArePaidFor
  BY DEF IInv, RowsOK, RewardsOK, Rewarding, GrantsArePaidFor
<1>2. QED
  BY <1>1, RewardInvariant, PTL

-----------------------------------------------------------------------------
(* Histories without overlap *)

\* What s has read is what is stored, and the customer it will bind has not paid.
Fresh(s) ==
  /\ s.op = "bind" => PaidBy(s.user) = {}
  /\ s.op \in {"pay", "booked"} =>
       s.own = users[Owner[s.charge]] /\ s.own.known /\ s.bonus = s.own.pending
  /\ s.op = "booked" => /\ s.left = 0
                        /\ Grants(s.own) => s.ref = users[s.own.referrer].pending

\* first is a payment of the user, if there is one.
FirstOK == \A u \in Users : IF PaidBy(u) = {} THEN first[u] = Nobody ELSE first[u] \in PaidBy(u)

\* The mark that a user's referrer was rewarded is set by the first payment.
MarksOK ==
  RewardDays > 0 => \A u \in Users :
    users[u].rewarded <=> first[u] # Nobody /\ users[u].referrer # Nobody

SInv ==
  /\ FirstOK
  /\ ~overlapped => /\ \A s, t \in sessions : s = t
                    /\ \A s \in sessions : Fresh(s)
                    /\ MarksOK
  /\ SerialDaysBalance
  /\ SerialFirstPaymentRewards

LEMMA InitSerial ==
  ASSUME Init
  PROVE  SInv
<1>1. \A u \in Users : PaidBy(u) = {}
  BY DEF Init, PaidBy
<1>2. QED
  BY <1>1 DEF Init, SInv, FirstOK, MarksOK, SerialDaysBalance, SerialFirstPaymentRewards

\* A step that opens or closes sessions and writes no table.
LEMMA SessionsOnlySerial ==
  ASSUME SInv, UNCHANGED <<users, paid, endless, history>>,
         ~overlapped' => /\ ~overlapped
                         /\ \A s, t \in sessions' : s = t
                         /\ \A s \in sessions' : Fresh(s)
  PROVE  SInv'
<1>1. ASSUME NEW s, Fresh(s) PROVE Fresh(s)'
  BY <1>1 DEF Fresh, PaidBy, Grants
<1>2. FirstOK' /\ (MarksOK => MarksOK')
  BY DEF SInv, FirstOK, MarksOK, PaidBy, history
<1>3. SerialDaysBalance' /\ SerialFirstPaymentRewards'
  BY DEF SInv, SerialDaysBalance, SerialFirstPaymentRewards, history
<1>4. QED
  BY <1>1, <1>2, <1>3 DEF SInv

\* A session that begins is alone or overlaps; alone, it has just read.
LEMMA BeginSerial ==
  ASSUME SInv, NEW s, Begins(s), Fresh(s), UNCHANGED <<users, paid, endless, history>>
  PROVE  SInv'
  BY SessionsOnlySerial DEF Begins, SInv

LEMMA EndSerial ==
  ASSUME SInv, NEW s \in sessions, Ends(s), UNCHANGED <<users, paid, endless, history>>
  PROVE  SInv'
  BY SessionsOnlySerial DEF Ends, SInv

\* A new user has no referrer and no session: nothing that a session has read changes.
LEMMA StartSerial ==
  ASSUME IInv, SInv, NEW u \in Users, Start(u)
  PROVE  SInv'
<1>1. \A v \in Users : /\ users'[v].referrer = users[v].referrer
                       /\ users'[v].rewarded = users[v].rewarded
                       /\ users'[v].pending = users[v].pending
                       /\ users[v].known => users'[v] = users[v]
  BY DEF Start, IInv, TypeOK, Row
<1>2. UNCHANGED <<paid, endless, sessions, first, served, granted, rewards, overlapped>>
  BY DEF Start, history
<1>3. ASSUME NEW s \in sessions, Fresh(s) PROVE Fresh(s)'
  <2>1. s \in Session
    BY DEF IInv, TypeOK
  <2>2. s.op \in {"pay", "booked"} => Owner[s.charge] \in Users /\ s.own \in Row
    BY <2>1, Shapes, ReferralAssumption
  <2>3. s.op = "booked" /\ Grants(s.own) => s.own.referrer \in Users
    BY <2>2 DEF Grants, Row
  <2>4. QED
    BY <1>1, <1>2, <1>3, <2>2, <2>3 DEF Fresh, PaidBy, Grants
<1>4. FirstOK' /\ (MarksOK => MarksOK')
  BY <1>1, <1>2 DEF SInv, FirstOK, MarksOK, PaidBy
<1>5. SerialDaysBalance'
  BY <1>1, <1>2 DEF SInv, SerialDaysBalance
<1>6. SerialFirstPaymentRewards'
  <2>1. \A c \in paid : Owner[c] \in Users
    BY ReferralAssumption DEF IInv, TypeOK
  <2>2. QED
    BY <1>1, <1>2, <2>1 DEF SInv, SerialFirstPaymentRewards
<1>7. QED
  BY <1>2, <1>3, <1>4, <1>5, <1>6 DEF SInv

LEMMA BeginBindSerial ==
  ASSUME SInv, NEW u \in Users, NEW r \in Users, BeginBind(u, r)
  PROVE  SInv'
  BY BeginSerial DEF BeginBind, Fresh

\* Only a user who has not paid is bound: no payment changes what it should reward.
LEMMA CommitBindSerial ==
  ASSUME IInv, SInv, NEW s \in sessions, CommitBind(s)
  PROVE  SInv'
<1>1. s.op = "bind" /\ s.user \in Users /\ s.to \in Users
  BY Shapes DEF IInv, TypeOK, CommitBind
<1>2. UNCHANGED <<paid, endless, first, served, granted, rewards, overlapped>>
  BY DEF CommitBind, Ends, history
<1>3. \A v \in Users : /\ users'[v].rewarded = users[v].rewarded
                       /\ users'[v].pending = users[v].pending
                       /\ v # s.user => users'[v] = users[v]
  BY <1>1 DEF CommitBind, IInv, TypeOK, Row
<1>4. FirstOK'
  BY <1>2 DEF SInv, FirstOK, PaidBy
<1>5. SerialDaysBalance'
  BY <1>2, <1>3 DEF SInv, SerialDaysBalance
<1>6. ASSUME ~overlapped
      PROVE  sessions' = {} /\ PaidBy(s.user) = {} /\ first[s.user] = Nobody /\ MarksOK
  BY <1>1, <1>6 DEF SInv, Fresh, FirstOK, CommitBind, Ends
<1>7. ~overlapped => MarksOK'
  BY <1>2, <1>3, <1>6 DEF MarksOK
<1>8. SerialFirstPaymentRewards'
  <2>1. \A c \in paid : Owner[c] \in Users /\ (~overlapped => Owner[c] # s.user)
    BY <1>6, ReferralAssumption DEF IInv, TypeOK, PaidBy
  <2>2. QED
    BY <1>2, <1>3, <2>1 DEF SInv, SerialFirstPaymentRewards
<1>9. QED
  BY <1>2, <1>4, <1>5, <1>6, <1>7, <1>8 DEF SInv

LEMMA BeginPaySerial ==
  ASSUME SInv, NEW c \in Charges, BeginPay(c)
  PROVE  SInv'
  BY BeginSerial DEF BeginPay, Fresh

\* The days that were read are all there, so none is left.
LEMMA BookSerial ==
  ASSUME IInv, SInv, NEW s \in sessions, Book(s)
  PROVE  SInv'
<1> DEFINE own == OwnRow(s)
           ref == IF Grants(own) THEN users[own.referrer].pending ELSE 0
           b == [op |-> "booked", charge |-> s.charge, bonus |-> s.bonus, own |-> own,
                 left |-> Consumed(own, s.bonus), ref |-> ref]
<1>1. s.op = "pay" /\ s.own \in Row
  BY Shapes DEF IInv, TypeOK, Book
<1>2. sessions' = (sessions \ {s}) \cup {b} /\ UNCHANGED overlapped
  BY DEF Book
<1>3. ASSUME ~overlapped PROVE sessions' = {b} /\ Fresh(b)
  <2>1. sessions = {s} /\ Fresh(s)
    BY <1>3 DEF SInv
  <2>2. own = s.own /\ s.bonus = own.pending /\ own = users[Owner[s.charge]] /\ own.known
    BY <1>1, <2>1 DEF Fresh, OwnRow
  <2>3. Consumed(own, s.bonus) = 0
    <3>1. own.pending \in Nat
      BY <1>1, <2>2 DEF Row
    <3>2. QED
      BY <2>2, <3>1 DEF Consumed, Lower
  <2>4. Fresh(b)
    BY <2>2, <2>3 DEF Fresh
  <2>5. QED
    BY <1>2, <2>1, <2>4
<1>4. UNCHANGED <<users, paid, endless, history>>
  BY DEF Book
<1>5. \A q, r \in {b} : q = r
  OBVIOUS
<1> HIDE DEF b
<1>6. QED
  BY <1>2, <1>3, <1>4, <1>5, SessionsOnlySerial

\* A commit that is alone: what becomes of the rows.
LEMMA CommitPayAlone ==
  ASSUME IInv, SInv, NEW s \in sessions, CommitPay(s), ~overlapped, NEW v \in Users
  PROVE  LET u == Owner[s.charge] IN
         /\ sessions' = {} /\ s.own = users[u] /\ s.bonus = users[u].pending
         /\ users'[v].referrer = users[v].referrer
         /\ users'[v].rewarded <=> users[v].rewarded \/ (v = u /\ Grants(users[u]))
         /\ users'[v].pending = IF v = u THEN 0
                                ELSE IF Grants(users[u]) /\ v = users[u].referrer
                                THEN users[v].pending + RewardDays
                                ELSE users[v].pending
<1> DEFINE u == Owner[s.charge]
           p == IF s.bonus > 0 /\ s.left # s.own.pending THEN s.left ELSE users[u].pending
<1>1. s.op = "booked" /\ Fresh(s) /\ sessions' = {}
  BY DEF SInv, CommitPay, Ends
<1>2. /\ u \in Users /\ s.own = users[u] /\ s.bonus = users[u].pending /\ s.left = 0
      /\ Grants(s.own) => s.ref = users[s.own.referrer].pending
  BY <1>1, CommitPayGrants DEF Fresh
<1>3. users[u] \in Row /\ users[v] \in Row
  BY <1>2 DEF IInv, TypeOK
<1>4. p = 0
  BY <1>2, <1>3 DEF Row
<1>5. CASE v = u
  <2>1. users'[v] = OwnBooked(s)
    BY <1>5, CommitPayGrants DEF CommitPay, Booked
  <2>2. OwnBooked(s) = [users[u] EXCEPT !.pending = p, !.rewarded = users[u].rewarded \/ Grants(s.own)]
    BY Zenon DEF OwnBooked
  <2>3. (users[u].rewarded \/ Grants(s.own)) \in BOOLEAN
    BY <1>3 DEF Row
  <2>4. ASSUME NEW b \in BOOLEAN
        PROVE  LET row == [users[u] EXCEPT !.pending = 0, !.rewarded = b]
               IN row.rewarded = b /\ row.pending = 0 /\ row.referrer = users[u].referrer
    BY <1>3 DEF Row
  <2>5. /\ users'[v].rewarded = (users[u].rewarded \/ Grants(s.own))
        /\ users'[v].pending = 0
        /\ users'[v].referrer = users[u].referrer
    <3> HIDE DEF p
    <3>1. QED
      BY <1>4, <2>1, <2>2, <2>3, <2>4
  <2>6. QED
    BY <1>1, <1>2, <1>5, <2>5
<1>6. CASE v # u /\ Grants(s.own) /\ v = s.own.referrer
  <2>1. users'[v] = [users[v] EXCEPT !.pending = s.ref + RewardDays]
    BY <1>6 DEF CommitPay, Booked
  <2>2. QED
    BY <1>1, <1>2, <1>3, <1>6, <2>1 DEF Row
<1>7. CASE v # u /\ ~(Grants(s.own) /\ v = s.own.referrer)
  <2>1. users'[v] = users[v]
    BY <1>7 DEF CommitPay, Booked
  <2>2. QED
    BY <1>1, <1>2, <1>3, <1>7, <2>1
<1>8. QED
  BY <1>5, <1>6, <1>7

LEMMA CommitPaySerial ==
  ASSUME IInv, SInv, NEW s \in sessions, CommitPay(s)
  PROVE  SInv'
<1> DEFINE c == s.charge
           u == Owner[c]
<1>1. /\ c \in Charges /\ c \notin paid /\ u \in Users /\ paid' = paid \cup {c}
      /\ overlapped' = overlapped
  BY CommitPayGrants DEF CommitPay, Ends
<1>2. \A v \in Users : PaidBy(v)' = IF v = u THEN PaidBy(v) \cup {c} ELSE PaidBy(v)
  BY <1>1 DEF PaidBy
<1>3. \A v \in Users : first'[v] = IF v = u /\ PaidBy(u) = {} THEN c ELSE first[v]
  <2>1. first[u] = Nobody <=> PaidBy(u) = {}
    BY <1>1, ReferralAssumption DEF SInv, FirstOK, IInv, TypeOK, PaidBy
  <2>2. first' = [first EXCEPT ![u] = IF @ = Nobody THEN c ELSE @] /\ first \in [Users -> Charges \cup {Nobody}]
    BY DEF CommitPay, IInv, TypeOK
  <2>3. QED
    BY <1>1, <2>1, <2>2
<1>4. FirstOK'
  BY <1>2, <1>3 DEF SInv, FirstOK
<1>5. ASSUME ~overlapped
      PROVE  sessions' = {} /\ MarksOK' /\ SerialDaysBalance' /\ SerialFirstPaymentRewards'
  <2>1. /\ sessions' = {} /\ s.own = users[u] /\ s.bonus = users[u].pending
        /\ \A v \in Users :
             /\ users'[v].referrer = users[v].referrer
             /\ users'[v].rewarded <=> users[v].rewarded \/ (v = u /\ Grants(users[u]))
             /\ users'[v].pending = IF v = u THEN 0
                                    ELSE IF Grants(users[u]) /\ v = users[u].referrer
                                    THEN users[v].pending + RewardDays
                                    ELSE users[v].pending
    BY <1>1, <1>5, CommitPayAlone
  <2>2. RewardDays > 0 => (Grants(users[u]) <=> PaidBy(u) = {} /\ users[u].referrer # Nobody)
    <3>1. first[u] = Nobody <=> PaidBy(u) = {}
      BY <1>1, ReferralAssumption DEF SInv, FirstOK, IInv, TypeOK, PaidBy
    <3>2. QED
      BY <1>1, <1>5, <3>1 DEF SInv, MarksOK, Grants
  <2>3. MarksOK'
    <3>1. ASSUME RewardDays > 0, NEW v \in Users
          PROVE  users'[v].rewarded <=> first'[v] # Nobody /\ users'[v].referrer # Nobody
      <4>1. users[v].rewarded <=> first[v] # Nobody /\ users[v].referrer # Nobody
        BY <1>5, <3>1 DEF SInv, MarksOK
      <4>2. CASE v = u
        BY <1>1, <1>3, <2>1, <2>2, <3>1, <4>1, <4>2, ReferralAssumption
           DEF SInv, FirstOK, IInv, TypeOK, PaidBy
      <4>3. CASE v # u
        BY <1>3, <2>1, <4>1, <4>3
      <4>4. QED
        BY <4>2, <4>3
    <3>2. QED
      BY <3>1 DEF MarksOK
  <2>4. SerialDaysBalance'
    <3>1. SUFFICES ASSUME NEW v \in Users
                   PROVE  /\ served'[v] + users'[v].pending <= granted'[v]
                          /\ v \notin endless' => served'[v] + users'[v].pending = granted'[v]
      BY DEF SerialDaysBalance
    <3>2. /\ served[v] \in Nat /\ granted[v] \in Nat /\ users[v].pending \in Nat
          /\ RewardDays \in Nat /\ served[v] + users[v].pending <= granted[v]
          /\ v \notin endless => served[v] + users[v].pending = granted[v]
      BY <1>5, ReferralAssumption DEF IInv, TypeOK, Row, SInv, SerialDaysBalance
    <3>3. /\ endless \subseteq endless'
          /\ v # u => (v \in endless' <=> v \in endless)
          /\ served'[v] = IF v = u /\ u \notin endless' THEN served[v] + users[u].pending
                          ELSE served[v]
      BY <1>1, <2>1 DEF CommitPay, IInv, TypeOK
    <3>4. granted'[v] = IF Grants(users[u]) /\ v = users[u].referrer
                        THEN granted[v] + RewardDays ELSE granted[v]
      BY <2>1, CommitPayGrants
    <3>5. Grants(users[u]) => users[u].referrer # u
      BY <2>1, CommitPayGrants
    <3>6. CASE v = u
      <4>1. users'[v].pending = 0 /\ granted'[v] = granted[v]
        BY <2>1, <3>4, <3>5, <3>6
      <4>2. IF v \in endless' THEN served'[v] = served[v]
                              ELSE v \notin endless /\ served'[v] = served[v] + users[v].pending
        BY <3>2, <3>3, <3>6
      <4>3. QED
        BY <3>2, <4>1, <4>2
    <3>7. CASE v # u
      <4>1. served'[v] = served[v] /\ (v \in endless' <=> v \in endless)
        BY <3>2, <3>3, <3>7
      <4>2. \/ /\ users'[v].pending = users[v].pending + RewardDays
               /\ granted'[v] = granted[v] + RewardDays
            \/ users'[v].pending = users[v].pending /\ granted'[v] = granted[v]
        BY <2>1, <3>4, <3>7
      <4>3. QED
        BY <3>2, <4>1, <4>2
    <3>8. QED
      BY <3>6, <3>7
  <2>5. SerialFirstPaymentRewards'
    <3>1. SUFFICES ASSUME RewardDays > 0, NEW d \in paid'
                   PROVE  rewards'[d] = IF d = first'[Owner[d]] THEN users'[Owner[d]].referrer
                                        ELSE Nobody
      BY DEF SerialFirstPaymentRewards
    <3>2. d \in Charges /\ Owner[d] \in Users
      BY <1>1, <3>1, ReferralAssumption DEF IInv, TypeOK
    <3>3. CASE d = c
      <4>1. rewards[c] = Nobody
        BY <1>1 DEF IInv, RewardsOK
      <4>2. rewards'[c] = IF Grants(users[u]) THEN users[u].referrer ELSE Nobody
        BY <1>1, <2>1, <4>1 DEF CommitPay, IInv, TypeOK
      <4>3. c = first'[u] <=> PaidBy(u) = {}
        BY <1>1, <1>3 DEF SInv, FirstOK, PaidBy
      <4>4. QED
        BY <1>1, <2>1, <2>2, <3>1, <3>3, <4>2, <4>3
    <3>4. CASE d # c
      <4>1. d \in paid /\ rewards'[d] = rewards[d]
        BY <1>1, <3>1, <3>2, <3>4 DEF CommitPay, IInv, TypeOK
      <4>2. first'[Owner[d]] = first[Owner[d]]
        BY <1>3, <3>2, <4>1 DEF PaidBy
      <4>3. QED
        BY <1>5, <2>1, <3>1, <3>2, <4>1, <4>2 DEF SInv, SerialFirstPaymentRewards
    <3>5. QED
      BY <3>3, <3>4
  <2>6. QED
    BY <2>1, <2>3, <2>4, <2>5
<1>6. QED
  BY <1>1, <1>4, <1>5 DEF SInv, SerialDaysBalance, SerialFirstPaymentRewards

LEMMA SerialStep == IInv /\ SInv /\ [Next]_vars => SInv'
<1> SUFFICES ASSUME IInv, SInv, [Next]_vars PROVE SInv'
  OBVIOUS
<1>1. ASSUME NEW u \in Users, Start(u) PROVE SInv'
  BY <1>1, StartSerial
<1>2. ASSUME NEW u \in Users, NEW r \in Users, BeginBind(u, r) PROVE SInv'
  BY <1>2, BeginBindSerial
<1>3. ASSUME NEW c \in Charges, BeginPay(c) PROVE SInv'
  BY <1>3, BeginPaySerial
<1>4. ASSUME NEW s \in sessions, CommitBind(s) PROVE SInv'
  BY <1>4, CommitBindSerial
<1>5. ASSUME NEW s \in sessions, Book(s) PROVE SInv'
  BY <1>5, BookSerial
<1>6. ASSUME NEW s \in sessions, CommitPay(s) PROVE SInv'
  BY <1>6, CommitPaySerial
<1>7. ASSUME NEW s \in sessions, Refuse(s) \/ Fail(s) PROVE SInv'
  BY <1>7, EndSerial DEF Refuse, Fail
<1>8. CASE UNCHANGED vars
  BY <1>8, SessionsOnlySerial DEF vars, SInv
<1>9. QED
  BY <1>1, <1>2, <1>3, <1>4, <1>5, <1>6, <1>7, <1>8 DEF Next

\* While sessions do not overlap, what an open session has read of the rows is what is
\* stored, and the mark of a rewarded referrer says that the first payment was booked.
THEOREM SerialRewardInvariant == Spec => []SInv
<1>1. Init => SInv
  BY InitSerial
<1>2. QED
  BY <1>1, SerialStep, RewardInvariant, PTL DEF Spec

\* While sessions do not overlap, no reward day is lost or used twice, for every reward.
THEOREM DaysBalance == Spec => []SerialDaysBalance
<1>1. SInv => SerialDaysBalance
  BY DEF SInv
<1>2. QED
  BY <1>1, SerialRewardInvariant, PTL

\* While sessions do not overlap, the first payment of a user rewards the referrer who
\* brought him, and no other payment does.
THEOREM FirstPaymentRewards == Spec => []SerialFirstPaymentRewards
<1>1. SInv => SerialFirstPaymentRewards
  BY DEF SInv
<1>2. QED
  BY <1>1, SerialRewardInvariant, PTL

=============================================================================
