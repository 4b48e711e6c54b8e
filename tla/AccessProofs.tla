---------------------------- MODULE AccessProofs ----------------------------
(***************************************************************************)
(* Theorems about Access for every set of users, charges and handlers and  *)
(* every length of the tariff, the warnings and the grace period.          *)
(*                                                                         *)
(* The argument.  A revocation must be justified at the moment the pass    *)
(* commits it, but the pass decided it earlier, on a deadline stored by an *)
(* earlier pass, and payment sessions write the row in between.  What no   *)
(* session ever changes is started_at, and what no stale write can undo is *)
(* that the end lies at least Days after it.  So the inductive invariant   *)
(* bounds everything from below by started_at: the stored end and          *)
(* deadline, the ends that open sessions have read, and the moment of the  *)
(* pass for every row it is about to mark or revoke.                       *)
(***************************************************************************)
EXTENDS Access, FiniteSetTheorems, TLAPS

\* What holds of every stored row.
Sound(row) ==
  /\ row.expires >= row.started + Days
  /\ row.grace # NoTime => row.grace >= row.started + Days + Grace
  /\ row.revoked # NoTime => /\ row.revoked >= row.started + Days + Grace
                             /\ row.status = "expired"
RowsOK == \A i \in Ids : Sound(subs[i])

\* What an open payment session may believe of the row it read.
SessionOK(s) ==
  \/ s.id = 0 /\ s.row.status = "expired" /\ s.row.revoked # NoTime
  \/ /\ s.id \in Ids
     /\ s.row.started = subs[s.id].started
     /\ s.row.expires >= s.row.started + Days
SessionsOK == \A s \in sessions : SessionOK(s) /\ paidAt[s.charge] # NoTime

\* What the open pass may hold.
CycleOK ==
  /\ cycle.at <= now
  /\ \A i \in cycle.marked : /\ i \in Ids
                             /\ subs[i].started + Days <= cycle.at
  /\ \A i \in cycle.todo \cup cycle.revoked :
       /\ i \in Ids
       /\ subs[i].started + Days + Grace <= cycle.at
       /\ subs[i].revoked = NoTime

IInv == TypeOK /\ CreditedOnce /\ RowsOK /\ SessionsOK /\ CycleOK

\* How the table may change without disturbing the sessions and the pass that
\* are open: rows are added, and keep when they started and their revocation.
Grows == /\ Len(subs') >= Len(subs)
         /\ \A i \in Ids : /\ subs'[i].started = subs[i].started
                           /\ subs'[i].revoked = subs[i].revoked

-----------------------------------------------------------------------------
(* Rows *)

\* The ids in use are the numbers up to the length of the table.
LEMMA IdsAreNumbers ==
  ASSUME TypeOK
  PROVE  Ids = 1 .. Len(subs) /\ Len(subs) \in Nat /\ \A i \in Ids : subs[i] \in Row
  BY DEF TypeOK, Ids

\* A new subscription is sound.
LEMMA NewRowIsSound ==
  ASSUME NEW u \in Users, NEW at \in Nat
  PROVE  NewRow(u, at) \in Row /\ Sound(NewRow(u, at))
  BY AccessAssumption DEF NewRow, Row, Moment, NoTime, Sound

\* A record with the values of a row in its nine fields is a row, and the other
\* way round.
LEMMA RowFields ==
  ASSUME NEW row \in Row
  PROVE  /\ row = [user |-> row.user, status |-> row.status, started |-> row.started,
                   expires |-> row.expires, warn3 |-> row.warn3, warn1 |-> row.warn1,
                   notice |-> row.notice, grace |-> row.grace, revoked |-> row.revoked]
         /\ row.user \in Users
         /\ row.status \in {"active", "expired"}
         /\ row.started \in Nat
         /\ row.expires \in Nat
         /\ row.warn3 \in BOOLEAN
         /\ row.warn1 \in BOOLEAN
         /\ row.notice \in BOOLEAN
         /\ row.grace \in Moment
         /\ row.revoked \in Moment
  BY DEF Row

\* A write to the columns of an extension makes a row of a row.
Written(stored, e, w3, w1, n, g) ==
  [stored EXCEPT !.expires = e, !.warn3 = w3, !.warn1 = w1, !.notice = n, !.grace = g]

\* Writing the end and the marks of an extension to a row makes a row.
LEMMA WrittenIsRow ==
  ASSUME NEW stored \in Row, NEW e \in Nat, NEW w3 \in BOOLEAN, NEW w1 \in BOOLEAN,
         NEW n \in BOOLEAN, NEW g \in Moment
  PROVE  /\ Written(stored, e, w3, w1, n, g) \in Row
         /\ Written(stored, e, w3, w1, n, g).started = stored.started
         /\ Written(stored, e, w3, w1, n, g).expires = e
         /\ Written(stored, e, w3, w1, n, g).status = stored.status
         /\ Written(stored, e, w3, w1, n, g).revoked = stored.revoked
         /\ Written(stored, e, w3, w1, n, g).grace = g
  BY DEF Row, Written

\* The UPDATE of an extension writes a row, and leaves its start and its
\* revocation alone.
LEMMA ExtendedIsRow ==
  ASSUME NEW stored \in Row, NEW row \in Row
  PROVE  /\ Extended(stored, row) \in Row
         /\ Extended(stored, row).started = stored.started
         /\ Extended(stored, row).expires = row.expires + Days
         /\ Extended(stored, row).status = stored.status
         /\ Extended(stored, row).revoked = stored.revoked
         /\ \/ Extended(stored, row).grace = NoTime
            \/ Extended(stored, row).grace = stored.grace
<1> DEFINE w3 == stored.warn3 /\ ~row.warn3
           w1 == stored.warn1 /\ ~row.warn1
           n  == stored.notice /\ ~row.notice
           g  == IF row.grace # NoTime THEN NoTime ELSE stored.grace
           e  == row.expires + Days
<1>1. w3 \in BOOLEAN /\ w1 \in BOOLEAN /\ n \in BOOLEAN
  OBVIOUS
<1>2. g \in Moment /\ (g = NoTime \/ g = stored.grace)
  BY RowFields DEF Moment
<1>3. e \in Nat
  BY RowFields, AccessAssumption
<1>4. Extended(stored, row) = Written(stored, e, w3, w1, n, g)
  BY Zenon DEF Extended, Written
<1> HIDE DEF w3, w1, n, g, e
<1> DEFINE new == Written(stored, e, w3, w1, n, g)
<1>5. /\ new \in Row
      /\ new.started = stored.started
      /\ new.expires = e
      /\ new.status = stored.status
      /\ new.revoked = stored.revoked
      /\ new.grace = g
  BY <1>1, <1>2, <1>3, WrittenIsRow
<1> HIDE DEF new
<1>6. Extended(stored, row) = new /\ e = row.expires + Days
  BY <1>4 DEF new, e
<1>7. QED
  BY <1>2, <1>5, <1>6

\* activate_or_extend_subscription keeps every stored row sound, whatever the
\* session read before.
LEMMA ActivationKeepsRows ==
  ASSUME TypeOK, RowsOK, NEW s \in Session, SessionOK(s),
         paidAt[s.charge] \in Nat, ActivateOrExtend(s)
  PROVE  subs' \in Seq(Row) /\ Grows /\ RowsOK'
<1>1. Ids = 1 .. Len(subs) /\ Len(subs) \in Nat /\ \A i \in Ids : subs[i] \in Row
  BY IdsAreNumbers
<1>2. s.row \in Row /\ s.row.user \in Users
  BY DEF Session, Row
<1>3. CASE Extends(s.row, paidAt[s.charge])
  <2>1. s.id \in Ids /\ subs' = [subs EXCEPT ![s.id] = Extended(subs[s.id], s.row)]
    BY <1>3 DEF ActivateOrExtend, Extends, IsLive, SessionOK
  <2>2. Extended(subs[s.id], s.row) \in Row
    BY <1>1, <1>2, <2>1, ExtendedIsRow
  <2>3. Sound(Extended(subs[s.id], s.row))
    <3> DEFINE new == Extended(subs[s.id], s.row)
    <3>1. s.row.started = subs[s.id].started /\ s.row.expires >= s.row.started + Days
      BY <1>1, <1>3, <2>1 DEF SessionOK, Extends, IsLive
    <3>2. Sound(subs[s.id])
      BY <2>1 DEF RowsOK
    <3>3. s.row.expires \in Nat /\ s.row.started \in Nat
      BY <1>2, RowFields
    <3>4. /\ new.started = subs[s.id].started
          /\ new.expires = s.row.expires + Days
          /\ new.status = subs[s.id].status
          /\ new.revoked = subs[s.id].revoked
          /\ new.grace = NoTime \/ new.grace = subs[s.id].grace
      BY <1>1, <1>2, <2>1, ExtendedIsRow, Zenon
    <3> HIDE DEF new
    <3>5. Sound(new)
      BY <3>1, <3>2, <3>3, <3>4, AccessAssumption DEF Sound
    <3>6. QED
      BY <3>5 DEF new
  <2>4. /\ Extended(subs[s.id], s.row).started = subs[s.id].started
        /\ Extended(subs[s.id], s.row).revoked = subs[s.id].revoked
    BY <1>1, <1>2, <2>1, ExtendedIsRow
  <2>5. subs' \in Seq(Row) /\ Len(subs') = Len(subs)
    BY <1>1, <2>1, <2>2 DEF TypeOK
  <2>6. QED
    BY <1>1, <2>1, <2>3, <2>4, <2>5 DEF Grows, RowsOK, Ids
<1>4. CASE ~Extends(s.row, paidAt[s.charge])
  <2> DEFINE lapsed == IF Lapses(s.row, paidAt[s.charge]) /\ s.row.status = "active"
                       THEN [subs EXCEPT ![s.id].status = "expired"]
                       ELSE subs
             new    == NewRow(s.row.user, paidAt[s.charge])
  <2>1. subs' = Append(lapsed, new)
    BY <1>4 DEF ActivateOrExtend
  <2>2. new \in Row /\ Sound(new)
    BY <1>2, NewRowIsSound
  <2>3. lapsed \in Seq(Row) /\ Len(lapsed) = Len(subs)
    <3>1. CASE Lapses(s.row, paidAt[s.charge]) /\ s.row.status = "active"
      <4>1. s.id \in Ids
        BY <3>1 DEF Lapses, SessionOK
      <4>2. [subs[s.id] EXCEPT !.status = "expired"] \in Row
        BY <1>1, <4>1 DEF Row
      <4>3. lapsed = [subs EXCEPT ![s.id] = [subs[s.id] EXCEPT !.status = "expired"]]
        BY <3>1
      <4>4. QED
        BY <1>1, <4>1, <4>2, <4>3 DEF TypeOK
    <3>2. CASE ~(Lapses(s.row, paidAt[s.charge]) /\ s.row.status = "active")
      BY <3>2 DEF TypeOK
    <3>3. QED
      BY <3>1, <3>2
  <2>4. \A i \in Ids : /\ lapsed[i].started = subs[i].started
                       /\ lapsed[i].revoked = subs[i].revoked
                       /\ Sound(lapsed[i])
    BY <1>1 DEF TypeOK, Row, Lapses, SessionOK, RowsOK, Sound
  <2> HIDE DEF lapsed, new
  <2>5. /\ subs' \in Seq(Row)
        /\ Len(subs') = Len(subs) + 1
        /\ subs'[Len(subs) + 1] = new
        /\ \A i \in Ids : subs'[i] = lapsed[i]
    BY <1>1, <2>1, <2>2, <2>3
  <2>6. Ids' = Ids \cup {Len(subs) + 1}
    BY <1>1, <2>5 DEF Ids
  <2>7. QED
    BY <1>1, <2>2, <2>4, <2>5, <2>6 DEF Grows, RowsOK
<1>5. QED
  BY <1>3, <1>4

\* A change of the table that only grows it leaves sessions and pass as they were.
LEMMA GrowthKeepsSessions ==
  ASSUME TypeOK, TypeOK', SessionsOK, Grows, sessions' \subseteq sessions, paidAt' = paidAt
  PROVE  SessionsOK'
<1>1. Ids = 1 .. Len(subs) /\ Len(subs) \in Nat
  BY IdsAreNumbers
<1>2. Ids \subseteq Ids'
  BY <1>1 DEF Grows, Ids, TypeOK
<1>3. QED
  BY <1>2 DEF SessionsOK, SessionOK, Grows

\* A table that only grew leaves what the open pass refers to in place.
LEMMA GrowthKeepsCycle ==
  ASSUME TypeOK, TypeOK', CycleOK, Grows, cycle' = cycle, now' >= now
  PROVE  CycleOK'
<1>1. Ids = 1 .. Len(subs) /\ Len(subs) \in Nat
  BY IdsAreNumbers
<1>2. Ids \subseteq Ids'
  BY <1>1 DEF Grows, Ids, TypeOK
<1>3. cycle'.at <= now'
  BY DEF CycleOK, TypeOK, Cycle
<1>4. QED
  BY <1>2, <1>3 DEF CycleOK, Grows

\* Nothing changes for the rows when the table stays as it is.
LEMMA SameTable ==
  ASSUME TypeOK, RowsOK, subs' = subs
  PROVE  RowsOK' /\ Grows /\ Ids' = Ids
<1>1. Ids = 1 .. Len(subs) /\ Len(subs) \in Nat
  BY IdsAreNumbers
<1>2. QED
  BY <1>1 DEF RowsOK, Grows, Ids

-----------------------------------------------------------------------------
(* The commit of a pass *)

PassWritten(stored, w3, w1, n, g, st, rv) ==
  [stored EXCEPT !.warn3 = w3, !.warn1 = w1, !.notice = n, !.grace = g,
                 !.status = st, !.revoked = rv]

\* A write to the columns of a pass makes a row of a row.
LEMMA PassWrittenIsRow ==
  ASSUME NEW stored \in Row, NEW w3 \in BOOLEAN, NEW w1 \in BOOLEAN, NEW n \in BOOLEAN,
         NEW g \in Moment, NEW st \in {"active", "expired"}, NEW rv \in Moment
  PROVE  /\ PassWritten(stored, w3, w1, n, g, st, rv) \in Row
         /\ PassWritten(stored, w3, w1, n, g, st, rv).started = stored.started
         /\ PassWritten(stored, w3, w1, n, g, st, rv).expires = stored.expires
         /\ PassWritten(stored, w3, w1, n, g, st, rv).grace = g
         /\ PassWritten(stored, w3, w1, n, g, st, rv).status = st
         /\ PassWritten(stored, w3, w1, n, g, st, rv).revoked = rv
  BY DEF Row, PassWritten

\* The UPDATE of a pass writes a row, and changes its end and start in no case.
LEMMA ProcessedIsRow ==
  ASSUME TypeOK, NEW i \in Ids
  PROVE  /\ Processed(i) \in Row
         /\ Processed(i).started = subs[i].started
         /\ Processed(i).expires = subs[i].expires
         /\ Processed(i).grace = IF i \in cycle.marked THEN cycle.at + Grace
                                                       ELSE subs[i].grace
         /\ Processed(i).status = IF i \in cycle.revoked THEN "expired"
                                                         ELSE subs[i].status
         /\ Processed(i).revoked = IF i \in cycle.revoked THEN cycle.at
                                                          ELSE subs[i].revoked
<1> DEFINE w3 == subs[i].warn3 \/ i \in cycle.warned3
           w1 == subs[i].warn1 \/ i \in cycle.warned1
           n  == subs[i].notice \/ i \in cycle.noticed
           g  == IF i \in cycle.marked THEN cycle.at + Grace ELSE subs[i].grace
           st == IF i \in cycle.revoked THEN "expired" ELSE subs[i].status
           rv == IF i \in cycle.revoked THEN cycle.at ELSE subs[i].revoked
<1>1. subs[i] \in Row /\ cycle.at \in Nat
  BY IdsAreNumbers DEF TypeOK, Cycle
<1>2. w3 \in BOOLEAN /\ w1 \in BOOLEAN /\ n \in BOOLEAN
  OBVIOUS
<1>3. g \in Moment /\ st \in {"active", "expired"} /\ rv \in Moment
  BY <1>1, RowFields, AccessAssumption DEF Moment
<1>4. Processed(i) = PassWritten(subs[i], w3, w1, n, g, st, rv)
  BY Zenon DEF Processed, PassWritten
<1> DEFINE stored == subs[i]
<1> HIDE DEF stored, w3, w1, n, g, st, rv
<1> DEFINE new == PassWritten(stored, w3, w1, n, g, st, rv)
<1>5. /\ new \in Row
      /\ new.started = stored.started
      /\ new.expires = stored.expires
      /\ new.grace = g
      /\ new.status = st
      /\ new.revoked = rv
  <2>1. stored \in Row
    BY <1>1 DEF stored
  <2>2. QED
    BY <2>1, <1>2, <1>3, PassWrittenIsRow
<1> HIDE DEF new
<1>6. Processed(i) = new
  BY <1>4 DEF new, stored
<1>7. QED
  BY <1>5, <1>6 DEF g, st, rv, stored

\* The commit of a pass keeps every row sound: what it marked and revoked was due.
LEMMA CommitKeepsRows ==
  ASSUME TypeOK, RowsOK, CycleOK, CommitCycle
  PROVE  /\ subs' \in Seq(Row)
         /\ Len(subs') = Len(subs)
         /\ Ids' = Ids
         /\ \A i \in Ids : subs'[i].started = subs[i].started
         /\ \A i \in Ids : subs[i].revoked # NoTime => subs'[i].revoked = subs[i].revoked
         /\ RowsOK'
<1>1. Ids = 1 .. Len(subs) /\ Len(subs) \in Nat /\ \A i \in Ids : subs[i] \in Row
  BY IdsAreNumbers
<1>2. subs' = [i \in Ids |-> Processed(i)]
  BY DEF CommitCycle
<1>3. \A i \in Ids : subs'[i] = Processed(i) /\ Processed(i) \in Row
  BY <1>2, ProcessedIsRow
<1>4. subs' \in Seq(Row) /\ Len(subs') = Len(subs) /\ Ids' = Ids
  BY <1>1, <1>2, <1>3 DEF Ids
<1>5. ASSUME NEW i \in Ids
      PROVE  /\ subs'[i].started = subs[i].started
             /\ subs[i].revoked # NoTime => subs'[i].revoked = subs[i].revoked
             /\ Sound(subs'[i])
  <2> DEFINE new == Processed(i)
  <2>1. /\ new.started = subs[i].started
        /\ new.expires = subs[i].expires
        /\ new.grace = IF i \in cycle.marked THEN cycle.at + Grace ELSE subs[i].grace
        /\ new.status = IF i \in cycle.revoked THEN "expired" ELSE subs[i].status
        /\ new.revoked = IF i \in cycle.revoked THEN cycle.at ELSE subs[i].revoked
    BY ProcessedIsRow
  <2>2. subs'[i] = new
    BY <1>3
  <2> HIDE DEF new
  <2>3. Sound(subs[i]) /\ cycle.at \in Nat /\ subs[i].started \in Nat
    BY <1>1, RowFields DEF RowsOK, TypeOK, Cycle
  <2>4. /\ i \in cycle.marked => subs[i].started + Days <= cycle.at
        /\ i \in cycle.revoked => /\ subs[i].started + Days + Grace <= cycle.at
                                  /\ subs[i].revoked = NoTime
    BY DEF CycleOK
  <2>5. QED
    BY <2>1, <2>2, <2>3, <2>4, AccessAssumption DEF Sound
<1>6. QED
  BY <1>4, <1>5 DEF RowsOK

-----------------------------------------------------------------------------
(* The invariant: it holds at the start, and every action keeps it *)

\* The empty table, without sessions and without a pass, satisfies the invariant.
LEMMA InitOK == Init => IInv
<1> SUFFICES ASSUME Init PROVE IInv
  OBVIOUS
<1>1. subs \in Seq(Row) /\ Len(subs) = 0 /\ Ids = {}
  BY DEF Init, Ids
<1>2. Idle \in Cycle /\ Idle.at = 0 /\ Idle.marked = {} /\ Idle.todo = {} /\ Idle.revoked = {}
  BY DEF Idle, Cycle, Phases
<1>3. TypeOK
  BY <1>1, <1>2, AccessAssumption DEF Init, TypeOK, Moment, Standings
<1>4. RowsOK /\ SessionsOK /\ CycleOK /\ CreditedOnce
  BY <1>1, <1>2 DEF Init, RowsOK, SessionsOK, CycleOK, CreditedOnce
<1>5. QED
  BY <1>3, <1>4 DEF IInv

\* The pass that is not open holds nothing.
LEMMA IdleOK ==
  ASSUME TypeOK, cycle' = Idle, now' = now
  PROVE  cycle' \in Cycle /\ cycle'.todo = {} /\ CycleOK'
  BY DEF TypeOK, Idle, Cycle, Phases, CycleOK

\* The clock moves on: what was due in the past stays due.
LEMMA TickKeeps == ASSUME IInv, Tick PROVE IInv'
<1>1. TypeOK'
  BY DEF IInv, TypeOK, Tick, Ids
<1>2. RowsOK' /\ Grows
  BY SameTable DEF IInv, Tick
<1>3. SessionsOK'
  BY <1>1, <1>2, GrowthKeepsSessions DEF IInv, Tick
<1>4. CycleOK'
  BY <1>1, <1>2, GrowthKeepsCycle DEF IInv, Tick, TypeOK
<1>5. CreditedOnce'
  BY DEF IInv, CreditedOnce, Tick
<1>6. QED
  BY <1>1, <1>2, <1>3, <1>4, <1>5 DEF IInv

\* A payment at the provider changes nothing in the database.
LEMMA PayKeeps == ASSUME IInv, NEW c \in Charges, Pay(c) PROVE IInv'
<1>1. TypeOK'
  BY DEF IInv, TypeOK, Pay, Ids, Moment
<1>2. RowsOK' /\ Grows
  BY SameTable DEF IInv, Pay
<1>3. SessionsOK'
  <2>1. \A s \in sessions : s.charge \in Charges /\ paidAt'[s.charge] # NoTime
    BY DEF IInv, SessionsOK, Pay, TypeOK, Session, NoTime
  <2>2. QED
    BY <2>1 DEF IInv, SessionsOK, SessionOK, Pay, Ids
<1>4. CycleOK'
  BY <1>1, <1>2, GrowthKeepsCycle DEF IInv, Pay, TypeOK
<1>5. CreditedOnce'
  BY DEF IInv, CreditedOnce, Pay
<1>6. QED
  BY <1>1, <1>2, <1>3, <1>4, <1>5 DEF IInv

\* The row of a user without subscriptions has the type of a row.
LEMMA NoRowIsRow == ASSUME NEW u \in Users PROVE NoRow(u) \in Row
  BY DEF NoRow, Row, Moment, NoTime

\* A handler reads the latest row: its copy is a row of the table as it is.
LEMMA BeginPaymentKeeps ==
  ASSUME IInv, NEW h \in Handlers, NEW c \in Charges, BeginPayment(h, c)
  PROVE  IInv'
<1> DEFINE u == Owner[c]
<1>1. u \in Users
  BY AccessAssumption
<1>2. PICK s : /\ sessions' = sessions \cup {s}
               /\ s \in Session
               /\ s.charge = c
               /\ s.id <= Len(subs)
               /\ SessionOK(s)
  <2>1. CASE RowsOf(u) = {} /\ sessions' = sessions \cup
               {[handler |-> h, charge |-> c, id |-> 0, row |-> NoRow(u)]}
    <3> DEFINE s == [handler |-> h, charge |-> c, id |-> 0, row |-> NoRow(u)]
    <3>1. s \in Session /\ s.id <= Len(subs)
      BY <1>1, NoRowIsRow, IdsAreNumbers DEF Session, IInv
    <3>2. SessionOK(s)
      BY DEF SessionOK, NoRow, NoTime
    <3>3. QED
      BY <2>1, <3>1, <3>2
  <2>2. ASSUME NEW i \in Ids,
               sessions' = sessions \cup
                 {[handler |-> h, charge |-> c, id |-> i, row |-> subs[i]]}
        PROVE  \E s : /\ sessions' = sessions \cup {s}
                      /\ s \in Session
                      /\ s.charge = c
                      /\ s.id <= Len(subs)
                      /\ SessionOK(s)
    <3> DEFINE s == [handler |-> h, charge |-> c, id |-> i, row |-> subs[i]]
    <3>1. s \in Session /\ s.id <= Len(subs)
      BY IdsAreNumbers DEF Session, IInv
    <3>2. SessionOK(s)
      BY DEF SessionOK, IInv, RowsOK, Sound
    <3>3. QED
      BY <2>2, <3>1, <3>2
  <2>3. QED
    BY <2>1, <2>2 DEF BeginPayment
<1>3. TypeOK'
  BY <1>2 DEF IInv, TypeOK, BeginPayment, Ids
<1>4. RowsOK' /\ Grows
  BY SameTable DEF IInv, BeginPayment
<1>5. SessionsOK'
  BY <1>2 DEF IInv, SessionsOK, SessionOK, BeginPayment, Ids
<1>6. CycleOK'
  BY <1>3, <1>4, GrowthKeepsCycle DEF IInv, BeginPayment, TypeOK
<1>7. CreditedOnce'
  BY DEF IInv, CreditedOnce, BeginPayment
<1>8. QED
  BY <1>3, <1>4, <1>5, <1>6, <1>7 DEF IInv

\* The commit of a payment handler (process_successful_stars_payment, sync_crypto_invoice)
\* keeps the invariant, although its copy of the row may be old.
LEMMA CommitPaymentKeeps ==
  ASSUME IInv, NEW s \in sessions, CommitPayment(s)
  PROVE  IInv' /\ Grows
<1>1. s \in Session /\ s.charge \in Charges /\ SessionOK(s) /\ paidAt[s.charge] \in Nat
  BY DEF IInv, TypeOK, SessionsOK, Session, Moment
<1>2. subs' \in Seq(Row) /\ Grows /\ RowsOK'
  <2>1. CASE s.charge \in payments
    BY <2>1, SameTable DEF CommitPayment, IInv, TypeOK
  <2>2. CASE s.charge \notin payments
    BY <1>1, <2>2, ActivationKeepsRows DEF CommitPayment, IInv
  <2>3. QED
    BY <2>1, <2>2
<1>3. /\ payments' \in SUBSET Charges
      /\ credits' \in [Charges -> Nat]
      /\ CreditedOnce'
  <2>1. CASE s.charge \in payments
    BY <2>1 DEF CommitPayment, IInv, TypeOK, CreditedOnce
  <2>2. CASE s.charge \notin payments
    <3>1. payments' = payments \cup {s.charge}
      BY <2>2 DEF CommitPayment
    <3>2. credits' = [credits EXCEPT ![s.charge] = credits[s.charge] + 1]
      BY <2>2 DEF CommitPayment
    <3>3. credits[s.charge] = 0
      BY <1>1, <2>2 DEF IInv, CreditedOnce
    <3>4. QED
      BY <1>1, <3>1, <3>2, <3>3 DEF IInv, TypeOK, CreditedOnce
  <2>3. QED
    BY <2>1, <2>2
<1>4. Ids \subseteq Ids'
  BY <1>2 DEF IInv, TypeOK, Ids, Grows
<1>5. TypeOK'
  <2>1. Len(subs') \in Nat /\ Len(subs) \in Nat /\ Len(subs') >= Len(subs)
    BY <1>2 DEF IInv, TypeOK, Grows
  <2>2. sessions' \in SUBSET Session /\ \A t \in sessions' : t.id <= Len(subs')
    BY <2>1 DEF CommitPayment, IInv, TypeOK, Session
  <2>3. cycle' \in Cycle /\ cycle'.todo \subseteq Ids'
    BY <1>4 DEF CommitPayment, IInv, TypeOK
  <2>4. QED
    BY <1>2, <1>3, <2>2, <2>3 DEF CommitPayment, IInv, TypeOK
<1>6. SessionsOK'
  BY <1>2, <1>5, GrowthKeepsSessions DEF CommitPayment, IInv
<1>7. CycleOK'
  BY <1>2, <1>5, GrowthKeepsCycle DEF CommitPayment, IInv, TypeOK
<1>8. QED
  BY <1>2, <1>3, <1>5, <1>6, <1>7 DEF IInv

\* Every other action leaves the table and the payments alone.  What it does to
\* sessions, pass and members is given in parts.
LEMMA TableUntouched ==
  ASSUME IInv, UNCHANGED <<now, subs, payments, paidAt, credits>>,
         sessions' \subseteq sessions,
         cycle' \in Cycle, cycle'.todo \subseteq Ids, CycleOK',
         member' \in [Users -> Standings],
         mishaps' \in Nat, overlap' \in BOOLEAN
  PROVE  IInv'
<1>1. RowsOK' /\ Grows /\ Ids' = Ids
  BY SameTable DEF IInv
<1>2. TypeOK'
  BY <1>1 DEF IInv, TypeOK
<1>3. SessionsOK'
  BY <1>1, <1>2, GrowthKeepsSessions DEF IInv
<1>4. CreditedOnce'
  BY DEF IInv, CreditedOnce
<1>5. QED
  BY <1>1, <1>2, <1>3, <1>4 DEF IInv

\* A handler that rolls back only closes its session.
LEMMA RollbackPaymentKeeps ==
  ASSUME IInv, NEW s \in sessions, RollbackPayment(s)
  PROVE  IInv'
<1>1. cycle' = cycle /\ subs' = subs /\ now' = now
  BY DEF RollbackPayment
<1>2. cycle' \in Cycle /\ cycle'.todo \subseteq Ids /\ CycleOK'
  BY <1>1 DEF IInv, TypeOK, CycleOK, Ids
<1>3. QED
  BY <1>2, TableUntouched DEF RollbackPayment, IInv, TypeOK

\* A user who joins the channel changes no row.
LEMMA JoinKeeps == ASSUME IInv, NEW u \in Users, Join(u) PROVE IInv'
<1>1. cycle' = cycle /\ subs' = subs /\ now' = now
  BY DEF Join
<1>2. cycle' \in Cycle /\ cycle'.todo \subseteq Ids /\ CycleOK'
  BY <1>1 DEF IInv, TypeOK, CycleOK, Ids
<1>3. QED
  BY <1>2, TableUntouched DEF Join, IInv, TypeOK, Standings

\* What a phase takes is some of the rows that are due.
LEMMA BatchIsDue == ASSUME NEW due, NEW key, NEW S \in Batches(due, key) PROVE S \subseteq due
  BY DEF Batches

\* The 3-day phase of process_expired_subscriptions notes ids of rows that exist.
LEMMA StartCycleKeeps == ASSUME IInv, StartCycle PROVE IInv'
<1>0. PICK batch \in Batches(DueForWarning3(now), Ends) : \E sent \in SUBSET batch :
         cycle' = [Idle EXCEPT !.phase = "warn1", !.at = now, !.warned3 = sent]
  BY DEF StartCycle
<1>1. PICK sent \in SUBSET batch :
         cycle' = [Idle EXCEPT !.phase = "warn1", !.at = now, !.warned3 = sent]
  BY <1>0
<1>2. sent \subseteq Ids
  BY BatchIsDue DEF DueForWarning3
<1>3. sent \subseteq Nat /\ now \in Nat
  BY <1>2, IdsAreNumbers DEF IInv, TypeOK
<1>4. cycle' \in Cycle /\ cycle'.todo = {} /\ cycle'.at = now /\ cycle'.marked = {}
      /\ cycle'.revoked = {}
  BY <1>1, <1>3 DEF Idle, Cycle, Phases
<1>5. CycleOK'
  BY <1>3, <1>4 DEF CycleOK, StartCycle, cycleOnly
<1>6. QED
  BY <1>4, <1>5, TableUntouched DEF StartCycle, cycleOnly, IInv, TypeOK

\* So does the 1-day phase.
LEMMA SendWarnings1Keeps == ASSUME IInv, SendWarnings1 PROVE IInv'
<1>0. PICK batch \in Batches(DueForWarning1(cycle.at), Ends) : \E sent \in SUBSET batch :
         cycle' = [cycle EXCEPT !.phase = "notice", !.warned1 = sent]
  BY DEF SendWarnings1
<1>1. PICK sent \in SUBSET batch :
         cycle' = [cycle EXCEPT !.phase = "notice", !.warned1 = sent]
  BY <1>0
<1>2. sent \subseteq Ids
  BY BatchIsDue DEF DueForWarning1
<1>3. sent \subseteq Nat
  BY <1>2, IdsAreNumbers DEF IInv
<1>4. /\ cycle' \in Cycle
      /\ cycle'.at = cycle.at
      /\ cycle'.todo = cycle.todo
      /\ cycle'.marked = cycle.marked
      /\ cycle'.revoked = cycle.revoked
  BY <1>1, <1>3 DEF IInv, TypeOK, Cycle, Phases
<1>5. CycleOK'
  BY <1>4 DEF IInv, CycleOK, SendWarnings1, cycleOnly, Ids
<1>6. QED
  BY <1>4, <1>5, TableUntouched DEF SendWarnings1, cycleOnly, IInv, TypeOK

\* A row is only marked when it has ended at the moment of the pass, and it ends
\* no earlier than Days after its start.
LEMMA SendNoticesKeeps == ASSUME IInv, SendNotices PROVE IInv'
<1>0. PICK batch \in Batches(DueForNotice(cycle.at), Ends) : \E sent \in SUBSET batch :
         cycle' = [cycle EXCEPT !.phase = "revoke", !.noticed = sent,
                                !.marked = {i \in batch : subs[i].grace = NoTime}]
  BY DEF SendNotices
<1>1. PICK sent \in SUBSET batch :
         cycle' = [cycle EXCEPT !.phase = "revoke", !.noticed = sent,
                                !.marked = {i \in batch : subs[i].grace = NoTime}]
  BY <1>0
<1> DEFINE marked == {i \in batch : subs[i].grace = NoTime}
<1>2. \A i \in batch : i \in Ids /\ subs[i].expires <= cycle.at
  BY BatchIsDue DEF DueForNotice
<1>3. \A i \in batch : subs[i].started + Days <= cycle.at
  <2>1. \A i \in Ids : subs[i].expires \in Nat /\ subs[i].started \in Nat
    BY IdsAreNumbers, RowFields DEF IInv
  <2>2. cycle.at \in Nat
    BY DEF IInv, TypeOK, Cycle
  <2>3. QED
    BY <1>2, <2>1, <2>2, AccessAssumption DEF IInv, RowsOK, Sound
<1>4. sent \subseteq Nat /\ marked \subseteq Nat
  BY <1>2, IdsAreNumbers DEF IInv
<1>5. /\ cycle' \in Cycle
      /\ cycle'.at = cycle.at
      /\ cycle'.todo = cycle.todo
      /\ cycle'.marked = marked
      /\ cycle'.revoked = cycle.revoked
  BY <1>1, <1>4 DEF IInv, TypeOK, Cycle, Phases
<1>6. CycleOK'
  BY <1>2, <1>3, <1>5 DEF IInv, CycleOK, SendNotices, cycleOnly, Ids
<1>7. QED
  BY <1>5, <1>6, TableUntouched DEF SendNotices, cycleOnly, IInv, TypeOK

\* A row is only listed for revocation when its deadline has come, and a deadline
\* lies no earlier than Days and Grace after the start.
LEMMA ListRevocationsKeeps == ASSUME IInv, ListRevocations PROVE IInv'
<1>1. PICK batch \in Batches(DueForRevoke(cycle.at), Graces) :
         cycle' = [cycle EXCEPT !.phase = "remove", !.todo = batch]
  BY DEF ListRevocations
<1>2. \A i \in batch : /\ i \in Ids
                       /\ subs[i].revoked = NoTime
                       /\ subs[i].grace # NoTime
                       /\ subs[i].grace <= cycle.at
  BY BatchIsDue DEF DueForRevoke, IsLive
<1>3. \A i \in batch : subs[i].started + Days + Grace <= cycle.at
  <2>1. \A i \in batch : subs[i].grace \in Nat /\ subs[i].started \in Nat
    BY <1>2, IdsAreNumbers, RowFields DEF IInv, Moment
  <2>2. cycle.at \in Nat
    BY DEF IInv, TypeOK, Cycle
  <2>3. QED
    BY <1>2, <2>1, <2>2, AccessAssumption DEF IInv, RowsOK, Sound
<1>4. batch \subseteq Nat /\ batch \subseteq Ids
  BY <1>2, IdsAreNumbers DEF IInv
<1>5. /\ cycle' \in Cycle
      /\ cycle'.at = cycle.at
      /\ cycle'.todo = batch
      /\ cycle'.marked = cycle.marked
      /\ cycle'.revoked = cycle.revoked
  BY <1>1, <1>4 DEF IInv, TypeOK, Cycle, Phases
<1>6. CycleOK'
  BY <1>2, <1>3, <1>5 DEF IInv, CycleOK, ListRevocations, cycleOnly, Ids
<1>7. QED
  BY <1>4, <1>5, <1>6, TableUntouched DEF ListRevocations, cycleOnly, IInv, TypeOK

\* The row whose member is removed was due for it, and is noted as revoked.
LEMMA RemoveMemberKeeps ==
  ASSUME IInv, NEW i \in cycle.todo, RemoveMember(i)
  PROVE  IInv'
<1>1. cycle' = [cycle EXCEPT !.todo = cycle.todo \ {i}, !.revoked = cycle.revoked \cup {i}]
  BY DEF RemoveMember
<1>2. i \in Nat /\ cycle.todo \subseteq Ids
  BY DEF IInv, TypeOK, Cycle
<1>3. /\ cycle' \in Cycle
      /\ cycle'.at = cycle.at
      /\ cycle'.todo \subseteq cycle.todo
      /\ cycle'.marked = cycle.marked
      /\ cycle'.todo \cup cycle'.revoked = cycle.todo \cup cycle.revoked
  <2> DEFINE t == cycle.todo \ {i}
             r == cycle.revoked \cup {i}
  <2>1. /\ t \in SUBSET Nat
        /\ r \in SUBSET Nat
        /\ t \subseteq cycle.todo
        /\ t \cup r = cycle.todo \cup cycle.revoked
    BY <1>2 DEF IInv, TypeOK, Cycle
  <2> HIDE DEF t, r
  <2>2. cycle' = [cycle EXCEPT !.todo = t, !.revoked = r]
    BY <1>1 DEF t, r
  <2>3. cycle \in Cycle
    BY DEF IInv, TypeOK
  <2>4. /\ cycle' \in Cycle
        /\ cycle'.at = cycle.at
        /\ cycle'.todo = t
        /\ cycle'.marked = cycle.marked
        /\ cycle'.revoked = r
    BY <2>1, <2>2, <2>3 DEF Cycle
  <2>5. QED
    BY <2>1, <2>4
<1>4. CycleOK'
  BY <1>3 DEF IInv, CycleOK, RemoveMember, Ids
<1>5. member' \in [Users -> Standings]
  BY DEF RemoveMember, IInv, TypeOK, Standings
<1>6. QED
  BY <1>2, <1>3, <1>4, <1>5, TableUntouched DEF RemoveMember, IInv, TypeOK

\* A failed removal only drops the row from the pass.
LEMMA FailRemovalKeeps ==
  ASSUME IInv, NEW i \in cycle.todo, FailRemoval(i)
  PROVE  IInv'
<1>1. cycle' = [cycle EXCEPT !.todo = cycle.todo \ {i}]
  BY DEF FailRemoval
<1>2. cycle.todo \subseteq Ids
  BY DEF IInv, TypeOK
<1>3. /\ cycle' \in Cycle
      /\ cycle'.at = cycle.at
      /\ cycle'.todo \subseteq cycle.todo
      /\ cycle'.marked = cycle.marked
      /\ cycle'.revoked = cycle.revoked
  BY <1>1 DEF IInv, TypeOK, Cycle, Phases
<1>4. CycleOK'
  BY <1>3 DEF IInv, CycleOK, FailRemoval, Ids
<1>5. member' \in [Users -> Standings] /\ mishaps' \in Nat
  BY DEF FailRemoval, IInv, TypeOK, Standings
<1>6. QED
  BY <1>2, <1>3, <1>4, <1>5, TableUntouched DEF FailRemoval, IInv, TypeOK

\* A pass that raises is forgotten.
LEMMA FailCycleKeeps == ASSUME IInv, FailCycle PROVE IInv'
<1>1. cycle' \in Cycle /\ cycle'.todo = {} /\ CycleOK'
  BY IdleOK DEF IInv, FailCycle
<1>2. QED
  BY <1>1, TableUntouched DEF FailCycle, IInv, TypeOK

\* A restart forgets sessions and pass, and keeps the tables.
LEMMA CrashKeeps == ASSUME IInv, Crash PROVE IInv'
<1>1. cycle' \in Cycle /\ cycle'.todo = {} /\ CycleOK'
  BY IdleOK DEF IInv, Crash
<1>2. QED
  BY <1>1, TableUntouched DEF Crash, IInv, TypeOK

\* The commit of the pass writes its marks and revocations to sound rows.
LEMMA CommitCycleKeeps == ASSUME IInv, CommitCycle PROVE IInv'
<1>1. /\ subs' \in Seq(Row)
      /\ Len(subs') = Len(subs)
      /\ Ids' = Ids
      /\ \A i \in Ids : subs'[i].started = subs[i].started
      /\ RowsOK'
  <2>1. TypeOK /\ RowsOK /\ CycleOK
    BY DEF IInv
  <2>2. QED
    BY <2>1, CommitKeepsRows
<1>2. cycle' \in Cycle /\ cycle'.todo = {} /\ CycleOK'
  BY IdleOK DEF IInv, CommitCycle
<1>3. TypeOK'
  BY <1>1, <1>2 DEF CommitCycle, IInv, TypeOK
<1>4. SessionsOK'
  BY <1>1 DEF CommitCycle, IInv, SessionsOK, SessionOK
<1>5. CreditedOnce'
  BY DEF CommitCycle, IInv, CreditedOnce
<1>6. QED
  BY <1>1, <1>2, <1>3, <1>4, <1>5 DEF IInv

\* Every step keeps the invariant: one lemma per action.
LEMMA StepOK == IInv /\ [Next]_vars => IInv'
<1> SUFFICES ASSUME IInv, [Next]_vars PROVE IInv'
  OBVIOUS
<1>1. CASE UNCHANGED vars
  BY <1>1 DEF vars, IInv, TypeOK, CreditedOnce, RowsOK, SessionsOK, SessionOK, CycleOK, Ids
<1>2. CASE Tick
  BY <1>2, TickKeeps
<1>3. ASSUME NEW c \in Charges, Pay(c) PROVE IInv'
  BY <1>3, PayKeeps
<1>4. ASSUME NEW h \in Handlers, NEW c \in Charges, BeginPayment(h, c) PROVE IInv'
  BY <1>4, BeginPaymentKeeps
<1>5. ASSUME NEW s \in sessions, CommitPayment(s) PROVE IInv'
  BY <1>5, CommitPaymentKeeps
<1>6. ASSUME NEW s \in sessions, RollbackPayment(s) PROVE IInv'
  BY <1>6, RollbackPaymentKeeps
<1>7. ASSUME NEW u \in Users, Join(u) PROVE IInv'
  BY <1>7, JoinKeeps
<1>8. CASE Worker
  <2>1. CASE StartCycle
    BY <2>1, StartCycleKeeps
  <2>2. CASE SendWarnings1
    BY <2>2, SendWarnings1Keeps
  <2>3. CASE SendNotices
    BY <2>3, SendNoticesKeeps
  <2>4. CASE ListRevocations
    BY <2>4, ListRevocationsKeeps
  <2>5. ASSUME NEW i \in cycle.todo, RemoveMember(i) \/ FailRemoval(i) PROVE IInv'
    BY <2>5, RemoveMemberKeeps, FailRemovalKeeps
  <2>6. CASE CommitCycle
    BY <2>6, CommitCycleKeeps
  <2>7. QED
    BY <1>8, <2>1, <2>2, <2>3, <2>4, <2>5, <2>6 DEF Worker
<1>9. CASE FailCycle
  BY <1>9, FailCycleKeeps
<1>10. CASE Crash
  BY <1>10, CrashKeeps
<1>11. QED
  BY <1>1, <1>2, <1>3, <1>4, <1>5, <1>6, <1>7, <1>8, <1>9, <1>10 DEF Next

-----------------------------------------------------------------------------
(* Theorems *)

\* The inductive invariant holds in every reachable state.
THEOREM Invariant == Spec => []IInv
<1>1. Init => IInv
  BY InitOK
<1>2. IInv /\ [Next]_vars => IInv'
  BY StepOK
<1>3. QED
  BY <1>1, <1>2, PTL DEF Spec

\* Every variable has its type: in particular no payment session writes to a row
\* that is not there, and no pass revokes one.
THEOREM TypeCorrect == Spec => []TypeOK
<1>1. IInv => TypeOK
  BY DEF IInv
<1>2. QED
  BY <1>1, Invariant, PTL

\* process_successful_stars_payment and sync_crypto_invoice credit a charge once,
\* however many times and in however many sessions it is notified.
THEOREM Credited == Spec => []CreditedOnce
<1>1. IInv => CreditedOnce
  BY DEF IInv
<1>2. QED
  BY <1>1, Invariant, PTL

\* process_expired_subscriptions never stores a revocation before the period that
\* was first bought and the whole grace period are over, whatever payment
\* sessions with stale rows do between its phases.
THEOREM RevocationIsLate == Spec => []ServedBeforeRevoke
<1>1. IInv => ServedBeforeRevoke
  BY DEF IInv, RowsOK, Sound, ServedBeforeRevoke
<1>2. QED
  BY <1>1, Invariant, PTL

\* The part of ServedBeforeRemoval that one step must respect.
RemovesServed ==
  \A u \in Users : InChannel(u) /\ ~InChannel(u)' =>
    \E i \in RowsOf(u) : now >= subs[i].started + Days + Grace

\* A user is only removed by a pass, on account of a row on its list.
LEMMA StepRemoves ==
  ASSUME IInv, [Next]_vars, NEW u \in Users, InChannel(u), ~InChannel(u)'
  PROVE  \E i \in cycle.todo : (RemoveMember(i) \/ FailRemoval(i)) /\ subs[i].user = u
<1>1. member'[u] # member[u]
  BY DEF InChannel
<1>2. CASE Worker
  <2>1. PICK i \in cycle.todo : RemoveMember(i) \/ FailRemoval(i)
    BY <1>1, <1>2 DEF Worker, StartCycle, SendWarnings1, SendNotices,
                      ListRevocations, CommitCycle, cycleOnly
  <2>2. subs[i].user = u
    BY <1>1, <2>1 DEF RemoveMember, FailRemoval, IInv, TypeOK
  <2>3. QED
    BY <2>1, <2>2
<1>3. CASE \E v \in Users : Join(v)
  <2>1. PICK v \in Users : Join(v)
    BY <1>3
  <2>2. member[v] = "out" /\ member' = [member EXCEPT ![v] = "member"]
    BY <2>1 DEF Join
  <2>3. member'[u] = member[u]
    BY <2>2 DEF InChannel, IInv, TypeOK
  <2>4. QED
    BY <1>1, <2>3
<1>4. QED
  BY <1>1, <1>2, <1>3 DEF Next, Tick, Pay, BeginPayment, CommitPayment,
                          RollbackPayment, FailCycle, Crash, vars

\* remove_user_from_channel is only called for a subscription that was served.
LEMMA StepRemovesServed == IInv /\ [Next]_vars => RemovesServed
<1> SUFFICES ASSUME IInv, [Next]_vars,
                    NEW u \in Users, InChannel(u), ~InChannel(u)'
             PROVE  \E i \in RowsOf(u) : now >= subs[i].started + Days + Grace
  BY DEF RemovesServed
<1>1. PICK i \in cycle.todo : subs[i].user = u
  BY StepRemoves
<1>2. /\ i \in Ids
      /\ subs[i].started + Days + Grace <= cycle.at
      /\ cycle.at <= now
  BY DEF IInv, CycleOK
<1>3. now \in Nat /\ cycle.at \in Nat /\ subs[i].started \in Nat
  BY <1>2, IdsAreNumbers, RowFields DEF IInv, TypeOK, Cycle
<1>4. now >= subs[i].started + Days + Grace
  BY <1>2, <1>3, AccessAssumption
<1>5. QED
  BY <1>1, <1>2, <1>4 DEF RowsOf

\* Nobody is removed from the channel, not even by a pass whose session is later
\* rolled back, except on account of a subscription whose first period and grace
\* period are over.
THEOREM RemovalIsLate == Spec => ServedBeforeRemoval
<1>1. IInv /\ [Next]_vars => RemovesServed
  BY StepRemovesServed
<1>2. RemovesServed => [\A u \in Users : InChannel(u) /\ ~InChannel(u)' =>
         \E i \in RowsOf(u) : now >= subs[i].started + Days + Grace]_vars
  BY DEF RemovesServed
<1>3. QED
  BY <1>1, <1>2, Invariant, PTL DEF Spec, ServedBeforeRemoval

\* The part of RevokedIsFinal that one step must respect.
KeepsRevoked ==
  \A i \in Ids : subs[i].revoked # NoTime =>
    /\ subs'[i].revoked = subs[i].revoked
    /\ subs'[i].status = "expired"

\* A step that writes an old copy of a row writes neither status nor revoked_at.
LEMMA StepKeepsRevoked == IInv /\ [Next]_vars => KeepsRevoked
<1> SUFFICES ASSUME IInv, [Next]_vars PROVE KeepsRevoked
  OBVIOUS
<1>1. IInv'
  BY StepOK
<1>2. /\ Ids \subseteq Ids'
      /\ \A i \in Ids : subs[i].revoked # NoTime => subs'[i].revoked = subs[i].revoked
  <2>1. CASE subs' = subs
    BY <2>1 DEF Ids
  <2>2. ASSUME NEW s \in sessions, CommitPayment(s) PROVE Grows
    BY <2>2, CommitPaymentKeeps
  <2>3. Grows => Ids \subseteq Ids'
    BY <1>1 DEF IInv, TypeOK, Ids, Grows
  <2>4. CASE CommitCycle
    <3>1. TypeOK /\ RowsOK /\ CycleOK
      BY DEF IInv
    <3>2. QED
      BY <2>4, <3>1, CommitKeepsRows
  <2>5. subs' = subs \/ (\E s \in sessions : CommitPayment(s)) \/ CommitCycle
    BY DEF Next, Worker, Tick, Pay, BeginPayment, RollbackPayment, Join, StartCycle,
           SendWarnings1, SendNotices, ListRevocations, RemoveMember, FailRemoval,
           FailCycle, Crash, cycleOnly, vars
  <2>6. QED
    BY <2>1, <2>2, <2>3, <2>4, <2>5 DEF Grows
<1>3. ASSUME NEW i \in Ids, subs[i].revoked # NoTime
      PROVE  subs'[i].revoked = subs[i].revoked /\ subs'[i].status = "expired"
  BY <1>1, <1>2, <1>3 DEF IInv, RowsOK, Sound
<1>4. QED
  BY <1>3 DEF KeepsRevoked

\* A revoked subscription stays revoked and expired: the next payment opens a new
\* row, and an extension decided on a stale copy cannot revive the old one.
THEOREM RevocationIsFinal == Spec => RevokedIsFinal
<1>1. IInv /\ [Next]_vars => KeepsRevoked
  BY StepKeepsRevoked
<1>2. KeepsRevoked => [\A i \in Ids : subs[i].revoked # NoTime =>
                         /\ subs'[i].revoked = subs[i].revoked
                         /\ subs'[i].status = "expired"]_vars
  BY DEF KeepsRevoked
<1>3. QED
  BY <1>1, <1>2, Invariant, PTL DEF Spec, RevokedIsFinal

-----------------------------------------------------------------------------
(* Histories without overlap.                                              *)
(*                                                                         *)
(* While no two sessions overlap, at most one subscription of a user is    *)
(* current, and marks belong to the end that a subscription has now.  The  *)
(* argument: a session's copy of a row is the row, a pass and a payment    *)
(* session are never open together, and so every write starts from what is *)
(* stored.  SInv says this and what follows for the rows; it is inductive  *)
(* together with IInv.                                                     *)

\* No action withdraws overlap, no payment lies in the future, and a pass that is
\* not open holds nothing.
ClockOK ==
  /\ \A c \in Charges : paidAt[c] <= now
  /\ cycle.phase = "idle" => cycle = Idle

\* A payment session is alone.
Alone ==
  /\ \A s, t \in sessions : s = t
  /\ sessions # {} => cycle = Idle

\* What a payment session has read is what is stored.
Fresh(s) ==
  \/ s.id = 0 /\ RowsOf(s.row.user) = {}
  \/ s.id \in Ids /\ IsLatest(s.id, s.row.user) /\ s.row = subs[s.id]

\* The marks of a row belong, at time t, to the end it has.
Timely(row, t) ==
  /\ row.warn3 => row.expires <= t + Warn3
  /\ row.warn1 => row.expires <= t + Warn1
  /\ row.notice => row.expires <= t
  /\ row.grace # NoTime => row.expires <= t /\ row.expires + Grace <= row.grace
  /\ row.revoked # NoTime => row.expires + Grace <= row.revoked /\ row.revoked <= t
  /\ row.status = "expired" => row.expires <= t

\* So do the marks that an open pass is about to write.
PassTimely ==
  /\ \A i \in cycle.warned3 : i \in Ids /\ subs[i].expires <= cycle.at + Warn3
  /\ \A i \in cycle.warned1 : i \in Ids /\ subs[i].expires <= cycle.at + Warn1
  /\ \A i \in cycle.noticed \cup cycle.marked : i \in Ids /\ subs[i].expires <= cycle.at
  /\ \A i \in cycle.todo \cup cycle.revoked : subs[i].expires + Grace <= cycle.at

OneCurrent ==
  \A u \in Users : \A i, j \in RowsOf(u) : IsCurrent(subs[i]) /\ IsCurrent(subs[j]) => i = j

\* A row that was closed for a new one, and not by a pass, is followed by a row that
\* starts after its end.
Followed(i) ==
  \E j \in Ids : /\ subs[j].user = subs[i].user
                 /\ subs[i].expires <= subs[j].started
                 /\ subs[j].status = "active" \/ subs[j].revoked # NoTime
LapsedFollowed ==
  \A i \in Ids : subs[i].status = "expired" /\ subs[i].revoked = NoTime => Followed(i)

RowsTimely == \A i \in Ids : Timely(subs[i], now)
SerialOK == /\ Alone
            /\ \A s \in sessions : Fresh(s)
            /\ RowsTimely
            /\ PassTimely
            /\ OneCurrent
            /\ LapsedFollowed

SInv == ClockOK /\ (overlap \/ SerialOK)

-----------------------------------------------------------------------------
(* Fields of written rows *)

\* The marks and the user of a written row.
LEMMA WrittenMarks ==
  ASSUME NEW stored \in Row, NEW e \in Nat, NEW w3 \in BOOLEAN, NEW w1 \in BOOLEAN,
         NEW n \in BOOLEAN, NEW g \in Moment
  PROVE  /\ Written(stored, e, w3, w1, n, g).user = stored.user
         /\ Written(stored, e, w3, w1, n, g).warn3 = w3
         /\ Written(stored, e, w3, w1, n, g).warn1 = w1
         /\ Written(stored, e, w3, w1, n, g).notice = n
  BY DEF Row, Written

\* An extension of the row as it is stored clears every mark.
LEMMA ExtendedIsUnmarked ==
  ASSUME NEW row \in Row
  PROVE  /\ Extended(row, row).user = row.user
         /\ ~Extended(row, row).warn3
         /\ ~Extended(row, row).warn1
         /\ ~Extended(row, row).notice
         /\ Extended(row, row).grace = NoTime
<1> DEFINE w3 == row.warn3 /\ ~row.warn3
           w1 == row.warn1 /\ ~row.warn1
           n  == row.notice /\ ~row.notice
           g  == IF row.grace # NoTime THEN NoTime ELSE row.grace
           e  == row.expires + Days
<1>1. w3 = FALSE /\ w1 = FALSE /\ n = FALSE /\ g = NoTime
  BY RowFields
<1>2. e \in Nat
  BY RowFields, AccessAssumption
<1>3. Extended(row, row) = Written(row, e, w3, w1, n, g)
  BY Zenon DEF Extended, Written
<1> HIDE DEF w3, w1, n, g, e
<1>4. w3 \in BOOLEAN /\ w1 \in BOOLEAN /\ n \in BOOLEAN /\ g \in Moment
  BY <1>1 DEF Moment
<1>5. /\ Written(row, e, w3, w1, n, g).user = row.user
      /\ Written(row, e, w3, w1, n, g).warn3 = w3
      /\ Written(row, e, w3, w1, n, g).warn1 = w1
      /\ Written(row, e, w3, w1, n, g).notice = n
  BY <1>2, <1>4, WrittenMarks
<1>6. Written(row, e, w3, w1, n, g).grace = g
  BY <1>2, <1>4, WrittenIsRow
<1>7. QED
  BY <1>1, <1>3, <1>5, <1>6, Zenon

\* The marks and the user of a row that a pass has written.
LEMMA PassWrittenMarks ==
  ASSUME NEW stored \in Row, NEW w3 \in BOOLEAN, NEW w1 \in BOOLEAN, NEW n \in BOOLEAN,
         NEW g \in Moment, NEW st \in {"active", "expired"}, NEW rv \in Moment
  PROVE  /\ PassWritten(stored, w3, w1, n, g, st, rv).user = stored.user
         /\ PassWritten(stored, w3, w1, n, g, st, rv).warn3 = w3
         /\ PassWritten(stored, w3, w1, n, g, st, rv).warn1 = w1
         /\ PassWritten(stored, w3, w1, n, g, st, rv).notice = n
  BY DEF Row, PassWritten

\* A pass adds its marks to those of the row.
LEMMA ProcessedMarks ==
  ASSUME TypeOK, NEW i \in Ids
  PROVE  /\ Processed(i).user = subs[i].user
         /\ Processed(i).warn3 = (subs[i].warn3 \/ i \in cycle.warned3)
         /\ Processed(i).warn1 = (subs[i].warn1 \/ i \in cycle.warned1)
         /\ Processed(i).notice = (subs[i].notice \/ i \in cycle.noticed)
<1> DEFINE w3 == subs[i].warn3 \/ i \in cycle.warned3
           w1 == subs[i].warn1 \/ i \in cycle.warned1
           n  == subs[i].notice \/ i \in cycle.noticed
           g  == IF i \in cycle.marked THEN cycle.at + Grace ELSE subs[i].grace
           st == IF i \in cycle.revoked THEN "expired" ELSE subs[i].status
           rv == IF i \in cycle.revoked THEN cycle.at ELSE subs[i].revoked
<1>1. subs[i] \in Row /\ cycle.at \in Nat
  BY IdsAreNumbers DEF TypeOK, Cycle
<1>2. w3 \in BOOLEAN /\ w1 \in BOOLEAN /\ n \in BOOLEAN
  OBVIOUS
<1>3. g \in Moment /\ st \in {"active", "expired"} /\ rv \in Moment
  BY <1>1, RowFields, AccessAssumption DEF Moment
<1>4. Processed(i) = PassWritten(subs[i], w3, w1, n, g, st, rv)
  BY Zenon DEF Processed, PassWritten
<1> DEFINE stored == subs[i]
<1> HIDE DEF stored, w3, w1, n, g, st, rv
<1>5. stored \in Row
  BY <1>1 DEF stored
<1>6. /\ PassWritten(stored, w3, w1, n, g, st, rv).user = stored.user
      /\ PassWritten(stored, w3, w1, n, g, st, rv).warn3 = w3
      /\ PassWritten(stored, w3, w1, n, g, st, rv).warn1 = w1
      /\ PassWritten(stored, w3, w1, n, g, st, rv).notice = n
  BY <1>2, <1>3, <1>5, PassWrittenMarks
<1>7. Processed(i) = PassWritten(stored, w3, w1, n, g, st, rv)
  BY <1>4 DEF stored
<1>8. QED
  BY <1>6, <1>7, Zenon DEF stored, w3, w1, n

-----------------------------------------------------------------------------
(* One lemma for each action that writes the table, one for the others *)

\* The fields of stored rows that the arithmetic below is about.
LEMMA RowNumbers ==
  ASSUME TypeOK
  PROVE  /\ now \in Nat
         /\ cycle.at \in Nat
         /\ Ids \subseteq Nat
         /\ \A i \in Ids : /\ subs[i] \in Row
                           /\ subs[i].user \in Users
                           /\ subs[i].status \in {"active", "expired"}
                           /\ subs[i].started \in Nat
                           /\ subs[i].expires \in Nat
                           /\ subs[i].grace \in Moment
                           /\ subs[i].revoked \in Moment
  BY IdsAreNumbers, RowFields DEF TypeOK, Cycle

\* A revoked row has ended.
LEMMA RevokedHasEnded ==
  ASSUME NEW row \in Row, NEW t \in Nat, Timely(row, t), row.revoked # NoTime
  PROVE  row.expires <= t
<1>1. row.expires \in Nat /\ row.revoked \in Nat
  BY RowFields DEF Moment
<1>2. row.expires + Grace <= row.revoked /\ row.revoked <= t
  BY DEF Timely
<1>3. QED
  BY <1>1, <1>2, AccessAssumption

\* A row has ended when one of at least Days, which started after it, has.
LEMMA EndsBefore ==
  ASSUME NEW e \in Nat, NEW st \in Nat, NEW x \in Nat, NEW t \in Nat,
         e <= st, x >= st + Days, x <= t
  PROVE  e <= t
  BY AccessAssumption

\* Rows that stay as they are stay timely as the clock moves on.
LEMMA StillTimely ==
  ASSUME IInv, SerialOK, subs' = subs, now' \in Nat, now' >= now
  PROVE  RowsTimely' /\ OneCurrent' /\ LapsedFollowed'
<1>1. Ids' = Ids
  BY DEF Ids
<1>2. \A i \in Ids : Timely(subs'[i], now')
  <2> SUFFICES ASSUME NEW i \in Ids PROVE Timely(subs'[i], now')
    OBVIOUS
  <2>1. Timely(subs[i], now)
    BY DEF SerialOK, RowsTimely
  <2>2. now \in Nat /\ subs[i].expires \in Nat /\ subs[i].revoked \in Moment
    BY RowNumbers DEF IInv
  <2>3. QED
    BY <2>1, <2>2, AccessAssumption DEF Timely, Moment, NoTime
<1>3. OneCurrent'
  <2> SUFFICES ASSUME NEW u \in Users, NEW i \in RowsOf(u)', NEW j \in RowsOf(u)',
                      IsCurrent(subs[i])', IsCurrent(subs[j])'
               PROVE  i = j
    BY DEF OneCurrent
  <2>1. i \in RowsOf(u) /\ j \in RowsOf(u) /\ i \in Ids /\ j \in Ids
    BY <1>1 DEF RowsOf
  <2>2. now \in Nat /\ subs[i].expires \in Nat /\ subs[j].expires \in Nat
    BY <2>1, RowNumbers DEF IInv
  <2>3. IsCurrent(subs[i]) /\ IsCurrent(subs[j])
    BY <2>2 DEF IsCurrent, IsLive
  <2>4. QED
    BY <2>1, <2>3 DEF SerialOK, OneCurrent
<1>4. LapsedFollowed'
  BY <1>1 DEF SerialOK, LapsedFollowed, Followed
<1>5. QED
  BY <1>1, <1>2, <1>3, <1>4 DEF RowsTimely

\* Actions that leave the table alone: what they do to sessions and pass is given
\* in parts.
LEMMA SameRowsSerial ==
  ASSUME IInv, SerialOK, subs' = subs, now' \in Nat, now' >= now,
         Alone', \A s \in sessions' : Fresh(s)', PassTimely'
  PROVE  SerialOK'
  BY StillTimely DEF SerialOK

\* The sessions that stay open have still read what is stored.
LEMMA StillFresh ==
  ASSUME SerialOK, subs' = subs, sessions' \subseteq sessions
  PROVE  \A s \in sessions' : Fresh(s)'
<1>1. Ids' = Ids /\ \A u : RowsOf(u)' = RowsOf(u)
  BY DEF Ids, RowsOf
<1>2. QED
  BY <1>1 DEF SerialOK, Fresh, IsLatest

\* A pass that holds nothing, or less than before, is timely.
LEMMA StillPassTimely ==
  ASSUME PassTimely, subs' = subs, cycle'.at = cycle.at,
         cycle'.warned3 \subseteq cycle.warned3, cycle'.warned1 \subseteq cycle.warned1,
         cycle'.noticed \subseteq cycle.noticed, cycle'.marked \subseteq cycle.marked,
         cycle'.todo \cup cycle'.revoked \subseteq cycle.todo \cup cycle.revoked
  PROVE  PassTimely'
  BY DEF PassTimely, Ids

\* Nothing is held by a pass that is not open.
LEMMA IdlePassTimely == ASSUME cycle' = Idle PROVE PassTimely'
  BY DEF PassTimely, Idle

\* activate_or_extend_subscription, working on the row as it is stored.
LEMMA ExtensionSerial ==
  ASSUME IInv, SerialOK, NEW k \in Ids, NEW u \in Users, IsLatest(k, u), IsLive(subs[k]),
         subs' = [subs EXCEPT ![k] = Extended(subs[k], subs[k])], now' = now
  PROVE  RowsTimely' /\ OneCurrent' /\ LapsedFollowed'
<1> DEFINE new == Extended(subs[k], subs[k])
<1>1. /\ new.user = subs[k].user
      /\ new.status = "active"
      /\ new.started = subs[k].started
      /\ new.expires = subs[k].expires + Days
      /\ ~new.warn3 /\ ~new.warn1 /\ ~new.notice
      /\ new.grace = NoTime
      /\ new.revoked = NoTime
  <2>1. subs[k] \in Row
    BY RowNumbers DEF IInv
  <2>2. QED
    BY <2>1, ExtendedIsRow, ExtendedIsUnmarked DEF IsLive
<1>2. Ids' = Ids /\ subs'[k] = new /\ \A i \in Ids \ {k} : subs'[i] = subs[i]
  BY IdsAreNumbers DEF Ids, IInv
<1> HIDE DEF new
<1>3. RowsTimely'
  <2>1. Timely(subs'[k], now')
    BY <1>1, <1>2 DEF Timely
  <2>2. \A i \in Ids \ {k} : Timely(subs'[i], now')
    BY <1>2 DEF SerialOK, RowsTimely, Timely
  <2>3. QED
    BY <1>2, <2>1, <2>2 DEF RowsTimely
<1>4. OneCurrent'
  <2> SUFFICES ASSUME NEW v \in Users, NEW i \in RowsOf(v)', NEW j \in RowsOf(v)',
                      IsCurrent(subs[i])', IsCurrent(subs[j])', i # j
               PROVE  FALSE
    BY DEF OneCurrent
  <2>1. i \in Ids /\ j \in Ids /\ i \in RowsOf(v) /\ j \in RowsOf(v)
    BY <1>1, <1>2 DEF RowsOf
  <2>2. \A m \in Ids \ {k} : IsCurrent(subs[m])' => IsCurrent(subs[m])
    BY <1>2 DEF IsCurrent, IsLive
  <2>3. ASSUME NEW m \in Ids \ {k}, m \in RowsOf(v), k \in RowsOf(v), IsCurrent(subs[m])
        PROVE  IsCurrent(subs[k])
    <3>1. v = u
      BY <2>3 DEF IsLatest, RowsOf
    <3>2. subs[m].expires <= subs[k].expires
      BY <2>3, <3>1, RowNumbers DEF IsLatest, IInv
    <3>3. subs[m].expires > now
      BY <2>3 DEF IsCurrent
    <3>4. subs[k].expires > now
      BY <2>3, <3>2, <3>3, RowNumbers DEF IInv
    <3>5. QED
      BY <3>4 DEF IsCurrent
  <2>4. QED
    BY <2>1, <2>2, <2>3 DEF SerialOK, OneCurrent
<1>5. LapsedFollowed'
  <2> SUFFICES ASSUME NEW i \in Ids, subs'[i].status = "expired", subs'[i].revoked = NoTime
               PROVE  Followed(i)'
    BY <1>2 DEF LapsedFollowed
  <2>1. i # k /\ subs'[i] = subs[i]
    BY <1>1, <1>2
  <2>2. PICK j \in Ids : /\ subs[j].user = subs[i].user
                         /\ subs[i].expires <= subs[j].started
                         /\ subs[j].status = "active" \/ subs[j].revoked # NoTime
    BY <2>1 DEF SerialOK, LapsedFollowed, Followed
  <2>3. /\ subs'[j].user = subs[j].user
        /\ subs'[j].started = subs[j].started
        /\ subs'[j].status = "active" \/ subs'[j].revoked # NoTime
    BY <1>1, <1>2, <2>2
  <2>4. QED
    BY <1>2, <2>1, <2>2, <2>3 DEF Followed
<1>6. QED
  BY <1>3, <1>4, <1>5

\* The same without a subscription to extend: the latest one, which is not current
\* any more, may be closed, and a new one is added.
LEMMA NewRowSerial ==
  ASSUME IInv, SerialOK, NEW u \in Users, NEW at \in Nat, at <= now, now' = now,
         NEW lapsed, NEW k \in Nat,
         \/ lapsed = subs /\ RowsOf(u) = {}
         \/ lapsed = subs /\ IsLatest(k, u) /\ ~Extends(subs[k], at) /\ ~(subs[k].expires <= at /\ IsLive(subs[k]))
         \/ /\ lapsed = [subs EXCEPT ![k].status = "expired"]
            /\ IsLatest(k, u)
            /\ subs[k].expires <= at
            /\ IsLive(subs[k]),
         subs' = Append(lapsed, NewRow(u, at))
  PROVE  RowsTimely' /\ OneCurrent' /\ LapsedFollowed'
<1> DEFINE n == Len(subs) + 1
           new == NewRow(u, at)
           closed(i) == i = k /\ IsLatest(k, u) /\ subs[k].expires <= at /\ IsLive(subs[k])
<1>1. Ids = 1 .. Len(subs) /\ Len(subs) \in Nat /\ \A i \in Ids : subs[i] \in Row
  BY IdsAreNumbers DEF IInv
<1>2. /\ Len(lapsed) = Len(subs)
      /\ lapsed \in Seq(Row)
      /\ \A i \in Ids : /\ lapsed[i].user = subs[i].user
                        /\ lapsed[i].started = subs[i].started
                        /\ lapsed[i].expires = subs[i].expires
                        /\ lapsed[i].warn3 = subs[i].warn3
                        /\ lapsed[i].warn1 = subs[i].warn1
                        /\ lapsed[i].notice = subs[i].notice
                        /\ lapsed[i].grace = subs[i].grace
                        /\ lapsed[i].revoked = subs[i].revoked
                        /\ \/ lapsed[i].status = subs[i].status
                           \/ lapsed[i].status = "expired" /\ closed(i)
  <2>1. CASE lapsed = subs
    BY <2>1 DEF IInv, TypeOK
  <2>2. CASE /\ lapsed = [subs EXCEPT ![k].status = "expired"]
             /\ IsLatest(k, u)
             /\ subs[k].expires <= at
             /\ IsLive(subs[k])
    <3>1. k \in Ids
      BY <2>2 DEF IsLatest, RowsOf
    <3> DEFINE shut == [subs[k] EXCEPT !.status = "expired"]
    <3>2. /\ shut \in Row
          /\ shut.user = subs[k].user
          /\ shut.started = subs[k].started
          /\ shut.expires = subs[k].expires
          /\ shut.warn3 = subs[k].warn3
          /\ shut.warn1 = subs[k].warn1
          /\ shut.notice = subs[k].notice
          /\ shut.grace = subs[k].grace
          /\ shut.revoked = subs[k].revoked
          /\ shut.status = "expired"
      BY <1>1, <3>1 DEF Row
    <3>3. lapsed = [subs EXCEPT ![k] = shut]
      BY <2>2
    <3> HIDE DEF shut
    <3>4. /\ lapsed \in Seq(Row)
          /\ Len(lapsed) = Len(subs)
          /\ lapsed[k] = shut
          /\ \A i \in Ids \ {k} : lapsed[i] = subs[i]
      BY <1>1, <3>1, <3>2, <3>3 DEF IInv, TypeOK
    <3>5. QED
      BY <2>2, <3>2, <3>4
  <2>3. QED
    BY <2>1, <2>2
<1>3. /\ new \in Row
      /\ new.user = u
      /\ new.status = "active"
      /\ new.started = at
      /\ ~new.warn3 /\ ~new.warn1 /\ ~new.notice
      /\ new.grace = NoTime
      /\ new.revoked = NoTime
  BY NewRowIsSound DEF NewRow
<1> HIDE DEF new
<1>4. /\ Ids' = Ids \cup {n}
      /\ subs'[n] = new
      /\ n \notin Ids
      /\ \A i \in Ids : subs'[i] = lapsed[i]
  <2>1. subs' = Append(lapsed, new)
    BY DEF new
  <2>2. QED
    BY <1>1, <1>2, <1>3, <2>1 DEF Ids
<1>5. \A i \in Ids : closed(i) => subs[i].expires <= now
  BY <1>1, RowNumbers DEF IInv
<1>6. RowsTimely'
  <2>1. ASSUME NEW i \in Ids PROVE Timely(subs'[i], now')
    <3>1. Timely(subs[i], now)
      BY DEF SerialOK, RowsTimely
    <3> DEFINE row == subs'[i]
               old == subs[i]
    <3>2. /\ row.expires = old.expires
          /\ row.warn3 = old.warn3
          /\ row.warn1 = old.warn1
          /\ row.notice = old.notice
          /\ row.grace = old.grace
          /\ row.revoked = old.revoked
          /\ row.status = old.status \/ old.expires <= now
      BY <1>2, <1>4, <1>5
    <3> HIDE DEF row, old
    <3>3. Timely(old, now)
      BY <3>1 DEF old
    <3>4. Timely(row, now')
      BY <3>2, <3>3 DEF Timely, row
    <3>5. QED
      BY <3>4 DEF row
  <2>2. Timely(subs'[n], now')
    BY <1>3, <1>4 DEF Timely
  <2>3. QED
    BY <1>4, <2>1, <2>2 DEF RowsTimely
<1>7. OneCurrent'
  <2> SUFFICES ASSUME NEW v \in Users, NEW i \in RowsOf(v)', NEW j \in RowsOf(v)',
                      IsCurrent(subs[i])', IsCurrent(subs[j])', i # j
               PROVE  FALSE
    BY DEF OneCurrent
  <2>1. ASSUME NEW m \in Ids, m \in RowsOf(v)', IsCurrent(subs[m])'
        PROVE  m \in RowsOf(v) /\ IsCurrent(subs[m])
    <3>1. /\ subs'[m].status = "active" => subs[m].status = "active"
          /\ subs'[m].expires = subs[m].expires
          /\ subs'[m].revoked = subs[m].revoked
          /\ subs'[m].user = subs[m].user
      BY <1>2, <1>4
    <3>2. QED
      BY <2>1, <3>1 DEF RowsOf, IsCurrent, IsLive
  <2>2. ASSUME NEW m \in Ids, m \in RowsOf(v)', n \in RowsOf(v)', IsCurrent(subs[m])'
        PROVE  FALSE
    <3>1. m \in RowsOf(v) /\ IsCurrent(subs[m]) /\ v = u
      BY <1>3, <1>4, <2>1, <2>2 DEF RowsOf
    <3>2. IsLatest(k, u) /\ k \in Ids /\ subs[m].expires <= subs[k].expires
      BY <3>1, RowNumbers DEF IsLatest, RowsOf, IInv
    <3>3. subs[k].expires > now
      BY <3>1, <3>2, RowNumbers DEF IsCurrent, IInv
    <3>4. ~IsLive(subs[k])
      BY <3>1, <3>2, <3>3, RowNumbers DEF Extends, IInv
    <3>5. Timely(subs[k], now)
      BY <3>2 DEF SerialOK, RowsTimely
    <3>6. subs[k].expires <= now
      <4>1. /\ subs[k].expires \in Nat
            /\ now \in Nat
            /\ subs[k].status \in {"active", "expired"}
            /\ subs[k].revoked = NoTime \/ subs[k].revoked \in Nat
        BY <3>2, RowNumbers DEF IInv, Moment
      <4>2. CASE subs[k].status = "expired"
        BY <3>5, <4>2 DEF Timely
      <4>3. CASE subs[k].revoked # NoTime
        BY <1>1, <3>2, <3>5, <4>1, <4>3, RevokedHasEnded
      <4>4. QED
        BY <3>4, <4>1, <4>2, <4>3 DEF IsLive
    <3>7. QED
      BY <3>2, <3>3, <3>6, RowNumbers DEF IInv
  <2>3. CASE i \in Ids /\ j \in Ids
    BY <2>1, <2>3 DEF SerialOK, OneCurrent
  <2>4. CASE i = n
    BY <1>4, <2>2, <2>4 DEF RowsOf
  <2>5. CASE j = n
    BY <1>4, <2>2, <2>5 DEF RowsOf
  <2>6. QED
    BY <1>4, <2>3, <2>4, <2>5 DEF RowsOf
<1>8. LapsedFollowed'
  <2> SUFFICES ASSUME NEW i \in Ids, subs'[i].status = "expired", subs'[i].revoked = NoTime
               PROVE  Followed(i)'
    BY <1>3, <1>4 DEF LapsedFollowed
  <2>1. subs'[i].user = subs[i].user /\ subs'[i].expires = subs[i].expires
    BY <1>2, <1>4
  <2>2. CASE closed(i)
    <3>1. subs[i].user = u /\ subs[i].expires <= at
      BY <2>2 DEF IsLatest, RowsOf
    <3>2. QED
      BY <1>3, <1>4, <2>1, <3>1 DEF Followed
  <2>3. CASE ~closed(i)
    <3>1. subs[i].status = "expired" /\ subs[i].revoked = NoTime
      BY <1>2, <1>4, <2>3
    <3>2. PICK j \in Ids : /\ subs[j].user = subs[i].user
                           /\ subs[i].expires <= subs[j].started
                           /\ subs[j].status = "active" \/ subs[j].revoked # NoTime
      BY <3>1 DEF SerialOK, LapsedFollowed, Followed
    <3>3. subs'[j].user = subs[j].user /\ subs'[j].started = subs[j].started
      BY <1>2, <1>4
    <3>4. CASE subs'[j].status = "active" \/ subs'[j].revoked # NoTime
      BY <1>4, <2>1, <3>2, <3>3, <3>4 DEF Followed
    <3>5. CASE subs'[j].status # "active" /\ subs'[j].revoked = NoTime
      <4>1. closed(j)
        BY <1>2, <1>4, <3>2, <3>5
      <4>2. subs[j].user = u /\ subs[j].expires <= at
        BY <4>1 DEF IsLatest, RowsOf
      <4>3. subs[j].expires >= subs[j].started + Days
        BY DEF IInv, RowsOK, Sound
      <4>4. subs[i].expires <= at
        <5>1. /\ subs[i].expires \in Nat
              /\ subs[j].expires \in Nat
              /\ subs[j].started \in Nat
          BY RowNumbers DEF IInv
        <5>2. QED
          BY <3>2, <4>2, <4>3, <5>1, EndsBefore
      <4>5. QED
        BY <1>3, <1>4, <2>1, <3>2, <4>2, <4>4 DEF Followed
    <3>6. QED
      BY <3>4, <3>5
  <2>4. QED
    BY <2>2, <2>3
<1>9. QED
  BY <1>6, <1>7, <1>8

\* The commit of a pass, which no payment session overlaps.
LEMMA CommitCycleSerial ==
  ASSUME IInv, SerialOK, CommitCycle
  PROVE  RowsTimely' /\ OneCurrent' /\ LapsedFollowed'
<1>1. Ids' = Ids /\ \A i \in Ids : subs'[i] = Processed(i)
  <2>1. Ids' = Ids
    BY CommitKeepsRows DEF IInv
  <2>2. subs' = [i \in Ids |-> Processed(i)]
    BY DEF CommitCycle
  <2>3. QED
    BY <2>1, <2>2
<1>2. now' = now /\ now \in Nat /\ cycle.at \in Nat /\ cycle.at <= now
  BY RowNumbers DEF CommitCycle, IInv, CycleOK
<1>3. \A i \in Ids :
        /\ subs'[i].user = subs[i].user
        /\ subs'[i].started = subs[i].started
        /\ subs'[i].expires = subs[i].expires
        /\ subs'[i].warn3 = (subs[i].warn3 \/ i \in cycle.warned3)
        /\ subs'[i].warn1 = (subs[i].warn1 \/ i \in cycle.warned1)
        /\ subs'[i].notice = (subs[i].notice \/ i \in cycle.noticed)
        /\ subs'[i].grace = IF i \in cycle.marked THEN cycle.at + Grace ELSE subs[i].grace
        /\ subs'[i].status = IF i \in cycle.revoked THEN "expired" ELSE subs[i].status
        /\ subs'[i].revoked = IF i \in cycle.revoked THEN cycle.at ELSE subs[i].revoked
  BY <1>1, ProcessedIsRow, ProcessedMarks DEF IInv
<1>4. RowsTimely'
  <2> SUFFICES ASSUME NEW i \in Ids PROVE Timely(subs'[i], now')
    BY <1>1 DEF RowsTimely
  <2> DEFINE row == subs'[i]
             old == subs[i]
  <2>1. /\ row.expires = old.expires
        /\ row.warn3 = (old.warn3 \/ i \in cycle.warned3)
        /\ row.warn1 = (old.warn1 \/ i \in cycle.warned1)
        /\ row.notice = (old.notice \/ i \in cycle.noticed)
        /\ row.grace = IF i \in cycle.marked THEN cycle.at + Grace ELSE old.grace
        /\ row.status = IF i \in cycle.revoked THEN "expired" ELSE old.status
        /\ row.revoked = IF i \in cycle.revoked THEN cycle.at ELSE old.revoked
    BY <1>3
  <2>2. Timely(old, now) /\ old.expires \in Nat
    BY RowNumbers DEF SerialOK, RowsTimely, IInv
  <2>3. /\ i \in cycle.warned3 => old.expires <= cycle.at + Warn3
        /\ i \in cycle.warned1 => old.expires <= cycle.at + Warn1
        /\ i \in cycle.noticed \cup cycle.marked => old.expires <= cycle.at
        /\ i \in cycle.revoked => old.expires + Grace <= cycle.at
    BY DEF SerialOK, PassTimely
  <2> HIDE DEF row, old
  <2>4. /\ row.warn3 => row.expires <= now + Warn3
        /\ row.warn1 => row.expires <= now + Warn1
        /\ row.notice => row.expires <= now
    <3>1. /\ i \in cycle.warned3 => old.expires <= now + Warn3
          /\ i \in cycle.warned1 => old.expires <= now + Warn1
          /\ i \in cycle.noticed => old.expires <= now
      BY <1>2, <2>2, <2>3, AccessAssumption
    <3>2. /\ old.warn3 => old.expires <= now + Warn3
          /\ old.warn1 => old.expires <= now + Warn1
          /\ old.notice => old.expires <= now
      BY <2>2 DEF Timely
    <3>3. QED
      BY <2>1, <3>1, <3>2, Zenon
  <2>5. row.grace # NoTime => row.expires <= now /\ row.expires + Grace <= row.grace
    BY <1>2, <2>1, <2>2, <2>3, AccessAssumption DEF Timely
  <2>6. /\ row.revoked # NoTime => row.expires + Grace <= row.revoked /\ row.revoked <= now
        /\ row.status = "expired" => row.expires <= now
    BY <1>2, <2>1, <2>2, <2>3, AccessAssumption DEF Timely
  <2>7. Timely(row, now')
    BY <1>2, <2>4, <2>5, <2>6 DEF Timely
  <2>8. QED
    BY <2>7 DEF row
<1>5. OneCurrent'
  <2> SUFFICES ASSUME NEW u \in Users, NEW i \in RowsOf(u)', NEW j \in RowsOf(u)',
                      IsCurrent(subs[i])', IsCurrent(subs[j])'
               PROVE  i = j
    BY DEF OneCurrent
  <2>1. \A m \in Ids : m \in RowsOf(u)' /\ IsCurrent(subs[m])' =>
                         m \in RowsOf(u) /\ IsCurrent(subs[m])
    <3> SUFFICES ASSUME NEW m \in Ids, m \in RowsOf(u)', IsCurrent(subs[m])'
                 PROVE  m \in RowsOf(u) /\ IsCurrent(subs[m])
      OBVIOUS
    <3>1. subs'[m].status = "active" /\ subs'[m].revoked = NoTime /\ subs'[m].expires > now
      BY <1>2 DEF IsCurrent, IsLive
    <3>2. subs[m].status = "active" /\ subs[m].revoked = NoTime /\ subs[m].expires > now
      BY <1>3, <3>1
    <3>3. QED
      BY <1>3, <3>2 DEF RowsOf, IsCurrent, IsLive
  <2>2. QED
    BY <1>1, <2>1 DEF SerialOK, OneCurrent, RowsOf
<1>6. LapsedFollowed'
  <2> SUFFICES ASSUME NEW i \in Ids, subs'[i].status = "expired", subs'[i].revoked = NoTime
               PROVE  Followed(i)'
    BY <1>1 DEF LapsedFollowed
  <2>1. i \notin cycle.revoked
    BY <1>2, <1>3 DEF NoTime
  <2>2. subs[i].status = "expired" /\ subs[i].revoked = NoTime
    BY <1>3, <2>1
  <2>3. PICK j \in Ids : /\ subs[j].user = subs[i].user
                         /\ subs[i].expires <= subs[j].started
                         /\ subs[j].status = "active" \/ subs[j].revoked # NoTime
    BY <2>2 DEF SerialOK, LapsedFollowed, Followed
  <2>4. subs'[j].status = "active" \/ subs'[j].revoked # NoTime
    BY <1>2, <1>3, <2>3 DEF NoTime
  <2>5. QED
    BY <1>1, <1>3, <2>3, <2>4 DEF Followed
<1>7. QED
  BY <1>4, <1>5, <1>6

-----------------------------------------------------------------------------
(* The invariant: it holds at the start, and every step keeps it *)

\* At the start there is nothing.
LEMMA SerialInit == Init => SInv
<1> SUFFICES ASSUME Init PROVE SInv
  OBVIOUS
<1>1. Ids = {} /\ sessions = {} /\ cycle = Idle
  BY DEF Init, Ids
<1>2. ClockOK
  BY AccessAssumption DEF Init, ClockOK, NoTime
<1>3. SerialOK
  BY <1>1 DEF SerialOK, Alone, RowsTimely, PassTimely, Idle, OneCurrent, RowsOf, LapsedFollowed
<1>4. QED
  BY <1>2, <1>3 DEF SInv

\* The clock and the pass that is not open, in every history.
LEMMA ClockStep == ASSUME IInv, ClockOK, [Next]_vars PROVE ClockOK'
<1>1. now \in Nat /\ paidAt \in [Charges -> Moment]
  BY DEF IInv, TypeOK
<1>2. CASE UNCHANGED <<now, paidAt, cycle>>
  BY <1>2 DEF ClockOK
<1>3. CASE Tick
  BY <1>1, <1>3 DEF ClockOK, Tick, Moment, NoTime
<1>4. ASSUME NEW c \in Charges, Pay(c) PROVE ClockOK'
  BY <1>1, <1>4 DEF ClockOK, Pay, Moment, NoTime
<1>5. CASE now' = now /\ paidAt' = paidAt /\ cycle' = Idle
  BY <1>5 DEF ClockOK
<1>6. CASE StartCycle
  BY <1>6 DEF ClockOK, StartCycle, cycleOnly, Idle
<1>7. CASE SendWarnings1
  BY <1>7 DEF ClockOK, SendWarnings1, cycleOnly, IInv, TypeOK, Cycle
<1>8. CASE SendNotices
  BY <1>8 DEF ClockOK, SendNotices, cycleOnly, IInv, TypeOK, Cycle
<1>9. CASE ListRevocations
  BY <1>9 DEF ClockOK, ListRevocations, cycleOnly, IInv, TypeOK, Cycle
<1>10. ASSUME NEW i \in cycle.todo, RemoveMember(i) \/ FailRemoval(i) PROVE ClockOK'
  <2>1. cycle.phase = "remove" /\ cycle'.phase = cycle.phase
    BY <1>10 DEF RemoveMember, FailRemoval, IInv, TypeOK, Cycle
  <2>2. now' = now /\ paidAt' = paidAt
    BY <1>10 DEF RemoveMember, FailRemoval
  <2>3. QED
    BY <2>1, <2>2 DEF ClockOK
<1>11. \/ UNCHANGED <<now, paidAt, cycle>>
       \/ Tick
       \/ \E c \in Charges : Pay(c)
       \/ now' = now /\ paidAt' = paidAt /\ cycle' = Idle
       \/ StartCycle \/ SendWarnings1 \/ SendNotices \/ ListRevocations
       \/ \E i \in cycle.todo : RemoveMember(i) \/ FailRemoval(i)
  BY DEF Next, vars, Worker, BeginPayment, CommitPayment, RollbackPayment, Join,
         CommitCycle, FailCycle, Crash
<1>12. QED
  BY <1>2, <1>3, <1>4, <1>5, <1>6, <1>7, <1>8, <1>9, <1>10, <1>11

\* A payment session opens alone, or the histories are no longer serial.
LEMMA BeginPaymentSerial ==
  ASSUME IInv, ClockOK, SerialOK, NEW h \in Handlers, NEW c \in Charges, BeginPayment(h, c),
         ~overlap'
  PROVE  SerialOK'
<1>1. sessions = {} /\ cycle = Idle /\ cycle' = Idle
  BY DEF BeginPayment, ClockOK
<1>2. /\ subs' = subs /\ now' = now /\ Ids' = Ids
      /\ \A u : RowsOf(u)' = RowsOf(u)
      /\ \A u, i : IsLatest(i, u)' = IsLatest(i, u)
  BY DEF BeginPayment, Ids, RowsOf, IsLatest
<1>3. PICK s : sessions' = {s} /\ Fresh(s)
  <2> DEFINE u == Owner[c]
             empty == [handler |-> h, charge |-> c, id |-> 0, row |-> NoRow(u)]
             copy(i) == [handler |-> h, charge |-> c, id |-> i, row |-> subs[i]]
  <2>1. CASE RowsOf(u) = {} /\ sessions' = sessions \cup {empty}
    <3>1. Fresh(empty)
      BY <2>1 DEF Fresh, NoRow
    <3>2. QED
      BY <1>1, <2>1, <3>1
  <2>2. ASSUME NEW i \in Ids, IsLatest(i, u), sessions' = sessions \cup {copy(i)}
        PROVE  \E s : sessions' = {s} /\ Fresh(s)
    <3>1. Fresh(copy(i))
      BY <2>2 DEF Fresh, IsLatest, RowsOf
    <3>2. QED
      BY <1>1, <2>2, <3>1
  <2>3. QED
    BY <2>1, <2>2 DEF BeginPayment
<1>4. Alone' /\ \A t \in sessions' : Fresh(t)'
  BY <1>1, <1>2, <1>3 DEF Alone, Fresh
<1>5. PassTimely'
  BY <1>1, IdlePassTimely
<1>6. QED
  BY <1>2, <1>4, <1>5, SameRowsSerial, RowNumbers DEF IInv

\* A payment session that is alone extends the row as it is, or adds one.
LEMMA CommitPaymentSerial ==
  ASSUME IInv, ClockOK, SerialOK, NEW s \in sessions, CommitPayment(s)
  PROVE  SerialOK'
<1>1. sessions' = {} /\ cycle' = Idle /\ now' = now
  BY DEF CommitPayment, SerialOK, Alone
<1>2. Alone' /\ PassTimely' /\ \A t \in sessions' : Fresh(t)'
  BY <1>1, IdlePassTimely DEF Alone
<1>3. RowsTimely' /\ OneCurrent' /\ LapsedFollowed'
  <2> DEFINE at == paidAt[s.charge]
             u  == s.row.user
  <2>1. /\ s \in Session /\ u \in Users /\ SessionOK(s)
        /\ at \in Nat /\ at <= now
        /\ Fresh(s)
    BY RowFields DEF IInv, TypeOK, SessionsOK, Session, Moment, ClockOK, SerialOK
  <2>2. CASE subs' = subs
    BY <1>1, <2>2, StillTimely, RowNumbers DEF IInv
  <2>3. CASE ActivateOrExtend(s)
    <3>1. CASE Extends(s.row, at)
      <4>1. s.id \in Ids /\ IsLatest(s.id, u) /\ s.row = subs[s.id]
        <5>1. 0 \notin Ids
          BY IdsAreNumbers DEF IInv
        <5>2. s.row.status # "expired"
          BY <3>1 DEF Extends, IsLive
        <5>3. QED
          BY <2>1, <5>1, <5>2 DEF Fresh, SessionOK
      <4>2. IsLive(subs[s.id])
            /\ subs' = [subs EXCEPT ![s.id] = Extended(subs[s.id], subs[s.id])]
        BY <2>3, <3>1, <4>1 DEF ActivateOrExtend, Extends
      <4>3. QED
        BY <1>1, <2>1, <4>1, <4>2, ExtensionSerial
    <3>2. CASE ~Extends(s.row, at)
      <4> DEFINE lapsed == IF Lapses(s.row, at) /\ s.row.status = "active"
                           THEN [subs EXCEPT ![s.id].status = "expired"]
                           ELSE subs
      <4>1. subs' = Append(lapsed, NewRow(u, at))
        BY <2>3, <3>2 DEF ActivateOrExtend
      <4>2. s.id \in Nat
        BY <2>1 DEF Session
      <4>3. \/ lapsed = subs /\ RowsOf(u) = {}
            \/ lapsed = subs /\ IsLatest(s.id, u) /\ ~Extends(subs[s.id], at)
               /\ ~(subs[s.id].expires <= at /\ IsLive(subs[s.id]))
            \/ /\ lapsed = [subs EXCEPT ![s.id].status = "expired"]
               /\ IsLatest(s.id, u)
               /\ subs[s.id].expires <= at
               /\ IsLive(subs[s.id])
        <5>1. CASE s.id = 0 /\ RowsOf(u) = {}
          <6>1. 0 \notin Ids
            BY IdsAreNumbers DEF IInv
          <6>2. ~Lapses(s.row, at)
            BY <2>1, <5>1, <6>1 DEF SessionOK, Lapses
          <6>3. QED
            BY <5>1, <6>2
        <5>2. CASE IsLatest(s.id, u) /\ s.row = subs[s.id]
          BY <3>2, <5>2 DEF Lapses, IsLive
        <5>3. QED
          BY <2>1, <5>1, <5>2 DEF Fresh
      <4> HIDE DEF lapsed
      <4>4. QED
        BY <1>1, <2>1, <4>1, <4>2, <4>3, NewRowSerial
    <3>3. QED
      BY <3>1, <3>2
  <2>4. QED
    BY <2>2, <2>3 DEF CommitPayment
<1>4. QED
  BY <1>2, <1>3 DEF SerialOK

\* The phases of a pass, each of which only holds rows that are due, and no payment
\* session is open.
LEMMA StartCycleSerial ==
  ASSUME IInv, SerialOK, StartCycle, ~overlap'
  PROVE  SerialOK'
<1>1. sessions' = {} /\ subs' = subs /\ now' = now /\ now \in Nat
  BY RowNumbers DEF StartCycle, cycleOnly, IInv
<1>2. PICK batch \in Batches(DueForWarning3(now), Ends) : \E sent \in SUBSET batch :
        cycle' = [Idle EXCEPT !.phase = "warn1", !.at = now, !.warned3 = sent]
  BY DEF StartCycle
<1>3. PICK sent \in SUBSET batch :
        cycle' = [Idle EXCEPT !.phase = "warn1", !.at = now, !.warned3 = sent]
  BY <1>2
<1>4. /\ cycle'.at = now
      /\ cycle'.warned3 = sent
      /\ cycle'.warned1 = {} /\ cycle'.noticed = {} /\ cycle'.marked = {}
      /\ cycle'.todo = {} /\ cycle'.revoked = {}
  BY <1>3 DEF Idle
<1>5. \A i \in sent : i \in Ids /\ subs[i].expires <= now + Warn3
  BY BatchIsDue DEF DueForWarning3
<1>6. PassTimely'
  BY <1>1, <1>4, <1>5 DEF PassTimely, Ids
<1>7. Alone' /\ \A s \in sessions' : Fresh(s)'
  BY <1>1 DEF Alone
<1>8. QED
  BY <1>1, <1>6, <1>7, SameRowsSerial

\* A pass that is open has no payment session beside it.
LEMMA PassIsAlone ==
  ASSUME SerialOK, cycle.phase # "idle"
  PROVE  sessions = {}
  BY DEF SerialOK, Alone, Idle

\* An open pass that goes on, without a session and with rows that are due.
LEMMA PhaseSerial ==
  ASSUME IInv, SerialOK, cycle.phase # "idle", sessions' = sessions, subs' = subs,
         now' = now, PassTimely'
  PROVE  SerialOK'
<1>1. sessions' = {} /\ now \in Nat
  BY PassIsAlone, RowNumbers DEF IInv
<1>2. Alone' /\ \A s \in sessions' : Fresh(s)'
  BY <1>1 DEF Alone
<1>3. QED
  BY <1>1, <1>2, SameRowsSerial

\* The 1-day warnings.
LEMMA SendWarnings1Serial ==
  ASSUME IInv, SerialOK, SendWarnings1
  PROVE  SerialOK'
<1>1. PICK batch \in Batches(DueForWarning1(cycle.at), Ends) : \E sent \in SUBSET batch :
        cycle' = [cycle EXCEPT !.phase = "notice", !.warned1 = sent]
  BY DEF SendWarnings1
<1>2. PICK sent \in SUBSET batch :
        cycle' = [cycle EXCEPT !.phase = "notice", !.warned1 = sent]
  BY <1>1
<1>3. /\ cycle'.at = cycle.at
      /\ cycle'.warned3 = cycle.warned3
      /\ cycle'.warned1 = sent
      /\ cycle'.noticed = cycle.noticed
      /\ cycle'.marked = cycle.marked
      /\ cycle'.todo = cycle.todo
      /\ cycle'.revoked = cycle.revoked
  BY <1>2 DEF IInv, TypeOK, Cycle
<1>4. \A i \in sent : i \in Ids /\ subs[i].expires <= cycle.at + Warn1
  BY BatchIsDue DEF DueForWarning1
<1>5. PassTimely'
  BY <1>3, <1>4 DEF PassTimely, SerialOK, SendWarnings1, cycleOnly, Ids
<1>6. QED
  BY <1>5, PhaseSerial DEF SendWarnings1, cycleOnly

\* The notices, which start the grace period.
LEMMA SendNoticesSerial ==
  ASSUME IInv, SerialOK, SendNotices
  PROVE  SerialOK'
<1>1. PICK batch \in Batches(DueForNotice(cycle.at), Ends) : \E sent \in SUBSET batch :
        cycle' = [cycle EXCEPT !.phase = "revoke", !.noticed = sent,
                               !.marked = {i \in batch : subs[i].grace = NoTime}]
  BY DEF SendNotices
<1>2. PICK sent \in SUBSET batch :
        cycle' = [cycle EXCEPT !.phase = "revoke", !.noticed = sent,
                               !.marked = {i \in batch : subs[i].grace = NoTime}]
  BY <1>1
<1>3. /\ cycle'.at = cycle.at
      /\ cycle'.warned3 = cycle.warned3
      /\ cycle'.warned1 = cycle.warned1
      /\ cycle'.noticed = sent
      /\ cycle'.marked \subseteq batch
      /\ cycle'.todo = cycle.todo
      /\ cycle'.revoked = cycle.revoked
  BY <1>2 DEF IInv, TypeOK, Cycle
<1>4. \A i \in batch : i \in Ids /\ subs[i].expires <= cycle.at
  BY BatchIsDue DEF DueForNotice
<1>5. PassTimely'
  BY <1>3, <1>4 DEF PassTimely, SerialOK, SendNotices, cycleOnly, Ids
<1>6. QED
  BY <1>5, PhaseSerial DEF SendNotices, cycleOnly

\* The rows to revoke: their grace periods, which began after they ended, are over.
LEMMA ListRevocationsSerial ==
  ASSUME IInv, SerialOK, ListRevocations
  PROVE  SerialOK'
<1>1. PICK batch \in Batches(DueForRevoke(cycle.at), Graces) :
        cycle' = [cycle EXCEPT !.phase = "remove", !.todo = batch]
  BY DEF ListRevocations
<1>2. /\ cycle'.at = cycle.at
      /\ cycle'.warned3 = cycle.warned3
      /\ cycle'.warned1 = cycle.warned1
      /\ cycle'.noticed = cycle.noticed
      /\ cycle'.marked = cycle.marked
      /\ cycle'.todo = batch
      /\ cycle'.revoked = cycle.revoked
  BY <1>1 DEF IInv, TypeOK, Cycle
<1>3. \A i \in batch : subs[i].expires + Grace <= cycle.at
  <2> SUFFICES ASSUME NEW i \in batch PROVE subs[i].expires + Grace <= cycle.at
    OBVIOUS
  <2>1. i \in Ids /\ subs[i].grace # NoTime /\ subs[i].grace <= cycle.at
    BY BatchIsDue DEF DueForRevoke
  <2>2. subs[i].expires + Grace <= subs[i].grace
    BY <2>1 DEF SerialOK, RowsTimely, Timely
  <2>3. subs[i].expires \in Nat /\ subs[i].grace \in Nat /\ cycle.at \in Nat
    BY <2>1, RowNumbers DEF IInv, Moment
  <2>4. QED
    BY <2>1, <2>2, <2>3, AccessAssumption
<1>4. PassTimely'
  BY <1>2, <1>3 DEF PassTimely, SerialOK, ListRevocations, cycleOnly, Ids
<1>5. QED
  BY <1>4, PhaseSerial DEF ListRevocations, cycleOnly

\* A removal, or its failure, moves a row or drops it.
LEMMA RemovalSerial ==
  ASSUME IInv, SerialOK, NEW i \in cycle.todo, RemoveMember(i) \/ FailRemoval(i)
  PROVE  SerialOK'
<1>1. /\ cycle'.at = cycle.at
      /\ cycle'.warned3 = cycle.warned3
      /\ cycle'.warned1 = cycle.warned1
      /\ cycle'.noticed = cycle.noticed
      /\ cycle'.marked = cycle.marked
      /\ cycle'.todo \cup cycle'.revoked \subseteq cycle.todo \cup cycle.revoked
  <2>1. CASE RemoveMember(i)
    BY <2>1 DEF RemoveMember, IInv, TypeOK, Cycle
  <2>2. CASE FailRemoval(i)
    BY <2>2 DEF FailRemoval, IInv, TypeOK, Cycle
  <2>3. QED
    BY <2>1, <2>2
<1>2. subs' = subs /\ now' = now /\ sessions' = sessions /\ cycle.phase = "remove"
  BY DEF RemoveMember, FailRemoval
<1>3. PassTimely'
  BY <1>1, <1>2, StillPassTimely DEF SerialOK
<1>4. QED
  BY <1>2, <1>3, PhaseSerial

\* Every step keeps the invariant: one lemma per action.
LEMMA SerialStep == IInv /\ SInv /\ [Next]_vars => SInv'
<1> SUFFICES ASSUME IInv, SInv, [Next]_vars PROVE SInv'
  OBVIOUS
<1>1. ClockOK'
  BY ClockStep DEF SInv
<1>2. SUFFICES ASSUME ~overlap' PROVE SerialOK'
  BY <1>1 DEF SInv
<1>3. ~overlap
  BY <1>2 DEF Next, Worker, vars, Tick, Pay, BeginPayment, CommitPayment, RollbackPayment,
     Join, StartCycle, SendWarnings1, SendNotices, ListRevocations, RemoveMember,
     FailRemoval, CommitCycle, FailCycle, Crash, cycleOnly
<1>4. SerialOK /\ ClockOK
  BY <1>3 DEF SInv
<1>5. now \in Nat
  BY RowNumbers DEF IInv
<1>6. CASE subs' = subs /\ sessions' \subseteq sessions /\ now' \in Nat /\ now' >= now
           /\ (cycle' = cycle \/ cycle' = Idle)
  <2>1. Alone' /\ \A s \in sessions' : Fresh(s)'
    BY <1>4, <1>6, StillFresh DEF SerialOK, Alone
  <2>2. PassTimely'
    BY <1>4, <1>6, StillPassTimely, IdlePassTimely DEF SerialOK
  <2>3. QED
    BY <1>4, <1>6, <2>1, <2>2, SameRowsSerial
<1>7. ASSUME NEW h \in Handlers, NEW c \in Charges, BeginPayment(h, c) PROVE SerialOK'
  BY <1>2, <1>4, <1>7, BeginPaymentSerial
<1>8. ASSUME NEW s \in sessions, CommitPayment(s) PROVE SerialOK'
  BY <1>4, <1>8, CommitPaymentSerial
<1>9. CASE StartCycle
  BY <1>2, <1>4, <1>9, StartCycleSerial
<1>10. CASE SendWarnings1
  BY <1>4, <1>10, SendWarnings1Serial
<1>11. CASE SendNotices
  BY <1>4, <1>11, SendNoticesSerial
<1>12. CASE ListRevocations
  BY <1>4, <1>12, ListRevocationsSerial
<1>13. ASSUME NEW i \in cycle.todo, RemoveMember(i) \/ FailRemoval(i) PROVE SerialOK'
  BY <1>4, <1>13, RemovalSerial
<1>14. CASE CommitCycle
  <2>1. sessions' = {} /\ cycle' = Idle
    BY <1>4, <1>14, PassIsAlone DEF CommitCycle
  <2>2. Alone' /\ PassTimely' /\ \A s \in sessions' : Fresh(s)'
    BY <2>1, IdlePassTimely DEF Alone
  <2>3. QED
    BY <1>4, <1>14, <2>2, CommitCycleSerial DEF SerialOK
<1>15. CASE \/ UNCHANGED vars
            \/ Tick
            \/ \E c \in Charges : Pay(c)
            \/ \E s \in sessions : RollbackPayment(s)
            \/ \E u \in Users : Join(u)
            \/ FailCycle
            \/ Crash
  <2>1. subs' = subs /\ sessions' \subseteq sessions /\ (now' = now \/ now' = now + 1)
        /\ (cycle' = cycle \/ cycle' = Idle)
    BY <1>15 DEF vars, Tick, Pay, RollbackPayment, Join, FailCycle, Crash
  <2>2. QED
    BY <1>5, <1>6, <2>1
<1>16. QED
  BY <1>7, <1>8, <1>9, <1>10, <1>11, <1>12, <1>13, <1>14, <1>15 DEF Next, Worker

-----------------------------------------------------------------------------
(* The days of a user.                                                     *)
(*                                                                         *)
(* A commit adds one run of Days to the days of the payer and nothing to   *)
(* anybody else's: after the end of the stored row, which is the end the   *)
(* session has read while sessions do not overlap, or in a row of its own. *)

Run(k, e) == {k} \X (e .. (e + Days - 1))

\* Payments are counted, and a session acts for the payer of its charge.
PayersOK ==
  /\ IsFiniteSet(payments)
  /\ \A s \in sessions : s.row.user = Owner[s.charge]

DaysMatch ==
  \A u \in Users : /\ IsFiniteSet(DaysOf(u))
                   /\ Cardinality(DaysOf(u)) = Days * Cardinality(PaidBy(u))

DInv == PayersOK /\ (overlap \/ DaysMatch)

LEMMA Successor ==
  ASSUME NEW d \in Nat, NEW n \in Nat
  PROVE  d * (n + 1) = d * n + d
  BY SMT

LEMMA RunAdds ==
  ASSUME NEW S, IsFiniteSet(S), NEW k, NEW e \in Nat,
         \A d \in Int : <<k, d>> \in S => d < e
  PROVE  /\ IsFiniteSet(S \cup Run(k, e))
         /\ Cardinality(S \cup Run(k, e)) = Cardinality(S) + Days
<1> DEFINE T == e .. (e + Days - 1)
<1>1. Days \in Nat \ {0}
  BY AccessAssumption
<1>2. IsFiniteSet(T) /\ Cardinality(T) = Days
  <2>1. e \in Int /\ e + Days - 1 \in Int /\ ~(e > e + Days - 1)
    BY <1>1
  <2>2. IsFiniteSet(T) /\ Cardinality(T) = (e + Days - 1) - e + 1
    BY <2>1, FS_Interval
  <2> QED
    BY <1>1, <2>2
<1>3. IsFiniteSet({k}) /\ Cardinality({k}) = 1
  BY FS_Singleton
<1>4. \A d \in T : d \in Int /\ d >= e
  BY <1>1
<1> HIDE DEF T
<1>5. IsFiniteSet({k} \X T) /\ Cardinality({k} \X T) = Cardinality({k}) * Cardinality(T)
  BY <1>2, <1>3, FS_Product
<1>6. Cardinality({k} \X T) = Days
  BY <1>1, <1>2, <1>3, <1>5
<1> DEFINE R == {k} \X T
<1>7. S \cap R = {}
  <2> SUFFICES ASSUME NEW p \in S, p \in R PROVE FALSE
    OBVIOUS
  <2>1. PICK d \in T : p = <<k, d>>
    OBVIOUS
  <2>2. d < e /\ d >= e /\ d \in Int
    BY <1>4, <2>1
  <2> QED
    BY <2>2
<1>8. IsFiniteSet(R) /\ Cardinality(R) = Days
  BY <1>5, <1>6
<1> HIDE DEF R
<1>9. /\ IsFiniteSet(S \cup R)
      /\ Cardinality(S \cup R) = Cardinality(S) + Cardinality(R) - Cardinality(S \cap R)
  BY <1>8, FS_Union
<1>10. Cardinality(S \cap R) = 0
  BY <1>7, FS_EmptySet
<1>11. Cardinality(S) \in Nat
  BY FS_CardinalityType
<1>12. Cardinality(S \cup R) = Cardinality(S) + Days
  BY <1>1, <1>8, <1>9, <1>10, <1>11
<1>13. R = Run(k, e)
  BY DEF R, T, Run
<1> QED
  BY <1>9, <1>12, <1>13

LEMMA InDays ==
  ASSUME NEW u, NEW p
  PROVE  p \in DaysOf(u) <=>
           \E i \in RowsOf(u) : \E d \in subs[i].started .. (subs[i].expires - 1) : p = <<i, d>>
  BY DEF DaysOf

\* The days depend on the users, the starts and the ends of the rows alone.
LEMMA SameDays ==
  ASSUME NEW u, Ids' = Ids,
         \A i \in Ids : /\ subs'[i].user = subs[i].user
                        /\ subs'[i].started = subs[i].started
                        /\ subs'[i].expires = subs[i].expires
  PROVE  DaysOf(u)' = DaysOf(u)
<1>1. RowsOf(u)' = RowsOf(u)
  BY DEF RowsOf
<1>2. \A i \in RowsOf(u) : subs'[i].started = subs[i].started /\ subs'[i].expires = subs[i].expires
  BY DEF RowsOf
<1> QED
  BY <1>1, <1>2 DEF DaysOf

LEMMA ExtensionDays ==
  ASSUME TypeOK, RowsOK, NEW k \in Ids, subs' = [subs EXCEPT ![k] = Extended(subs[k], subs[k])],
         NEW u \in Users
  PROVE  DaysOf(u)' = IF u = subs[k].user THEN DaysOf(u) \cup Run(k, subs[k].expires)
                      ELSE DaysOf(u)
<1> DEFINE new == Extended(subs[k], subs[k])
           b == subs[k].started
           e == subs[k].expires
<1>1. /\ new.user = subs[k].user
      /\ new.started = b
      /\ new.expires = e + Days
  <2>1. subs[k] \in Row
    BY RowNumbers
  <2> QED
    BY <2>1, ExtendedIsRow, ExtendedIsUnmarked
<1>2. Ids' = Ids /\ subs'[k] = new /\ \A i \in Ids \ {k} : subs'[i] = subs[i]
  BY IdsAreNumbers DEF Ids
<1>3. b \in Nat /\ e \in Nat /\ Days \in Nat /\ b <= e
  BY RowNumbers, AccessAssumption DEF RowsOK, Sound
<1> HIDE DEF new
<1>4. RowsOf(u)' = RowsOf(u)
  BY <1>1, <1>2 DEF RowsOf
<1>5. b .. (e + Days - 1) = (b .. (e - 1)) \cup (e .. (e + Days - 1))
  BY <1>3
<1>6. CASE u # subs[k].user
  <2>1. \A i \in RowsOf(u) : subs'[i] = subs[i]
    BY <1>2, <1>6 DEF RowsOf
  <2> QED
    BY <1>4, <1>6, <2>1 DEF DaysOf
<1>7. CASE u = subs[k].user
  <2>1. k \in RowsOf(u)
    BY <1>7 DEF RowsOf
  <2>2. ASSUME NEW p
        PROVE  p \in DaysOf(u)' <=> p \in DaysOf(u) \/ p \in Run(k, e)
    <3> DEFINE Old(i) == \E d \in subs[i].started .. (subs[i].expires - 1) : p = <<i, d>>
               New(i) == \E d \in subs'[i].started .. (subs'[i].expires - 1) : p = <<i, d>>
               Added == \E d \in e .. (e + Days - 1) : p = <<k, d>>
    <3>1. p \in DaysOf(u)' <=> \E i \in RowsOf(u) : New(i)
      BY <1>4 DEF DaysOf
    <3>2. p \in DaysOf(u) <=> \E i \in RowsOf(u) : Old(i)
      BY InDays
    <3>3. p \in Run(k, e) <=> Added
      BY DEF Run
    <3>4. \A i \in RowsOf(u) \ {k} : New(i) <=> Old(i)
      BY <1>2 DEF RowsOf
    <3>5. New(k) <=> Old(k) \/ Added
      <4>1. subs'[k].started .. (subs'[k].expires - 1) =
              (subs[k].started .. (subs[k].expires - 1)) \cup (e .. (e + Days - 1))
        <5>1. subs'[k].started = b /\ subs'[k].expires = e + Days
          BY <1>1, <1>2
        <5>2. e + Days - 1 = (e + Days) - 1
          BY <1>3
        <5> QED
          BY <1>5, <5>1, <5>2
      <4> QED
        BY <4>1
    <3> HIDE DEF New, Old, Added
    <3> QED
      BY <2>1, <3>1, <3>2, <3>3, <3>4, <3>5
  <2> QED
    BY <1>7, <2>2
<1> QED
  BY <1>6, <1>7

\* The days of the rows R of a sequence or function rows.
DaysIn(R, rows) == UNION {{i} \X (rows[i].started .. (rows[i].expires - 1)) : i \in R}

LEMMA NewRowDays ==
  ASSUME TypeOK, NEW v \in Users, NEW at \in Nat, NEW lapsed, NEW k \in Nat,
         \/ lapsed = subs
         \/ /\ k \in Ids
            /\ lapsed = [subs EXCEPT ![k].status = "expired"],
         subs' = Append(lapsed, NewRow(v, at)), NEW u \in Users
  PROVE  DaysOf(u)' = IF u = v THEN DaysOf(u) \cup Run(Len(subs) + 1, at) ELSE DaysOf(u)
<1> DEFINE n == Len(subs) + 1
           new == NewRow(v, at)
<1>1. Ids = 1 .. Len(subs) /\ Len(subs) \in Nat /\ \A i \in Ids : subs[i] \in Row
  BY IdsAreNumbers
<1>2. /\ Len(lapsed) = Len(subs)
      /\ lapsed \in Seq(Row)
      /\ \A i \in Ids : /\ lapsed[i].user = subs[i].user
                        /\ lapsed[i].started = subs[i].started
                        /\ lapsed[i].expires = subs[i].expires
  <2>1. CASE lapsed = subs
    BY <2>1 DEF TypeOK
  <2>2. CASE /\ k \in Ids
             /\ lapsed = [subs EXCEPT ![k].status = "expired"]
    <3>1. k \in Ids
      BY <2>2
    <3> DEFINE shut == [subs[k] EXCEPT !.status = "expired"]
    <3>2. /\ shut \in Row
          /\ shut.user = subs[k].user
          /\ shut.started = subs[k].started
          /\ shut.expires = subs[k].expires
      BY <1>1, <2>2 DEF Row
    <3>3. lapsed = [subs EXCEPT ![k] = shut]
      BY <2>2
    <3> HIDE DEF shut
    <3>4. /\ lapsed \in Seq(Row)
          /\ Len(lapsed) = Len(subs)
          /\ lapsed[k] = shut
          /\ \A i \in Ids \ {k} : lapsed[i] = subs[i]
      BY <1>1, <3>1, <3>2, <3>3 DEF TypeOK
    <3> QED
      BY <3>2, <3>4
  <2> QED
    BY <2>1, <2>2
<1>3. new \in Row /\ new.user = v /\ new.started = at /\ new.expires = at + Days
  BY NewRowIsSound DEF NewRow
<1> HIDE DEF new
<1>4. /\ Ids' = Ids \cup {n} /\ n \notin Ids
      /\ subs'[n] = new
      /\ \A i \in Ids : subs'[i] = lapsed[i]
  <2>1. subs' = Append(lapsed, new)
    BY DEF new
  <2> QED
    BY <1>1, <1>2, <1>3, <2>1 DEF Ids
<1> HIDE DEF n
<1> DEFINE rows == {i \in Ids \cup {n} : subs'[i].user = u}
<1>5. DaysOf(u)' = DaysIn(rows, subs')
  BY <1>4 DEF DaysOf, RowsOf, DaysIn
<1> DEFINE next == subs'
<1>6. \A i \in Ids : subs'[i].user = subs[i].user
  BY <1>2, <1>4
<1>7. /\ subs'[n].user = v
      /\ subs'[n].started = at
      /\ subs'[n].expires = at + Days
  BY <1>3, <1>4
<1>8. \A i \in RowsOf(u) : /\ subs'[i].started = subs[i].started
                           /\ subs'[i].expires = subs[i].expires
  BY <1>2, <1>4 DEF RowsOf
<1>9. DaysOf(u) = DaysIn(RowsOf(u), subs)
  BY DEF DaysOf, DaysIn
<1>10. DaysIn(RowsOf(u), next) = DaysIn(RowsOf(u), subs)
  BY <1>8 DEF DaysIn
<1>11. DaysIn(RowsOf(u) \cup {n}, next) = DaysIn(RowsOf(u), next) \cup Run(n, at)
  <2>1. {n} \X (next[n].started .. (next[n].expires - 1)) = Run(n, at)
    <3>1. (at + Days) - 1 = at + Days - 1
      BY AccessAssumption
    <3>2. next[n].started = at /\ next[n].expires = at + Days
      BY <1>7
    <3> HIDE DEF next
    <3> QED
      BY <3>1, <3>2 DEF Run
  <2> HIDE DEF next
  <2>2. DaysIn(RowsOf(u) \cup {n}, next) =
          DaysIn(RowsOf(u), next) \cup ({n} \X (next[n].started .. (next[n].expires - 1)))
    BY DEF DaysIn
  <2> QED
    BY <2>1, <2>2
<1>12. rows = IF u = v THEN RowsOf(u) \cup {n} ELSE RowsOf(u)
  BY <1>6, <1>7 DEF RowsOf
<1> HIDE DEF rows
<1> QED
  BY <1>5, <1>9, <1>10, <1>11, <1>12 DEF n

\* A commit that credits charge c to its payer v adds a run after all days in its row.
LEMMA CreditDays ==
  ASSUME TypeOK, PayersOK, DaysMatch, NEW c \in Charges, c \notin payments,
         payments' = payments \cup {c}, NEW k, NEW e \in Nat,
         \A d \in Int : <<k, d>> \in DaysOf(Owner[c]) => d < e,
         \A u \in Users : DaysOf(u)' = IF u = Owner[c] THEN DaysOf(u) \cup Run(k, e) ELSE DaysOf(u)
  PROVE  DaysMatch'
<1> SUFFICES ASSUME NEW u \in Users
             PROVE  /\ IsFiniteSet(DaysOf(u)')
                    /\ Cardinality(DaysOf(u)') = Days * Cardinality(PaidBy(u)')
  BY DEF DaysMatch
<1>1. IsFiniteSet(PaidBy(u)) /\ Cardinality(PaidBy(u)) \in Nat
  BY FS_Subset, FS_CardinalityType DEF PayersOK, PaidBy
<1>2. IsFiniteSet(DaysOf(u)) /\ Cardinality(DaysOf(u)) = Days * Cardinality(PaidBy(u))
  BY DEF DaysMatch
<1>3. CASE u # Owner[c]
  <2>1. PaidBy(u)' = PaidBy(u)
    BY <1>3 DEF PaidBy
  <2> QED
    BY <1>2, <1>3, <2>1
<1>4. CASE u = Owner[c]
  <2>1. PaidBy(u)' = PaidBy(u) \cup {c} /\ c \notin PaidBy(u)
    BY <1>4 DEF PaidBy
  <2>2. Cardinality(PaidBy(u)') = Cardinality(PaidBy(u)) + 1
    BY <1>1, <2>1, FS_AddElement
  <2>3. DaysOf(u)' = DaysOf(u) \cup Run(k, e)
    BY <1>4
  <2>4. /\ IsFiniteSet(DaysOf(u) \cup Run(k, e))
        /\ Cardinality(DaysOf(u) \cup Run(k, e)) = Cardinality(DaysOf(u)) + Days
    BY <1>2, <1>4, RunAdds
  <2>5. Days * (Cardinality(PaidBy(u)) + 1) = Days * Cardinality(PaidBy(u)) + Days
    BY <1>1, AccessAssumption, Successor
  <2> QED
    BY <1>2, <2>2, <2>3, <2>4, <2>5
<1> QED
  BY <1>3, <1>4

LEMMA CommitPaymentDays ==
  ASSUME IInv, ClockOK, SerialOK, PayersOK, DaysMatch, NEW s \in sessions, CommitPayment(s)
  PROVE  DaysMatch'
<1> DEFINE at == paidAt[s.charge]
           u  == s.row.user
<1>1. /\ s \in Session /\ s.charge \in Charges /\ u \in Users /\ SessionOK(s)
      /\ u = Owner[s.charge] /\ at \in Nat /\ Fresh(s)
  BY RowFields DEF IInv, TypeOK, SessionsOK, Session, Moment, ClockOK, SerialOK, PayersOK
<1>2. CASE s.charge \in payments
  <2>1. UNCHANGED <<subs, payments>>
    BY <1>2 DEF CommitPayment
  <2> QED
    BY <2>1 DEF DaysMatch, DaysOf, RowsOf, Ids, PaidBy
<1>3. CASE s.charge \notin payments
  <2>1. ActivateOrExtend(s) /\ payments' = payments \cup {s.charge}
    BY <1>3 DEF CommitPayment
  <2>2. CASE Extends(s.row, at)
    <3>1. s.id \in Ids /\ s.row = subs[s.id]
      <4>1. 0 \notin Ids
        BY IdsAreNumbers DEF IInv
      <4>2. s.row.status # "expired"
        BY <2>2 DEF Extends, IsLive
      <4> QED
        BY <1>1, <4>1, <4>2 DEF Fresh, SessionOK
    <3>2. subs' = [subs EXCEPT ![s.id] = Extended(subs[s.id], subs[s.id])]
      BY <2>1, <2>2, <3>1 DEF ActivateOrExtend
    <3> DEFINE k == s.id
               e == subs[k].expires
    <3>3. \A v \in Users :
            DaysOf(v)' = IF v = Owner[s.charge] THEN DaysOf(v) \cup Run(k, e) ELSE DaysOf(v)
      BY <1>1, <3>1, <3>2, ExtensionDays DEF IInv
    <3>4. \A d \in Int : <<k, d>> \in DaysOf(u) => d < e
      <4> SUFFICES ASSUME NEW d \in Int, <<k, d>> \in DaysOf(u) PROVE d < e
        OBVIOUS
      <4>1. PICK i \in RowsOf(u) :
              \E t \in subs[i].started .. (subs[i].expires - 1) : <<k, d>> = <<i, t>>
        BY InDays
      <4>2. d \in subs[k].started .. (subs[k].expires - 1)
        BY <4>1
      <4>3. subs[k].started \in Nat /\ subs[k].expires \in Nat
        BY <3>1, RowNumbers DEF IInv
      <4> QED
        BY <4>2, <4>3
    <3>5. e \in Nat
      BY <3>1, RowNumbers DEF IInv
    <3> HIDE DEF k, e
    <3> QED
      BY <1>1, <1>3, <2>1, <3>3, <3>4, <3>5, CreditDays DEF IInv
  <2>3. CASE ~Extends(s.row, at)
    <3> DEFINE lapsed == IF Lapses(s.row, at) /\ s.row.status = "active"
                         THEN [subs EXCEPT ![s.id].status = "expired"]
                         ELSE subs
               k == Len(subs) + 1
    <3>1. subs' = Append(lapsed, NewRow(u, at))
      BY <2>1, <2>3 DEF ActivateOrExtend
    <3>2. s.id \in Nat
      BY <1>1 DEF Session
    <3>3. \/ lapsed = subs
          \/ /\ s.id \in Ids
             /\ lapsed = [subs EXCEPT ![s.id].status = "expired"]
      <4>1. CASE s.row.status = "active"
        BY <1>1, <4>1 DEF SessionOK
      <4>2. CASE s.row.status # "active"
        BY <4>2
      <4> QED
        BY <4>1, <4>2
    <3> HIDE DEF lapsed
    <3>4. \A v \in Users :
            DaysOf(v)' = IF v = Owner[s.charge] THEN DaysOf(v) \cup Run(k, at) ELSE DaysOf(v)
      BY <1>1, <3>1, <3>2, <3>3, NewRowDays DEF IInv
    <3>5. \A d \in Int : <<k, d>> \in DaysOf(u) => d < at
      <4> SUFFICES ASSUME NEW d \in Int, <<k, d>> \in DaysOf(u) PROVE FALSE
        OBVIOUS
      <4>1. PICK i \in RowsOf(u) :
              \E t \in subs[i].started .. (subs[i].expires - 1) : <<k, d>> = <<i, t>>
        BY InDays
      <4>2. k \in Ids
        BY <4>1 DEF RowsOf
      <4> QED
        BY <4>2, IdsAreNumbers DEF IInv
    <3> HIDE DEF k
    <3> QED
      BY <1>1, <1>3, <2>1, <3>4, <3>5, CreditDays DEF IInv
  <2> QED
    BY <2>2, <2>3
<1> QED
  BY <1>2, <1>3

LEMMA CommitCycleDays ==
  ASSUME IInv, DaysMatch, CommitCycle
  PROVE  DaysMatch'
<1>1. Ids' = Ids
  BY CommitKeepsRows DEF IInv
<1>2. subs' = [i \in Ids |-> Processed(i)] /\ payments' = payments
  BY DEF CommitCycle
<1>3. \A i \in Ids : /\ subs'[i].user = subs[i].user
                     /\ subs'[i].started = subs[i].started
                     /\ subs'[i].expires = subs[i].expires
  BY <1>2, ProcessedIsRow, ProcessedMarks DEF IInv
<1>4. \A u \in Users : DaysOf(u)' = DaysOf(u) /\ PaidBy(u)' = PaidBy(u)
  BY <1>1, <1>2, <1>3, SameDays DEF PaidBy
<1> QED
  BY <1>4 DEF DaysMatch

LEMMA PayersStep ==
  ASSUME IInv, PayersOK, [Next]_vars
  PROVE  PayersOK'
<1>1. IsFiniteSet(payments')
  <2>1. payments' = payments \/ \E c : payments' = payments \cup {c}
    BY DEF Next, Worker, vars, Tick, Pay, BeginPayment, CommitPayment, RollbackPayment,
       Join, StartCycle, SendWarnings1, SendNotices, ListRevocations, RemoveMember,
       FailRemoval, CommitCycle, FailCycle, Crash, cycleOnly
  <2> QED
    BY <2>1, FS_AddElement DEF PayersOK
<1>2. \A s \in sessions' : s.row.user = Owner[s.charge]
  <2>1. CASE sessions' \subseteq sessions
    BY <2>1 DEF PayersOK
  <2>2. ASSUME NEW h \in Handlers, NEW c \in Charges, BeginPayment(h, c)
        PROVE  \A s \in sessions' : s.row.user = Owner[s.charge]
    BY <2>2 DEF BeginPayment, PayersOK, NoRow, IsLatest, RowsOf
  <2> QED
    BY <2>1, <2>2 DEF Next, Worker, vars, Tick, Pay, CommitPayment, RollbackPayment,
       Join, StartCycle, SendWarnings1, SendNotices, ListRevocations, RemoveMember,
       FailRemoval, CommitCycle, FailCycle, Crash, cycleOnly
<1> QED
  BY <1>1, <1>2 DEF PayersOK

LEMMA DaysStep ==
  ASSUME IInv, SInv, DInv, [Next]_vars
  PROVE  DInv'
<1>1. PayersOK'
  BY PayersStep DEF DInv
<1>2. SUFFICES ASSUME ~overlap' PROVE DaysMatch'
  BY <1>1 DEF DInv
<1>3. ~overlap
  BY <1>2 DEF Next, Worker, vars, Tick, Pay, BeginPayment, CommitPayment, RollbackPayment,
     Join, StartCycle, SendWarnings1, SendNotices, ListRevocations, RemoveMember,
     FailRemoval, CommitCycle, FailCycle, Crash, cycleOnly
<1>4. SerialOK /\ ClockOK /\ PayersOK /\ DaysMatch
  BY <1>3 DEF SInv, DInv
<1>5. CASE UNCHANGED <<subs, payments>>
  BY <1>4, <1>5 DEF DaysMatch, DaysOf, RowsOf, Ids, PaidBy
<1>6. ASSUME NEW s \in sessions, CommitPayment(s) PROVE DaysMatch'
  BY <1>4, <1>6, CommitPaymentDays
<1>7. CASE CommitCycle
  BY <1>4, <1>7, CommitCycleDays
<1> QED
  BY <1>5, <1>6, <1>7 DEF Next, Worker, vars, Tick, Pay, BeginPayment, RollbackPayment,
     Join, StartCycle, SendWarnings1, SendNotices, ListRevocations, RemoveMember,
     FailRemoval, FailCycle, Crash, cycleOnly

LEMMA DaysInit == Init => DInv
<1> SUFFICES ASSUME Init PROVE DInv
  OBVIOUS
<1>1. \A u \in Users : DaysOf(u) = {} /\ PaidBy(u) = {}
  BY DEF Init, DaysOf, RowsOf, Ids, PaidBy
<1>2. Days * 0 = 0
  BY AccessAssumption
<1> QED
  BY <1>1, <1>2, FS_EmptySet DEF DInv, PayersOK, DaysMatch, Init

-----------------------------------------------------------------------------
(* Removals.                                                               *)
(*                                                                         *)
(* A pass removes on account of a row that is live and past its grace      *)
(* period, so it is enough that a user whose rows follow each other in     *)
(* time has no live row beside another that came later.                    *)

OnlyLastIsLive(u) ==
  \A i, j \in RowsOf(u) : i < j => ~IsLive(subs[i])

LInv == overlap \/ /\ \A i \in cycle.todo : IsLive(subs[i])
                   /\ \A u \in Users : InOrder(u) => OnlyLastIsLive(u)

\* How the table may change and leave rows that are closed closed, and rows out of
\* order out of order.
Ages == \A i \in Ids : /\ i \in Ids'
                       /\ subs'[i].user = subs[i].user
                       /\ subs'[i].started = subs[i].started
                       /\ subs'[i].expires >= subs[i].expires
                       /\ subs'[i].expires \in Nat
                       /\ IsLive(subs'[i]) => IsLive(subs[i])

\* Rows that were there before the change keep what LInv says of them.
LEMMA AgedRows ==
  ASSUME IInv, Ages, NEW u \in Users, InOrder(u) => OnlyLastIsLive(u), InOrder(u)',
         NEW i \in RowsOf(u), NEW j \in RowsOf(u), i < j
  PROVE  ~IsLive(subs'[i]) /\ InOrder(u)
<1>1. \A k \in RowsOf(u) : k \in Ids /\ k \in RowsOf(u)'
  BY DEF Ages, RowsOf
<1>2. ASSUME NEW k \in RowsOf(u), NEW m \in RowsOf(u), k < m
      PROVE  subs[m].started >= subs[k].expires
  <2>1. subs'[m].started >= subs'[k].expires
    BY <1>1, <1>2 DEF InOrder
  <2>2. /\ subs'[m].started = subs[m].started
        /\ subs'[k].expires >= subs[k].expires
        /\ subs'[k].expires \in Nat
        /\ subs[k].expires \in Nat
        /\ subs[m].started \in Nat
    BY <1>1, RowNumbers DEF Ages, IInv
  <2> QED
    BY <2>1, <2>2
<1>3. InOrder(u)
  BY <1>2 DEF InOrder
<1> QED
  BY <1>1, <1>3 DEF OnlyLastIsLive, Ages

\* A table that only ages, without new rows.
LEMMA AgedTable ==
  ASSUME IInv, LInv, ~overlap, Ages, Ids' = Ids
  PROVE  \A u \in Users : InOrder(u)' => OnlyLastIsLive(u)'
<1> SUFFICES ASSUME NEW u \in Users, InOrder(u)', NEW i \in RowsOf(u)', NEW j \in RowsOf(u)',
                    i < j
             PROVE  ~IsLive(subs'[i])
  BY DEF OnlyLastIsLive
<1>1. i \in RowsOf(u) /\ j \in RowsOf(u)
  BY DEF Ages, RowsOf
<1> QED
  BY <1>1, AgedRows DEF LInv

\* An extension moves the end back and brings no row to life.
LEMMA ExtensionAges ==
  ASSUME IInv, NEW k \in Ids, IsLive(subs[k]),
         subs' = [subs EXCEPT ![k] = Extended(subs[k], subs[k])]
  PROVE  Ages /\ Ids' = Ids
<1> DEFINE new == Extended(subs[k], subs[k])
<1>1. /\ subs[k] \in Row
      /\ subs[k].expires \in Nat
      /\ \A i \in Ids : subs[i].expires \in Nat
  BY RowNumbers DEF IInv
<1>2. /\ new.user = subs[k].user
      /\ new.started = subs[k].started
      /\ new.expires = subs[k].expires + Days
  BY <1>1, ExtendedIsRow, ExtendedIsUnmarked
<1>3. Ids' = Ids /\ subs'[k] = new /\ \A i \in Ids \ {k} : subs'[i] = subs[i]
  BY IdsAreNumbers DEF Ids, IInv
<1> HIDE DEF new
<1>4. subs'[k].expires \in Nat /\ subs'[k].expires >= subs[k].expires
  BY <1>1, <1>2, <1>3, AccessAssumption
<1> QED
  BY <1>1, <1>2, <1>3, <1>4 DEF Ages

\* A row of at least Days that starts when another has ended ends later.
LEMMA NotBefore ==
  ASSUME NEW e \in Nat, NEW st \in Nat, NEW x \in Nat, e <= st, x >= st + Days
  PROVE  ~(x <= e)
  BY AccessAssumption

\* A new row is added, and the row it follows closed with it when that was live.
LEMMA NewRowIsLast ==
  ASSUME IInv, LInv, SerialOK, ~overlap, NEW v \in Users, NEW at \in Nat, NEW lapsed, NEW k \in Nat,
         \/ lapsed = subs /\ RowsOf(v) = {}
         \/ /\ lapsed = subs
            /\ IsLatest(k, v)
            /\ ~(subs[k].expires <= at /\ IsLive(subs[k]))
         \/ /\ lapsed = [subs EXCEPT ![k].status = "expired"]
            /\ IsLatest(k, v)
            /\ subs[k].expires <= at
            /\ IsLive(subs[k]),
         subs' = Append(lapsed, NewRow(v, at))
  PROVE  \A u \in Users : InOrder(u)' => OnlyLastIsLive(u)'
<1> DEFINE n == Len(subs) + 1
           new == NewRow(v, at)
<1>1. Ids = 1 .. Len(subs) /\ Len(subs) \in Nat /\ \A i \in Ids : subs[i] \in Row
  BY IdsAreNumbers DEF IInv
<1>2. /\ Len(lapsed) = Len(subs)
      /\ lapsed \in Seq(Row)
      /\ \A i \in Ids : /\ lapsed[i].user = subs[i].user
                        /\ lapsed[i].started = subs[i].started
                        /\ lapsed[i].expires = subs[i].expires
                        /\ IsLive(lapsed[i]) => IsLive(subs[i])
      /\ IsLatest(k, v) /\ subs[k].expires <= at => ~IsLive(lapsed[k])
  <2>1. CASE \/ lapsed = subs /\ RowsOf(v) = {}
             \/ /\ lapsed = subs
                /\ IsLatest(k, v)
                /\ ~(subs[k].expires <= at /\ IsLive(subs[k]))
    <3>1. RowsOf(v) = {} => ~IsLatest(k, v)
      BY DEF IsLatest
    <3>2. subs \in Seq(Row)
      BY DEF IInv, TypeOK
    <3> QED
      BY <2>1, <3>1, <3>2
  <2>2. CASE /\ lapsed = [subs EXCEPT ![k].status = "expired"]
             /\ IsLatest(k, v)
             /\ subs[k].expires <= at
             /\ IsLive(subs[k])
    <3>1. k \in Ids
      BY <2>2 DEF IsLatest, RowsOf
    <3> DEFINE shut == [subs[k] EXCEPT !.status = "expired"]
    <3>2. /\ shut \in Row
          /\ shut.user = subs[k].user
          /\ shut.started = subs[k].started
          /\ shut.expires = subs[k].expires
          /\ shut.status = "expired"
      BY <1>1, <3>1 DEF Row
    <3>3. lapsed = [subs EXCEPT ![k] = shut]
      BY <2>2
    <3> HIDE DEF shut
    <3>4. /\ lapsed \in Seq(Row)
          /\ Len(lapsed) = Len(subs)
          /\ lapsed[k] = shut
          /\ \A i \in Ids \ {k} : lapsed[i] = subs[i]
      BY <1>1, <3>1, <3>2, <3>3 DEF IInv, TypeOK
    <3> QED
      BY <2>2, <3>2, <3>4 DEF IsLive
  <2> QED
    BY <2>1, <2>2
<1>3. new \in Row /\ new.user = v /\ new.started = at
  BY NewRowIsSound DEF NewRow
<1> HIDE DEF new
<1>4. /\ Ids' = Ids \cup {n}
      /\ subs'[n] = new
      /\ \A i \in Ids : subs'[i] = lapsed[i] /\ i < n
  <2>1. subs' = Append(lapsed, new)
    BY DEF new
  <2> QED
    BY <1>1, <1>2, <1>3, <2>1 DEF Ids
<1>5. Ages
  <2> SUFFICES ASSUME NEW i \in Ids
               PROVE  /\ i \in Ids'
                      /\ subs'[i].user = subs[i].user
                      /\ subs'[i].started = subs[i].started
                      /\ subs'[i].expires >= subs[i].expires
                      /\ subs'[i].expires \in Nat
                      /\ IsLive(subs'[i]) => IsLive(subs[i])
    BY Zenon DEF Ages
  <2>1. subs[i].expires \in Nat
    BY RowNumbers DEF IInv
  <2>2. i \in Ids' /\ subs'[i] = lapsed[i]
    BY <1>4
  <2>3. subs'[i].expires = subs[i].expires
    BY <1>2, <2>2
  <2> QED
    BY <1>2, <2>1, <2>2, <2>3
<1> SUFFICES ASSUME NEW u \in Users, InOrder(u)', NEW i \in RowsOf(u)', NEW j \in RowsOf(u)',
                    i < j, IsLive(subs'[i])
             PROVE  FALSE
  BY DEF OnlyLastIsLive
<1>6. i \in Ids
  <2>1. i \in Ids \cup {n} /\ j \in Ids \cup {n} /\ n \in Nat /\ Ids \subseteq Nat
    BY <1>1, <1>4 DEF RowsOf
  <2>2. \A m \in Ids \cup {n} : m <= n
    BY <1>1
  <2> QED
    BY <2>1, <2>2
<1>7. i \in RowsOf(u)
  BY <1>2, <1>4, <1>6 DEF RowsOf
<1>8. \A m \in RowsOf(u) : ~(i < m)
  BY <1>5, <1>7, AgedRows DEF LInv
<1>9. j = n /\ u = v
  <2>1. j \notin RowsOf(u)
    BY <1>8
  <2>2. j \in Ids \cup {n} /\ subs'[j].user = u
    BY <1>4 DEF RowsOf
  <2>3. j \notin Ids
    BY <1>2, <1>4, <2>1, <2>2 DEF RowsOf
  <2> QED
    BY <1>3, <1>4, <2>2, <2>3
<1>10. at >= subs[i].expires
  <2>1. subs'[n].started >= subs'[i].expires
    BY <1>9 DEF InOrder
  <2> QED
    BY <1>2, <1>3, <1>4, <1>6, <2>1
<1>11. IsLatest(k, v) /\ k \in RowsOf(v) /\ k \in Ids
  BY <1>7, <1>9 DEF IsLatest, RowsOf
<1>12. k = i
  <2> SUFFICES ASSUME k # i PROVE FALSE
    OBVIOUS
  <2>1. k \in RowsOf(u)' /\ i \in RowsOf(u)'
    BY <1>2, <1>4, <1>9, <1>11 DEF RowsOf
  <2>2. k < i
    BY <1>1, <1>6, <1>8, <1>9, <1>11
  <2>3. subs[i].started >= subs[k].expires
    <3>1. subs'[i].started >= subs'[k].expires
      BY <2>1, <2>2 DEF InOrder
    <3> QED
      BY <1>2, <1>4, <1>6, <1>11, <3>1
  <2>4. subs[i].expires >= subs[i].started + Days
    BY <1>6 DEF IInv, RowsOK, Sound
  <2>5. subs[i].expires <= subs[k].expires
    BY <1>6, <1>7, <1>9, <1>11, RowNumbers DEF IsLatest, IInv
  <2>6. /\ subs[i].expires \in Nat
        /\ subs[i].started \in Nat
        /\ subs[k].expires \in Nat
    BY <1>6, <1>11, RowNumbers DEF IInv
  <2> QED
    BY <2>3, <2>4, <2>5, <2>6, NotBefore
<1>13. ~IsLive(lapsed[k])
  BY <1>2, <1>10, <1>11, <1>12
<1> QED
  BY <1>4, <1>6, <1>12, <1>13

\* activate_or_extend_subscription in a session that is alone.
LEMMA CommitPaymentLast ==
  ASSUME IInv, ClockOK, SerialOK, LInv, ~overlap, NEW s \in sessions, CommitPayment(s)
  PROVE  \A u \in Users : InOrder(u)' => OnlyLastIsLive(u)'
<1> DEFINE at == paidAt[s.charge]
           u  == s.row.user
<1>1. /\ s \in Session /\ u \in Users /\ SessionOK(s) /\ Fresh(s)
      /\ at \in Nat
  BY RowFields DEF IInv, TypeOK, SessionsOK, Session, Moment, ClockOK, SerialOK
<1>2. CASE subs' = subs
  BY <1>2 DEF LInv, InOrder, OnlyLastIsLive, RowsOf, Ids
<1>3. CASE ActivateOrExtend(s)
  <2>1. CASE Extends(s.row, at)
    <3>1. s.id \in Ids /\ s.row = subs[s.id]
      <4>1. 0 \notin Ids
        BY IdsAreNumbers DEF IInv
      <4>2. s.row.status # "expired"
        BY <2>1 DEF Extends, IsLive
      <4> QED
        BY <1>1, <4>1, <4>2 DEF Fresh, SessionOK
    <3>2. IsLive(subs[s.id])
          /\ subs' = [subs EXCEPT ![s.id] = Extended(subs[s.id], subs[s.id])]
      BY <1>3, <2>1, <3>1 DEF ActivateOrExtend, Extends
    <3> QED
      BY <3>1, <3>2, ExtensionAges, AgedTable
  <2>2. CASE ~Extends(s.row, at)
    <3> DEFINE lapsed == IF Lapses(s.row, at) /\ s.row.status = "active"
                         THEN [subs EXCEPT ![s.id].status = "expired"]
                         ELSE subs
    <3>1. subs' = Append(lapsed, NewRow(u, at))
      BY <1>3, <2>2 DEF ActivateOrExtend
    <3>2. s.id \in Nat
      BY <1>1 DEF Session
    <3>3. \/ lapsed = subs /\ RowsOf(u) = {}
          \/ /\ lapsed = subs
             /\ IsLatest(s.id, u)
             /\ ~(subs[s.id].expires <= at /\ IsLive(subs[s.id]))
          \/ /\ lapsed = [subs EXCEPT ![s.id].status = "expired"]
             /\ IsLatest(s.id, u)
             /\ subs[s.id].expires <= at
             /\ IsLive(subs[s.id])
      <4>1. CASE s.id = 0 /\ RowsOf(u) = {}
        <5>1. 0 \notin Ids
          BY IdsAreNumbers DEF IInv
        <5>2. ~Lapses(s.row, at)
          BY <1>1, <4>1, <5>1 DEF SessionOK, Lapses
        <5> QED
          BY <4>1, <5>2
      <4>2. CASE IsLatest(s.id, u) /\ s.row = subs[s.id]
        BY <4>2 DEF Lapses, IsLive
      <4> QED
        BY <1>1, <4>1, <4>2 DEF Fresh
    <3> HIDE DEF lapsed
    <3> QED
      BY <1>1, <3>1, <3>2, <3>3, NewRowIsLast
  <2> QED
    BY <2>1, <2>2
<1> QED
  BY <1>2, <1>3 DEF CommitPayment

\* The commit of a pass closes rows and moves no end.
LEMMA CommitCycleAges ==
  ASSUME IInv, CommitCycle
  PROVE  Ages /\ Ids' = Ids
<1>1. Ids' = Ids
  BY CommitKeepsRows DEF IInv
<1>2. subs' = [i \in Ids |-> Processed(i)]
  BY DEF CommitCycle
<1>3. cycle.at # NoTime /\ \A i \in Ids : subs[i].expires \in Nat
  BY RowNumbers DEF IInv, NoTime
<1>4. \A i \in Ids :
        /\ subs'[i].user = subs[i].user
        /\ subs'[i].started = subs[i].started
        /\ subs'[i].expires = subs[i].expires
        /\ subs'[i].status = IF i \in cycle.revoked THEN "expired" ELSE subs[i].status
        /\ subs'[i].revoked = IF i \in cycle.revoked THEN cycle.at ELSE subs[i].revoked
  BY <1>2, ProcessedIsRow, ProcessedMarks DEF IInv
<1>5. \A i \in Ids : IsLive(subs'[i]) => IsLive(subs[i])
  BY <1>3, <1>4 DEF IsLive
<1> QED
  BY <1>1, <1>3, <1>4, <1>5 DEF Ages

LEMMA LastStep ==
  ASSUME IInv, SInv, LInv, [Next]_vars
  PROVE  LInv'
<1> SUFFICES ASSUME ~overlap'
             PROVE  /\ \A i \in cycle'.todo : IsLive(subs'[i])
                    /\ \A u \in Users : InOrder(u)' => OnlyLastIsLive(u)'
  BY DEF LInv
<1>1. ~overlap
  BY DEF Next, Worker, vars, Tick, Pay, BeginPayment, CommitPayment, RollbackPayment,
     Join, StartCycle, SendWarnings1, SendNotices, ListRevocations, RemoveMember,
     FailRemoval, CommitCycle, FailCycle, Crash, cycleOnly
<1>2. SerialOK /\ ClockOK
  BY <1>1 DEF SInv
<1>3. \A i \in cycle'.todo : IsLive(subs'[i])
  <2>1. CASE subs' = subs /\ cycle'.todo \subseteq cycle.todo
    BY <1>1, <2>1 DEF LInv
  <2>2. CASE cycle' = Idle
    BY <2>2 DEF Idle
  <2>3. ASSUME NEW s \in sessions, CommitPayment(s) PROVE cycle' = Idle
    BY <1>2, <2>3 DEF CommitPayment, SerialOK, Alone
  <2>4. CASE StartCycle
    <3>1. cycle'.todo = {}
      BY <2>4 DEF StartCycle, Idle
    <3> QED
      BY <3>1
  <2>5. CASE SendWarnings1 \/ SendNotices
    <3>1. subs' = subs /\ cycle'.todo = cycle.todo
      BY <2>5 DEF SendWarnings1, SendNotices, cycleOnly, IInv, TypeOK, Cycle
    <3> QED
      BY <2>1, <3>1
  <2>6. CASE ListRevocations
    <3>1. PICK batch \in Batches(DueForRevoke(cycle.at), Graces) :
            cycle' = [cycle EXCEPT !.phase = "remove", !.todo = batch]
      BY <2>6 DEF ListRevocations
    <3>2. cycle'.todo = batch /\ subs' = subs
      BY <2>6, <3>1 DEF ListRevocations, cycleOnly, IInv, TypeOK, Cycle
    <3>3. \A i \in batch : IsLive(subs[i])
      BY BatchIsDue DEF DueForRevoke
    <3> QED
      BY <3>2, <3>3
  <2>7. ASSUME NEW i \in cycle.todo, RemoveMember(i) \/ FailRemoval(i)
        PROVE  subs' = subs /\ cycle'.todo \subseteq cycle.todo
    BY <2>7 DEF RemoveMember, FailRemoval, IInv, TypeOK, Cycle
  <2> QED
    BY <2>1, <2>2, <2>3, <2>4, <2>5, <2>6, <2>7
    DEF Next, Worker, vars, Tick, Pay, BeginPayment, RollbackPayment, Join, CommitCycle,
        FailCycle, Crash
<1>4. \A u \in Users : InOrder(u)' => OnlyLastIsLive(u)'
  <2>1. CASE subs' = subs
    BY <1>1, <2>1 DEF LInv, InOrder, OnlyLastIsLive, RowsOf, Ids
  <2>2. ASSUME NEW s \in sessions, CommitPayment(s)
        PROVE  \A u \in Users : InOrder(u)' => OnlyLastIsLive(u)'
    BY <1>1, <1>2, <2>2, CommitPaymentLast
  <2>3. CASE CommitCycle
    BY <1>1, <2>3, CommitCycleAges, AgedTable
  <2> QED
    BY <2>1, <2>2, <2>3 DEF Next, Worker, vars, Tick, Pay, BeginPayment, RollbackPayment,
       Join, StartCycle, SendWarnings1, SendNotices, ListRevocations, RemoveMember,
       FailRemoval, FailCycle, Crash, cycleOnly
<1> QED
  BY <1>3, <1>4

LEMMA LastInit == Init => LInv
  BY DEF Init, LInv, Idle, InOrder, OnlyLastIsLive, RowsOf, Ids

\* The part of SerialRenewedNotRemoved that one step must respect.
KeepsRenewed ==
  ~overlap => \A u \in Users :
    InOrder(u) /\ InChannel(u) /\ ~InChannel(u)' => ~HasCurrent(u)

\* The row on whose account a user is removed is live and has ended; another that
\* is live comes neither before it nor after it.
LEMMA StepKeepsRenewed ==
  ASSUME IInv, SInv, LInv, [Next]_vars
  PROVE  KeepsRenewed
<1> SUFFICES ASSUME ~overlap, NEW u \in Users, InOrder(u), InChannel(u),
                    ~InChannel(u)', NEW j \in Ids, subs[j].user = u, IsCurrent(subs[j])
             PROVE  FALSE
  BY DEF KeepsRenewed, HasCurrent
<1>1. PICK i \in cycle.todo : subs[i].user = u
  BY StepRemoves
<1>2. /\ i \in Ids
      /\ IsLive(subs[i])
      /\ subs[i].expires + Grace <= cycle.at
      /\ cycle.at <= now
  BY DEF IInv, CycleOK, LInv, SInv, SerialOK, PassTimely
<1>3. /\ now \in Nat /\ cycle.at \in Nat
      /\ i \in Nat /\ j \in Nat
      /\ subs[i].expires \in Nat
      /\ subs[j].expires \in Nat
  BY <1>2, RowNumbers DEF IInv
<1>4. i # j
  BY <1>2, <1>3, AccessAssumption DEF IsCurrent
<1>5. i \in RowsOf(u) /\ j \in RowsOf(u) /\ IsLive(subs[j])
  BY <1>1, <1>2 DEF RowsOf, IsCurrent
<1>6. ~(i < j) /\ ~(j < i)
  BY <1>2, <1>5 DEF LInv, OnlyLastIsLive
<1> QED
  BY <1>3, <1>4, <1>6

-----------------------------------------------------------------------------
(* Theorems *)

\* The invariant of serial histories holds in every reachable state.
THEOREM SerialInvariant == Spec => [](IInv /\ SInv)
<1>1. Init => IInv /\ SInv
  BY InitOK, SerialInit
<1>2. IInv /\ SInv /\ [Next]_vars => (IInv /\ SInv)'
  BY StepOK, SerialStep
<1>3. QED
  BY <1>1, <1>2, PTL DEF Spec

\* While sessions do not overlap, activate_or_extend_subscription gives a user at
\* most one current subscription.
THEOREM OneSubscription == Spec => []SerialOneCurrent
<1>1. IInv /\ SInv => SerialOneCurrent
  BY DEF SInv, SerialOK, OneCurrent, SerialOneCurrent
<1>2. QED
  BY <1>1, SerialInvariant, PTL

\* While sessions do not overlap, process_expired_subscriptions warns, marks and
\* revokes a subscription for the end that it has, whatever renewals came before.
THEOREM MarksAreCurrent == Spec => []SerialMarksMatchEnd
<1>1. IInv /\ SInv => SerialMarksMatchEnd
  BY DEF SInv, SerialOK, RowsTimely, Timely, SerialMarksMatchEnd
<1>2. QED
  BY <1>1, SerialInvariant, PTL

\* While sessions do not overlap, activate_or_extend_subscription gives every credited
\* payment its days: the days of a user's subscriptions are Days for each payment.
THEOREM DaysAreConserved == Spec => []SerialDaysConserved
<1>1. Init => IInv /\ SInv /\ DInv
  BY InitOK, SerialInit, DaysInit
<1>2. IInv /\ SInv /\ DInv /\ [Next]_vars => (IInv /\ SInv /\ DInv)'
  BY StepOK, SerialStep, DaysStep
<1>3. DInv => SerialDaysConserved
  BY DEF DInv, DaysMatch, SerialDaysConserved
<1>4. QED
  BY <1>1, <1>2, <1>3, PTL DEF Spec

\* While sessions do not overlap, process_expired_subscriptions removes nobody who has
\* a current subscription, unless a late payment has put his rows out of order.
THEOREM RenewedAreNotRemoved == Spec => SerialRenewedNotRemoved
<1>1. Init => IInv /\ SInv /\ LInv
  BY InitOK, SerialInit, LastInit
<1>2. IInv /\ SInv /\ LInv /\ [Next]_vars => (IInv /\ SInv /\ LInv)'
  BY StepOK, SerialStep, LastStep
<1>3. IInv /\ SInv /\ LInv /\ [Next]_vars => KeepsRenewed
  BY StepKeepsRenewed
<1>4. KeepsRenewed => [~overlap => \A u \in Users :
        InOrder(u) /\ InChannel(u) /\ ~InChannel(u)' => ~HasCurrent(u)]_vars
  BY DEF KeepsRenewed
<1>5. QED
  BY <1>1, <1>2, <1>3, <1>4, PTL DEF Spec, SerialRenewedNotRemoved

=============================================================================
