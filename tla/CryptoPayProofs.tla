--------------------------- MODULE CryptoPayProofs ---------------------------
(***************************************************************************)
(* Theorems about CryptoPay for every set of buyers, any number of         *)
(* handlers, every size of a batch and every bound.                        *)
(*                                                                         *)
(* The argument.  The pass holds writes of a whole batch for as long as    *)
(* the batch takes, and webhook requests commit payments meanwhile.  What  *)
(* keeps the two apart is that a row the pass has flushed is held by the   *)
(* database: a webhook commits only outside of Held.  So an invoice the    *)
(* pass has booked gets no payment before the pass commits, and one that   *)
(* it has set to paid without booking it has a payment already or belongs  *)
(* to a buyer whose subscription cannot be extended.                       *)
(***************************************************************************)
EXTENDS CryptoPay, SequenceTheorems, WellFoundedInduction, TLAPS

PassOK ==
  /\ pass.booked \subseteq pass.paid
  /\ pass.booked \cap payments = {}
  /\ \A i \in pass.paid : \/ i \in payments
                          \/ i \in pass.booked
                          \/ invoices[i].user \in Endless

IInv == TypeOK /\ CreditedOnce /\ MarkedPaidIsBooked /\ PassOK

-----------------------------------------------------------------------------
(* Tables as functions on the ids *)

\* A function on 1..n is a sequence of length n.
LEMMA FunctionIsSeq ==
  ASSUME NEW S, NEW n \in Nat, NEW f \in [1..n -> S]
  PROVE  f \in Seq(S) /\ Len(f) = n /\ DOMAIN f = 1..n
<1>1. f \in Seq(S)
  BY SeqDef
<1>2. f \in [1..Len(f) -> S] /\ Len(f) \in Nat
  BY <1>1, LenProperties
<1>3. 1..Len(f) = 1..n
  BY <1>2
<1>4. QED
  BY <1>1, <1>2, <1>3

\* The tables and the ids of a state that is well typed.
LEMMA Tables ==
  ASSUME TypeOK
  PROVE  \E n \in Nat : /\ Ids = 1..n /\ Len(invoices) = n
                        /\ invoices \in [1..n -> Invoice]
                        /\ remote \in [1..n -> Statuses]
                        /\ credits \in [1..n -> Nat]
  BY LenProperties DEF TypeOK, Ids

LEMMA NextTables ==
  ASSUME NEW n \in Nat,
         invoices' \in [1..n -> Invoice], remote' \in [1..n -> Statuses],
         credits' \in [1..n -> Nat]
  PROVE  /\ Ids' = 1..n
         /\ invoices' \in Seq(Invoice) /\ remote' \in Seq(Statuses) /\ credits' \in Seq(Nat)
         /\ Len(remote') = Len(invoices') /\ Len(credits') = Len(invoices')
  BY FunctionIsSeq DEF Ids

Less == {p \in Nat \X Nat : p[1] < p[2]}

LEMMA MinIsMember ==
  ASSUME NEW S, S \subseteq Nat, S # {}
  PROVE  Min(S) \in S
<1>1. IsWellFoundedOn(Less, Nat)
  BY NatLessThanWellFounded DEF Less, OpToRel
<1>2. \E c \in S : \A d \in S : ~(<<d, c>> \in Less)
  BY <1>1, WFMin
<1>3. \A c, d \in S : <<d, c>> \in Less <=> d < c
  BY DEF Less
<1>4. \E c \in S : \A d \in S : ~(d < c)
  BY <1>2, <1>3
<1>5. \E c \in S : \A d \in S : c <= d
  BY <1>4
<1>6. QED
  BY <1>5 DEF Min

-----------------------------------------------------------------------------
(* The steps *)

LEMMA InitOK == Init => IInv
<1> SUFFICES ASSUME Init PROVE IInv
  OBVIOUS
<1>1. Ids = {}
  BY DEF Init, Ids
<1>2. pass \in Pass
  BY DEF Init, NoPass, Pass
<1>3. TypeOK
  BY <1>1, <1>2, EmptySeq DEF Init, TypeOK, NoPass, Held
<1>4. QED
  BY <1>1, <1>3 DEF Init, IInv, CreditedOnce, MarkedPaidIsBooked, PassOK, NoPass

\* A step that commits nothing: it works on the clock, the provider, the sessions or
\* what the pass holds.
LEMMA NothingCommitted ==
  ASSUME IInv, UNCHANGED <<invoices, payments, credits>>,
         now' \in Nat, mishaps' \in Nat,
         remote' \in Seq(Statuses), Len(remote') = Len(remote),
         sessions' \in SUBSET Session,
         \A s \in sessions' : s.kind = "webhook" => s.invoice \in Ids,
         pass' \in Pass, (pass.todo \cup Held \cup pass.booked)' \subseteq Ids,
         pass'.phase = "book" => pass'.current \in Ids,
         PassOK'
  PROVE  IInv'
<1>1. Ids' = Ids
  BY DEF Ids
<1>2. TypeOK'
  BY <1>1 DEF IInv, TypeOK
<1>3. CreditedOnce' /\ MarkedPaidIsBooked'
  BY <1>1 DEF IInv, CreditedOnce, MarkedPaidIsBooked
<1>4. QED
  BY <1>2, <1>3 DEF IInv

\* The same when the pass is left alone.
LEMMA PassKept ==
  ASSUME IInv, UNCHANGED <<invoices, payments, credits, pass>>,
         now' \in Nat, mishaps' \in Nat,
         remote' \in Seq(Statuses), Len(remote') = Len(remote),
         sessions' \in SUBSET Session,
         \A s \in sessions' : s.kind = "webhook" => s.invoice \in Ids
  PROVE  IInv'
<1>1. /\ pass' \in Pass /\ (pass.todo \cup Held \cup pass.booked)' \subseteq Ids
      /\ pass'.phase = "book" => pass'.current \in Ids
  BY DEF IInv, TypeOK, Held
<1>2. PassOK'
  BY DEF IInv, PassOK
<1>3. QED
  BY <1>1, <1>2, NothingCommitted

LEMMA TickKeeps == ASSUME IInv, Tick PROVE IInv'
  BY PassKept DEF Tick, IInv, TypeOK

LEMMA ProviderKeeps ==
  ASSUME IInv, NEW i \in Ids, UserPays(i) \/ InvoiceExpires(i)
  PROVE  IInv'
<1>1. i \in 1..Len(remote) /\ remote \in Seq(Statuses)
  BY LenProperties DEF IInv, TypeOK, Ids
<1>2. PICK v \in Statuses : remote' = [remote EXCEPT ![i] = v]
  BY DEF UserPays, InvoiceExpires, Statuses
<1>3. remote' \in Seq(Statuses) /\ Len(remote') = Len(remote)
  BY <1>1, <1>2, ExceptSeq
<1>4. QED
  BY <1>3, PassKept DEF UserPays, InvoiceExpires, IInv, TypeOK

LEMMA BeginOrderKeeps ==
  ASSUME IInv, NEW h \in Handlers, NEW u \in Users, BeginOrder(h, u)
  PROVE  IInv'
<1>1. sessions' \in SUBSET Session
  BY DEF IInv, TypeOK, BeginOrder, Session
<1>2. \A s \in sessions' : s.kind = "webhook" => s.invoice \in Ids
  BY DEF IInv, TypeOK, BeginOrder
<1>3. QED
  BY <1>1, <1>2, PassKept DEF BeginOrder, IInv, TypeOK

LEMMA BeginWebhookKeeps ==
  ASSUME IInv, NEW h \in Handlers, NEW i \in Ids, BeginWebhook(h, i)
  PROVE  IInv'
<1>1. i \in Nat
  BY Tables DEF IInv
<1>2. sessions' \in SUBSET Session
  BY <1>1 DEF IInv, TypeOK, BeginWebhook, Session
<1>3. \A s \in sessions' : s.kind = "webhook" => s.invoice \in Ids
  BY DEF IInv, TypeOK, BeginWebhook
<1>4. QED
  BY <1>2, <1>3, PassKept DEF BeginWebhook, IInv, TypeOK

LEMMA RollbackKeeps ==
  ASSUME IInv, NEW s \in sessions, Rollback(s)
  PROVE  IInv'
  BY PassKept DEF Rollback, IInv, TypeOK

\* The invoice that is stored has no payment and no credit yet.
LEMMA CommitOrderKeeps ==
  ASSUME IInv, NEW s \in sessions, CommitOrder(s)
  PROVE  IInv'
<1> DEFINE new == [user |-> s.user, status |-> "active", ends |-> now + TTL]
<1>1. new \in Invoice /\ new.status = "active"
  BY CryptoAssumption DEF IInv, TypeOK, CommitOrder, Session, Invoice, Statuses
<1>2. /\ invoices' = Append(invoices, new) /\ remote' = Append(remote, "active")
      /\ credits' = Append(credits, 0)
      /\ sessions' = sessions \ {s}
      /\ UNCHANGED <<now, payments, pass, mishaps>>
  BY DEF CommitOrder
<1> HIDE DEF new
<1>3. PICK n \in Nat : /\ Ids = 1..n /\ Len(invoices) = n /\ Len(remote) = n /\ Len(credits) = n
                       /\ invoices \in Seq(Invoice) /\ remote \in Seq(Statuses)
                       /\ credits \in Seq(Nat)
  BY Tables DEF IInv, TypeOK
<1>4. /\ invoices' \in Seq(Invoice) /\ Len(invoices') = n + 1
      /\ \A i \in 1..n : invoices'[i] = invoices[i]
      /\ invoices'[n + 1] = new
  BY <1>1, <1>2, <1>3, AppendProperties
<1>5. "active" \in Statuses
  BY DEF Statuses
<1>6. remote' \in Seq(Statuses) /\ Len(remote') = n + 1
  BY <1>2, <1>3, <1>5, AppendProperties
<1>7. /\ credits' \in Seq(Nat) /\ Len(credits') = n + 1
      /\ \A i \in 1..n : credits'[i] = credits[i]
      /\ credits'[n + 1] = 0
  BY <1>2, <1>3, AppendProperties
<1>8. Ids' = 1..(n + 1) /\ Ids \subseteq Ids' /\ n + 1 \notin Ids
  BY <1>3, <1>4, LenProperties DEF Ids
<1>9. TypeOK'
  <2>1. payments' \subseteq Ids' /\ (pass.todo \cup Held \cup pass.booked)' \subseteq Ids'
    BY <1>2, <1>8 DEF IInv, TypeOK, Held
  <2>2. /\ sessions' \in SUBSET Session
        /\ \A r \in sessions' : r.kind = "webhook" => r.invoice \in Ids'
    BY <1>2, <1>8 DEF IInv, TypeOK
  <2>3. QED
    BY <1>2, <1>4, <1>6, <1>7, <1>8, <2>1, <2>2 DEF IInv, TypeOK
<1>10. \A i \in Ids' : i \in Ids \/ (i = n + 1 /\ i \notin payments)
  BY <1>3, <1>8 DEF IInv, TypeOK
<1>11. CreditedOnce'
  BY <1>2, <1>3, <1>7, <1>10 DEF IInv, CreditedOnce
<1>12. MarkedPaidIsBooked'
  BY <1>1, <1>2, <1>3, <1>4, <1>10 DEF IInv, MarkedPaidIsBooked
<1>13. PassOK'
  BY <1>2, <1>3, <1>4 DEF IInv, TypeOK, PassOK, Held
<1>14. QED
  BY <1>9, <1>11, <1>12, <1>13 DEF IInv

\* The payment of a webhook: the pass does not hold the row, so it has not booked it.
LEMMA CommitWebhookKeeps ==
  ASSUME IInv, NEW s \in sessions, CommitWebhook(s)
  PROVE  IInv'
<1> DEFINE i == s.invoice
           new == [invoices[i] EXCEPT !.status = "paid"]
<1>1. /\ i \in Ids /\ i \notin Held /\ i \notin payments
      /\ invoices' = [invoices EXCEPT ![i] = new]
      /\ payments' = payments \cup {i}
      /\ credits' = [credits EXCEPT ![i] = credits[i] + 1]
      /\ sessions' = sessions \ {s}
      /\ UNCHANGED <<now, remote, pass, mishaps>>
  BY DEF CommitWebhook, IInv, TypeOK
<1>2. PICK n \in Nat : /\ Ids = 1..n
                       /\ invoices \in [1..n -> Invoice] /\ remote \in [1..n -> Statuses]
                       /\ credits \in [1..n -> Nat]
  BY Tables DEF IInv
<1>3. new \in Invoice /\ new.user = invoices[i].user
  BY <1>1, <1>2 DEF Invoice, Statuses
<1> HIDE DEF new, i
<1>4. /\ invoices' \in [1..n -> Invoice] /\ remote' \in [1..n -> Statuses]
      /\ \A j \in Ids : /\ j # i => invoices'[j] = invoices[j]
                        /\ invoices'[j].user = invoices[j].user
  BY <1>1, <1>2, <1>3
<1>5. /\ credits' \in [1..n -> Nat]
      /\ \A j \in Ids : credits'[j] = IF j = i THEN credits[j] + 1 ELSE credits[j]
  BY <1>1, <1>2
<1>6. TypeOK'
  <2>1. /\ Ids' = Ids
        /\ invoices' \in Seq(Invoice) /\ remote' \in Seq(Statuses) /\ credits' \in Seq(Nat)
        /\ Len(remote') = Len(invoices') /\ Len(credits') = Len(invoices')
    BY <1>2, <1>4, <1>5, NextTables
  <2>2. QED
    BY <1>1, <2>1 DEF IInv, TypeOK, Held
<1>7. Ids' = Ids
  BY <1>2, <1>4, <1>5, NextTables
<1>8. CreditedOnce'
  BY <1>1, <1>5, <1>7 DEF IInv, CreditedOnce
<1>9. MarkedPaidIsBooked'
  BY <1>1, <1>4, <1>7 DEF IInv, MarkedPaidIsBooked
<1>10. PassOK'
  BY <1>1, <1>4 DEF IInv, TypeOK, PassOK, Held
<1>11. QED
  BY <1>6, <1>8, <1>9, <1>10 DEF IInv

\* A step of the pass that is not its commit.
LEMMA PassOnly ==
  ASSUME IInv, UNCHANGED passOnly, mishaps' \in Nat, pass' \in Pass,
         (pass.todo \cup Held \cup pass.booked)' \subseteq Ids,
         pass'.phase = "book" => pass'.current \in Ids, PassOK'
  PROVE  IInv'
  BY NothingCommitted DEF passOnly, IInv, TypeOK

LEMMA StartPassKeeps == ASSUME IInv, StartPass PROVE IInv'
<1>1. OldestFirst(Listable) \subseteq Ids /\ Ids \subseteq Nat
  BY Tables DEF OldestFirst, Listable, IInv
<1>2. /\ pass' \in Pass /\ pass'.paid = {} /\ pass'.expired = {} /\ pass'.booked = {}
      /\ pass'.todo \subseteq Ids /\ pass'.phase = "next"
  BY <1>1 DEF StartPass, NoPass, Pass
<1>3. QED
  BY <1>2, PassOnly DEF StartPass, IInv, TypeOK, Held, PassOK

\* The pass is dropped, with all that its session held.
LEMMA DroppedPass ==
  pass' = NoPass => /\ pass' \in Pass /\ (pass.todo \cup Held \cup pass.booked)' = {}
                    /\ pass'.phase # "book" /\ PassOK'
  BY DEF NoPass, Pass, Held, PassOK

\* What the pass works on are ids.
LEMMA TodoIsId ==
  ASSUME IInv, pass.todo # {}
  PROVE  Min(pass.todo) \in pass.todo /\ Min(pass.todo) \in Ids /\ Ids \subseteq Nat
<1>1. Ids \subseteq Nat /\ pass.todo \subseteq Ids
  BY Tables DEF IInv, TypeOK
<1>2. QED
  BY <1>1, MinIsMember

LEMMA SyncNextKeeps == ASSUME IInv, SyncNext PROVE IInv'
<1>1. PICK i \in Ids : i = Min(pass.todo) /\ i \in Nat
  BY TodoIsId DEF SyncNext
<1> DEFINE rest == [pass EXCEPT !.todo = pass.todo \ {i}]
<1>2. /\ rest \in Pass /\ rest.todo \subseteq Ids /\ rest.paid = pass.paid
      /\ rest.expired = pass.expired /\ rest.booked = pass.booked /\ rest.phase = "next"
  BY DEF IInv, TypeOK, Pass, SyncNext
<1>3. \/ pass' = rest
      \/ pass' = [rest EXCEPT !.expired = pass.expired \cup {i}]
      \/ i \in payments /\ pass' = [rest EXCEPT !.paid = pass.paid \cup {i}]
      \/ pass' = [rest EXCEPT !.phase = "book", !.current = i]
  BY <1>1 DEF SyncNext
<1>4. UNCHANGED <<passOnly, mishaps>> /\ payments' = payments /\ invoices' = invoices
  BY DEF SyncNext, passOnly
<1> HIDE DEF rest
<1>5. /\ pass' \in Pass /\ pass'.todo \subseteq Ids /\ pass'.booked = pass.booked
      /\ pass'.paid \subseteq pass.paid \cup (payments \cap {i})
      /\ pass.paid \subseteq pass'.paid
      /\ pass'.expired \subseteq pass.expired \cup {i}
      /\ pass'.phase = "book" => pass'.current = i
  <2>1. CASE pass' = rest
    BY <1>2, <2>1
  <2>2. CASE pass' = [rest EXCEPT !.expired = pass.expired \cup {i}]
    BY <1>1, <1>2, <2>2 DEF Pass
  <2>3. CASE i \in payments /\ pass' = [rest EXCEPT !.paid = pass.paid \cup {i}]
    BY <1>1, <1>2, <2>3 DEF Pass
  <2>4. CASE pass' = [rest EXCEPT !.phase = "book", !.current = i]
    <3> DEFINE r == [rest EXCEPT !.phase = "book"]
    <3>1. /\ r \in Pass /\ r.todo = rest.todo /\ r.paid = rest.paid
          /\ r.expired = rest.expired /\ r.booked = rest.booked
      BY <1>2 DEF Pass
    <3>2. pass' = [r EXCEPT !.current = i]
      BY <2>4, Zenon
    <3> HIDE DEF r
    <3>3. QED
      BY <1>1, <1>2, <3>1, <3>2 DEF Pass
  <2>5. QED
    BY <1>3, <2>1, <2>2, <2>3, <2>4
<1>6. PassOK'
  BY <1>4, <1>5 DEF IInv, PassOK
<1>7. (pass.todo \cup Held \cup pass.booked)' \subseteq Ids
  BY <1>5 DEF IInv, TypeOK, Held
<1>8. QED
  BY <1>4, <1>5, <1>6, <1>7, PassOnly DEF IInv, TypeOK

LEMMA FetchFailsKeeps == ASSUME IInv, FetchFails PROVE IInv'
<1>1. /\ pass' \in Pass /\ pass'.todo \subseteq pass.todo /\ pass'.paid = pass.paid
      /\ pass'.expired = pass.expired /\ pass'.booked = pass.booked
      /\ pass'.phase = "next"
  BY DEF IInv, TypeOK, Pass, FetchFails
<1>2. UNCHANGED passOnly /\ payments' = payments /\ invoices' = invoices /\ mishaps' \in Nat
  BY DEF FetchFails, passOnly, IInv, TypeOK
<1>3. PassOK' /\ (pass.todo \cup Held \cup pass.booked)' \subseteq Ids
  BY <1>1, <1>2 DEF IInv, PassOK, TypeOK, Held
<1>4. QED
  BY <1>1, <1>2, <1>3, PassOnly

LEMMA BookKeeps == ASSUME IInv, Book PROVE IInv'
<1>1. PICK i \in Ids : i = pass.current
  BY DEF Book, IInv, TypeOK
<1> DEFINE done == [pass EXCEPT !.phase = "next", !.current = 0, !.paid = pass.paid \cup {i}]
<1>2. i \in Nat
  BY Tables DEF IInv
<1>3. /\ done \in Pass /\ done.todo = pass.todo /\ done.paid = pass.paid \cup {i}
      /\ done.expired = pass.expired /\ done.booked = pass.booked /\ done.phase = "next"
  BY <1>2 DEF IInv, TypeOK, Pass
<1>4. \/ invoices[i].user \in Endless /\ pass' = done
      \/ pass' = NoPass
      \/ i \notin payments /\ pass' = [done EXCEPT !.booked = pass.booked \cup {i}]
  BY <1>1 DEF Book
<1>5. UNCHANGED <<passOnly, mishaps>> /\ payments' = payments /\ invoices' = invoices
  BY DEF Book, passOnly
<1> HIDE DEF done
<1>6. CASE pass' = NoPass
  BY <1>5, <1>6, DroppedPass, PassOnly DEF IInv, TypeOK
<1>7. CASE pass' # NoPass
  <2>1. /\ pass' \in Pass /\ pass'.todo = pass.todo /\ pass'.paid = pass.paid \cup {i}
        /\ pass'.expired = pass.expired /\ pass'.phase = "next"
        /\ \/ pass'.booked = pass.booked /\ invoices[i].user \in Endless
           \/ pass'.booked = pass.booked \cup {i} /\ i \notin payments
    BY <1>2, <1>3, <1>4, <1>7 DEF Pass
  <2>2. PassOK'
    BY <1>5, <2>1 DEF IInv, PassOK
  <2>3. (pass.todo \cup Held \cup pass.booked)' \subseteq Ids
    BY <1>1, <2>1 DEF IInv, TypeOK, Held
  <2>4. QED
    BY <1>5, <2>1, <2>2, <2>3, PassOnly DEF IInv, TypeOK
<1>8. QED
  BY <1>6, <1>7

\* Everything the pass holds is committed at once.
LEMMA CommitPassKeeps == ASSUME IInv, CommitPass PROVE IInv'
<1>1. PICK n \in Nat : /\ Ids = 1..n
                       /\ invoices \in [1..n -> Invoice] /\ remote \in [1..n -> Statuses]
                       /\ credits \in [1..n -> Nat]
  BY Tables DEF IInv
<1>2. /\ payments' = payments \cup pass.booked
      /\ invoices' = [i \in Ids |-> [invoices[i] EXCEPT !.status = StatusAfter(i)]]
      /\ credits' = [i \in Ids |-> IF i \in pass.booked THEN credits[i] + 1 ELSE credits[i]]
      /\ pass' = NoPass
      /\ UNCHANGED <<now, remote, sessions, mishaps>>
  BY DEF CommitPass
<1>3. \A i \in Ids : /\ StatusAfter(i) \in Statuses
                     /\ StatusAfter(i) = "paid" => i \in pass.paid \/ invoices[i].status = "paid"
  BY <1>1 DEF StatusAfter, Statuses, Invoice
<1>4. /\ invoices' \in [1..n -> Invoice]
      /\ \A i \in Ids : /\ invoices'[i].user = invoices[i].user
                        /\ invoices'[i].status = StatusAfter(i)
  BY <1>1, <1>2, <1>3 DEF Invoice
<1>5. /\ credits' \in [1..n -> Nat]
      /\ \A i \in Ids : credits'[i] = IF i \in pass.booked THEN credits[i] + 1 ELSE credits[i]
  BY <1>1, <1>2
<1>6. /\ Ids' = Ids
      /\ invoices' \in Seq(Invoice) /\ remote' \in Seq(Statuses) /\ credits' \in Seq(Nat)
      /\ Len(remote') = Len(invoices') /\ Len(credits') = Len(invoices')
  BY <1>1, <1>2, <1>4, <1>5, NextTables
<1>7. /\ pass' \in Pass /\ (pass.todo \cup Held \cup pass.booked)' = {}
      /\ pass'.phase # "book" /\ PassOK'
  BY <1>2, DroppedPass
<1>8. TypeOK'
  BY <1>2, <1>6, <1>7 DEF IInv, TypeOK
<1>9. CreditedOnce'
  BY <1>2, <1>5, <1>6 DEF IInv, CreditedOnce, PassOK
<1>10. MarkedPaidIsBooked'
  BY <1>2, <1>3, <1>4, <1>6 DEF IInv, MarkedPaidIsBooked, PassOK
<1>11. QED
  BY <1>7, <1>8, <1>9, <1>10 DEF IInv

LEMMA CrashKeeps == ASSUME IInv, Crash PROVE IInv'
<1>1. /\ UNCHANGED <<invoices, payments, credits, now, remote>> /\ sessions' = {}
      /\ mishaps' \in Nat /\ pass' = NoPass
  BY DEF Crash, IInv, TypeOK
<1>2. QED
  BY <1>1, DroppedPass, NothingCommitted DEF IInv, TypeOK

LEMMA StepOK == IInv /\ [Next]_vars => IInv'
<1> SUFFICES ASSUME IInv, [Next]_vars PROVE IInv'
  OBVIOUS
<1>1. CASE Tick
  BY <1>1, TickKeeps
<1>2. CASE \E i \in Ids : UserPays(i) \/ InvoiceExpires(i)
  BY <1>2, ProviderKeeps
<1>3. CASE \E h \in Handlers, u \in Users : BeginOrder(h, u)
  BY <1>3, BeginOrderKeeps
<1>4. CASE \E h \in Handlers, i \in Ids : BeginWebhook(h, i)
  BY <1>4, BeginWebhookKeeps
<1>5. CASE \E s \in sessions : CommitOrder(s) \/ CommitWebhook(s) \/ Rollback(s)
  BY <1>5, CommitOrderKeeps, CommitWebhookKeeps, RollbackKeeps
<1>6. CASE Worker
  BY <1>6, StartPassKeeps, SyncNextKeeps, FetchFailsKeeps, BookKeeps, CommitPassKeeps DEF Worker
<1>7. CASE Crash
  BY <1>7, CrashKeeps
<1>8. CASE UNCHANGED vars
  BY <1>8, PassKept DEF vars, IInv, TypeOK
<1>9. QED
  BY <1>1, <1>2, <1>3, <1>4, <1>5, <1>6, <1>7, <1>8 DEF Next

-----------------------------------------------------------------------------
(* The theorems *)

\* The strengthened invariant: the pass holds no booking of an invoice that has a payment,
\* and no invoice it has set to paid is without one, unless its buyer cannot be extended.
THEOREM CryptoInvariant == Spec => []IInv
  BY InitOK, StepOK, PTL DEF Spec

\* The tables, the sessions and the pass have their types; what the pass works on exists.
THEOREM CryptoTypes == Spec => []TypeOK
<1>1. IInv => TypeOK
  BY DEF IInv
<1>2. QED
  BY <1>1, CryptoInvariant, PTL

\* Whatever webhooks and passes overlap, fail, repeat and are cut short, an invoice is
\* credited exactly when it has its payment, and once.
THEOREM InvoiceCreditedOnce == Spec => []CreditedOnce
<1>1. IInv => CreditedOnce
  BY DEF IInv
<1>2. QED
  BY <1>1, CryptoInvariant, PTL

\* An invoice shown as paid has its payment, or a buyer who cannot be extended.
THEOREM PaidIsBooked == Spec => []MarkedPaidIsBooked
<1>1. IInv => MarkedPaidIsBooked
  BY DEF IInv
<1>2. QED
  BY <1>1, CryptoInvariant, PTL
=============================================================================
