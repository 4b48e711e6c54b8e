----------------------------- MODULE CryptoPay -----------------------------
(***************************************************************************)
(* Crypto Pay: the invoices of one tariff, the order handler that creates  *)
(* or reuses one, the webhook of the provider and the reconciliation pass  *)
(* of the scheduler, which all work on table crypto_invoices and book paid *)
(* invoices in table payments (sync_crypto_invoice).                       *)
(*                                                                         *)
(* A webhook request reads in one step and commits in a later one.  The    *)
(* reconciliation pass handles a whole batch in one session: a failure of  *)
(* one invoice is audited and the pass goes on, and everything the session *)
(* holds, half of a failed invoice included, is committed at the end.      *)
(*                                                                         *)
(* Abstractions: activate_or_extend_subscription is a credit (module       *)
(* Access has the subscription itself); amounts, assets, audit rows and    *)
(* referral rewards are left out.                                          *)
(***************************************************************************)
EXTENDS Integers, Sequences, FiniteSets, FiniteSetsExt

CONSTANTS
  Users,        \* buyers
  Endless,      \* buyers whose subscription ends at LIFETIME_EXPIRES_AT under an
                \* ordinary tariff: adding days to it raises OverflowError
  Handlers,     \* handlers and webhook requests that can run at once
  WebhookOn,    \* the provider can reach the webhook
  TTL,          \* DEFAULT_CRYPTO_INVOICE_TTL_SECONDS
  BatchLimit,   \* limit of one reconciliation pass
  MaxInvoices,  \* bound on the invoices created
  MaxTime,      \* bound on the clock
  MaxMishaps    \* bound on failed requests to the provider and restarts, together

ASSUME CryptoAssumption ==
  /\ Endless \subseteq Users
  /\ WebhookOn \in BOOLEAN
  /\ TTL \in Nat \ {0}
  /\ BatchLimit \in Nat \ {0}
  /\ MaxInvoices \in Nat
  /\ MaxTime \in Nat
  /\ MaxMishaps \in Nat

VARIABLES
  now,      \* utcnow()
  invoices, \* table crypto_invoices: invoices[i] has external id i
  remote,   \* remote[i]: status of invoice i at the provider
  payments, \* invoices i with a payment of charge id "crypto:invoice:i" (UNIQUE)
  sessions, \* open sessions of order handlers and webhook requests
  pass,     \* the reconciliation pass and the writes its session holds
  mishaps,  \* failed requests and restarts so far
  credits   \* history: credits[i] activations were committed for invoice i

vars == <<now, invoices, remote, payments, sessions, pass, mishaps, credits>>

-----------------------------------------------------------------------------
Statuses == {"active", "paid", "expired"}

Invoice == [user : Users, status : Statuses, ends : Nat]

Session == [kind : {"order"}, handler : Handlers, user : Users]
           \cup [kind : {"webhook"}, handler : Handlers, invoice : Nat]

\* phase "book": the invoice current is found paid and without a payment, and
\* its activation and payment have not been flushed yet.
Pass == [phase   : {"idle", "next", "book"},
         todo    : SUBSET Nat,
         current : Nat,
         paid    : SUBSET Nat,   \* invoices the session has set to paid,
         expired : SUBSET Nat,   \* to expired,
         booked  : SUBSET Nat]   \* and given a payment

NoPass == [phase |-> "idle", todo |-> {}, current |-> 0,
           paid |-> {}, expired |-> {}, booked |-> {}]

Ids == DOMAIN invoices
Busy(h) == \E s \in sessions : s.handler = h

\* Rows the open pass has flushed: the database holds them until its commit.
Held == pass.paid \cup pass.expired

-----------------------------------------------------------------------------
(* Queries of CryptoInvoiceRepository *)

Reusable(u) == {i \in Ids : /\ invoices[i].user = u
                            /\ invoices[i].status = "active"
                            /\ invoices[i].ends > now}

\* Mutant of Listable: an invoice that ends now is left out.
ListableBeforeEnd == {i \in Ids : invoices[i].status = "active" /\ invoices[i].ends > now}

Listable == {i \in Ids : invoices[i].status = "active" /\ invoices[i].ends >= now}

\* ORDER BY created_at, id LIMIT BatchLimit.
OldestFirst(S) == {i \in S : Cardinality({j \in S : j < i}) < BatchLimit}

-----------------------------------------------------------------------------
Init ==
  /\ now = 0
  /\ invoices = <<>>
  /\ remote = <<>>
  /\ payments = {}
  /\ sessions = {}
  /\ pass = NoPass
  /\ mishaps = 0
  /\ credits = <<>>

Tick ==
  /\ now < MaxTime
  /\ now' = now + 1
  /\ UNCHANGED <<invoices, remote, payments, sessions, pass, mishaps, credits>>

(* The provider *)

UserPays(i) ==
  /\ remote[i] = "active"
  /\ now < invoices[i].ends
  /\ remote' = [remote EXCEPT ![i] = "paid"]
  /\ UNCHANGED <<now, invoices, payments, sessions, pass, mishaps, credits>>

InvoiceExpires(i) ==
  /\ remote[i] = "active"
  /\ now >= invoices[i].ends
  /\ remote' = [remote EXCEPT ![i] = "expired"]
  /\ UNCHANGED <<now, invoices, payments, sessions, pass, mishaps, credits>>

-----------------------------------------------------------------------------
(* buy_crypto_tariff and create_crypto_invoice *)

\* The order handler finds no invoice to reuse.  (One that it finds it shows
\* again, without a change of state.)
BeginOrder(h, u) ==
  /\ ~Busy(h)
  /\ Reusable(u) = {}
  /\ sessions' = sessions \cup {[kind |-> "order", handler |-> h, user |-> u]}
  /\ UNCHANGED <<now, invoices, remote, payments, pass, mishaps, credits>>

\* The provider creates the invoice, the handler stores it and commits.
CommitOrder(s) ==
  /\ s.kind = "order"
  /\ Len(invoices) < MaxInvoices
  /\ sessions' = sessions \ {s}
  /\ invoices' = Append(invoices, [user |-> s.user, status |-> "active",
                                   ends |-> now + TTL])
  /\ remote' = Append(remote, "active")
  /\ credits' = Append(credits, 0)
  /\ UNCHANGED <<now, payments, pass, mishaps>>

\* The handler or the request raises: session.rollback().
Rollback(s) ==
  /\ sessions' = sessions \ {s}
  /\ UNCHANGED <<now, invoices, remote, payments, pass, mishaps, credits>>

-----------------------------------------------------------------------------
(* crypto_pay_webhook *)

\* A signed "invoice_paid" for an invoice that has no payment yet.  The provider
\* may send it never, once or often.
BeginWebhook(h, i) ==
  /\ WebhookOn
  /\ ~Busy(h)
  /\ remote[i] = "paid"
  /\ i \notin payments
  /\ sessions' = sessions \cup {[kind |-> "webhook", handler |-> h, invoice |-> i]}
  /\ UNCHANGED <<now, invoices, remote, payments, pass, mishaps, credits>>

\* The activation, the payment and the status are committed together.  A charge
\* id that was booked meanwhile violates the UNIQUE constraint, and adding days
\* to an endless subscription overflows: both end in a rollback and status 500.
CommitWebhook(s) ==
  /\ s.kind = "webhook"
  /\ s.invoice \notin Held
  /\ invoices[s.invoice].user \notin Endless
  /\ s.invoice \notin payments
  /\ sessions' = sessions \ {s}
  /\ invoices' = [invoices EXCEPT ![s.invoice].status = "paid"]
  /\ payments' = payments \cup {s.invoice}
  /\ credits' = [credits EXCEPT ![s.invoice] = @ + 1]
  /\ UNCHANGED <<now, remote, pass, mishaps>>

-----------------------------------------------------------------------------
(* reconcile_active_crypto_invoices *)

passOnly == <<now, invoices, remote, payments, sessions, credits>>

StartPass ==
  /\ pass.phase = "idle"
  /\ Listable # {}
  /\ pass' = [NoPass EXCEPT !.phase = "next", !.todo = OldestFirst(Listable)]
  /\ UNCHANGED <<passOnly, mishaps>>

\* crypto_client.get_invoice
Fetched(i) == remote[i]

\* Mutant of SyncNext: the status of a paid invoice is all that is synchronised.
SyncNextStatusOnly ==
  /\ pass.phase = "next"
  /\ pass.todo # {}
  /\ LET i    == Min(pass.todo)
         rest == [pass EXCEPT !.todo = @ \ {i}] IN
     \/ /\ Fetched(i) = "active"
        /\ pass' = rest
     \/ /\ Fetched(i) = "expired"
        /\ pass' = [rest EXCEPT !.expired = @ \cup {i}]
     \/ /\ Fetched(i) = "paid"
        /\ pass' = [rest EXCEPT !.paid = @ \cup {i}]
  /\ UNCHANGED <<passOnly, mishaps>>

\* The next invoice of the batch is fetched and compared with table payments.
SyncNext ==
  /\ pass.phase = "next"
  /\ pass.todo # {}
  /\ LET i    == Min(pass.todo)
         rest == [pass EXCEPT !.todo = @ \ {i}] IN
     \/ /\ Fetched(i) = "active"
        /\ pass' = rest
     \/ /\ Fetched(i) = "expired"
        /\ pass' = [rest EXCEPT !.expired = @ \cup {i}]
     \/ /\ Fetched(i) = "paid"
        /\ i \in payments
        /\ pass' = [rest EXCEPT !.paid = @ \cup {i}]
     \/ /\ Fetched(i) = "paid"
        /\ i \notin payments
        /\ pass' = [rest EXCEPT !.phase = "book", !.current = i]
  /\ UNCHANGED <<passOnly, mishaps>>

\* The request to the provider fails: audited, and the pass goes on.
FetchFails ==
  /\ pass.phase = "next"
  /\ pass.todo # {}
  /\ mishaps < MaxMishaps
  /\ mishaps' = mishaps + 1
  /\ pass' = [pass EXCEPT !.todo = @ \ {Min(pass.todo)}]
  /\ UNCHANGED passOnly

\* Mutant of Book: a payment of the same charge id that was booked meanwhile
\* goes unnoticed.
BookTwice ==
  /\ pass.phase = "book"
  /\ LET i == pass.current IN
     pass' = [pass EXCEPT !.phase = "next", !.current = 0,
                          !.paid = @ \cup {i}, !.booked = @ \cup {i}]
  /\ UNCHANGED <<passOnly, mishaps>>

\* The activation and the payment of the invoice are flushed.  An activation that
\* overflows is audited and leaves the status that was set before it.  A charge
\* id that a webhook has booked meanwhile poisons the session: the audit row
\* cannot be written, and the whole batch is rolled back.
Book ==
  /\ pass.phase = "book"
  /\ LET i    == pass.current
         done == [pass EXCEPT !.phase = "next", !.current = 0, !.paid = @ \cup {i}] IN
     \/ /\ invoices[i].user \in Endless
        /\ pass' = done
     \/ /\ invoices[i].user \notin Endless
        /\ i \in payments
        /\ pass' = NoPass
     \/ /\ invoices[i].user \notin Endless
        /\ i \notin payments
        /\ pass' = [done EXCEPT !.booked = @ \cup {i}]
  /\ UNCHANGED <<passOnly, mishaps>>

StatusAfter(i) == CASE i \in pass.paid    -> "paid"
                    [] i \in pass.expired -> "expired"
                    [] OTHER              -> invoices[i].status

CommitPass ==
  /\ pass.phase = "next"
  /\ pass.todo = {}
  /\ payments' = payments \cup pass.booked
  /\ invoices' = [i \in Ids |-> [invoices[i] EXCEPT !.status = StatusAfter(i)]]
  /\ credits' = [i \in Ids |-> IF i \in pass.booked THEN credits[i] + 1 ELSE credits[i]]
  /\ pass' = NoPass
  /\ UNCHANGED <<now, remote, sessions, mishaps>>

\* The process dies and is restarted.
Crash ==
  /\ mishaps < MaxMishaps
  /\ mishaps' = mishaps + 1
  /\ sessions' = {}
  /\ pass' = NoPass
  /\ UNCHANGED <<now, invoices, remote, payments, credits>>

-----------------------------------------------------------------------------
Worker == StartPass \/ SyncNext \/ FetchFails \/ Book \/ CommitPass

Next ==
  \/ Tick
  \/ \E i \in Ids : UserPays(i) \/ InvoiceExpires(i)
  \/ \E h \in Handlers, u \in Users : BeginOrder(h, u)
  \/ \E h \in Handlers, i \in Ids : BeginWebhook(h, i)
  \/ \E s \in sessions : CommitOrder(s) \/ CommitWebhook(s) \/ Rollback(s)
  \/ Worker
  \/ Crash

\* run_background_workers repeats the pass; an invoice that nobody pays expires.
Fairness ==
  /\ WF_vars(Tick)
  /\ WF_vars(Worker)
  /\ WF_vars(\E i \in Ids : InvoiceExpires(i))

Spec == Init /\ [][Next]_vars
FairSpec == Spec /\ Fairness
-----------------------------------------------------------------------------
(* Properties *)

\* Every variable has its type.
TypeOK ==
  /\ now \in Nat
  /\ invoices \in Seq(Invoice)
  /\ remote \in Seq(Statuses)
  /\ credits \in Seq(Nat)
  /\ Len(remote) = Len(invoices) /\ Len(credits) = Len(invoices)
  /\ payments \subseteq Ids
  /\ sessions \in SUBSET Session
  /\ \A s \in sessions : s.kind = "webhook" => s.invoice \in Ids
  /\ pass \in Pass
  /\ pass.todo \cup Held \cup pass.booked \subseteq Ids
  /\ pass.phase = "book" => pass.current \in Ids
  /\ mishaps \in Nat

\* An invoice is credited once, and together with its payment, when webhook
\* requests and the reconciliation pass find it paid at the same time, when a
\* batch is lost and repeated, and across restarts.
CreditedOnce == \A i \in Ids : credits[i] = IF i \in payments THEN 1 ELSE 0

\* An invoice that table crypto_invoices shows as paid has its payment, except
\* when the owner's subscription cannot be extended: then the reconciliation has
\* kept the status and lost the payment, and will not look at the invoice again.
MarkedPaidIsBooked ==
  \A i \in Ids : invoices[i].status = "paid" =>
    i \in payments \/ invoices[i].user \in Endless

\* The reconciliation pass alone, without any webhook, books every paid invoice
\* that it can list until the end, through failing requests and lost batches.
Payable(i) == /\ i \in Ids
              /\ remote[i] = "paid"
              /\ invoices[i].user \notin Endless
InTime(i) == Payable(i) /\ invoices[i].ends >= MaxTime
InTimeIsBooked ==
  \A i \in 1 .. MaxInvoices : InTime(i) ~> i \in payments
=============================================================================
