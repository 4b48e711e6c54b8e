----------------------------- MODULE Broadcast -----------------------------
(***************************************************************************)
(* Broadcasts: the admin's wizard (a draft in the FSM storage, edited and  *)
(* confirmed by handlers that aiogram runs concurrently), the tables       *)
(* broadcast_campaigns and broadcast_deliveries, and the worker pass that  *)
(* sends a batch and commits it at once.                                   *)
(*                                                                         *)
(* A handler reads the draft in one step and writes in a later one: the    *)
(* queries between them suspend it.  The FSM storage is aiogram's memory   *)
(* storage (bot/factory.py:17): its calls do not suspend, and a restart    *)
(* loses the draft.                                                        *)
(*                                                                         *)
(* Abstractions: payments, subscriptions and invite links of a user are a  *)
(* record of what the filters ask of them, for one tariff and one channel; *)
(* texts are model values; audit rows and screens are left out, except for *)
(* the previews an admin has been shown.                                   *)
(***************************************************************************)
EXTENDS Integers, FiniteSets

CONSTANTS
  Users,        \* users.id, ordered
  Staff,        \* admins and users of another role
  Known,        \* users whose paid subscription ends soon; the rest are new
  Filters,      \* filters the admin uses
  Contents,     \* texts the admin writes
  BatchSize,    \* batch_size of a pass
  MaxAttempts,  \* max_attempts of one message
  MaxHandlers,  \* bound on the admin's handlers that run at once
  MaxSteps,     \* bound on the admin's steps in the wizard
  MaxCampaigns, \* bound on the campaign ids handed out
  MaxIncidents  \* bound on changes of users, lost answers, failed passes and
                \* restarts, together

None == "none"
Campaigns == 1..MaxCampaigns

ASSUME BroadcastAssumption ==
  /\ Users \subseteq Nat
  /\ IsFiniteSet(Users)
  /\ Staff \subseteq Users
  /\ Known \subseteq Users
  /\ None \notin Filters
  /\ None \notin Contents
  /\ BatchSize \in Nat \ {0}
  /\ MaxAttempts \in Nat \ {0}
  /\ {MaxHandlers, MaxSteps, MaxCampaigns, MaxIncidents} \subseteq Nat

VARIABLES
  life,       \* life[u]: what payments, subscriptions and invite links say of u
  blocked,    \* users with is_blocked
  quit,       \* users who stopped the bot in Telegram
  draft,      \* the admin's FSM state and data
  templates,  \* contents saved as templates
  handlers,   \* handlers of the admin that have read the draft
  nextId,     \* next id of broadcast_campaigns
  campaigns,  \* table broadcast_campaigns; status "none": no such row
  deliveries, \* table broadcast_deliveries; status "none": no such row
  worker,     \* the pass and what its session holds
  changes,    \* changes of users so far
  mishaps,    \* answers, passes and runs of the program lost so far
  copies,     \* history: copies[c][u] messages of campaign c reached u
  reports,    \* history: reports[c] completion reports went to the creator
  shown,      \* history: pairs <<filter, content>> the admin was shown
  steps,      \* the admin's steps so far
  overlapped  \* history: two handlers of the admin ran at once

userVars == <<life, blocked, quit, changes>>
wizardVars == <<draft, templates, handlers, nextId, shown, steps, overlapped>>
workerVars == <<worker, copies, reports>>
tableVars == <<campaigns, deliveries>>
vars == <<userVars, wizardVars, workerVars, tableVars, mishaps>>

-----------------------------------------------------------------------------
(* Types *)

\* access: no subscription; an active one; one that ends within
\* BROADCAST_EXPIRES_SOON_DELTA; one that has ended; one revoked before its end.
Life == [paid : BOOLEAN, access : {"none", "live", "soon", "lapsed", "revoked"},
         link : BOOLEAN]

Draft == [state   : {"none", "content", "title"},
          filter  : Filters \cup {None},
          label   : Filters \cup {None},
          content : Contents \cup {None},
          number  : Nat]  \* history: the step that began the draft

NoDraft == [state |-> "none", filter |-> None, label |-> None, content |-> None,
            number |-> 0]

Handler ==
  [kind : {"text", "template", "title"}, filter : Filters, content : Contents]
  \cup [kind : {"confirm"}, filter : Filters, content : Contents,
        id : Campaigns, recipients : SUBSET Users, draft : Nat]

Campaign == [status : {"none", "queued", "sending", "completed"},
             filter : Filters \cup {None}, content : Contents \cup {None},
             sent : Nat, failed : Nat, draft : Nat]

NoCampaign == [status |-> "none", filter |-> None, content |-> None,
               sent |-> 0, failed |-> 0, draft |-> 0]

Outcomes == {"sent", "failed", "blocked", "rate_limited"}
Delivery == {"none", "pending"} \cup Outcomes

\* at "list": the campaign is sending; "send": a batch is read; "count": it is
\* committed; "report": the campaign is completed.
Worker == [at : {"idle", "list", "send", "count", "report"},
           campaign : Campaigns \cup {0},
           todo : SUBSET Users, attempt : Nat,
           marks : [Users -> Delivery]]

Unmarked == [u \in Users |-> "none"]
Idle == [at |-> "idle", campaign |-> 0, todo |-> {}, attempt |-> 1, marks |-> Unmarked]

TypeOK ==
  /\ life \in [Users -> Life]
  /\ blocked \subseteq Users
  /\ quit \subseteq Users
  /\ draft \in Draft
  /\ templates \subseteq Contents
  /\ handlers \subseteq Handler
  /\ nextId \in 1..(MaxCampaigns + 1)
  /\ campaigns \in [Campaigns -> Campaign]
  /\ deliveries \in [Campaigns -> [Users -> Delivery]]
  /\ worker \in Worker
  /\ copies \in [Campaigns -> [Users -> Nat]]
  /\ reports \in [Campaigns -> Nat]

-----------------------------------------------------------------------------
(* Recipients *)

Active(u) == life[u].access \in {"live", "soon"}

Matches(u, f) ==
  \/ f = "all"
  \/ f = "active" /\ Active(u)
  \/ f = "expired" /\ life[u].access = "lapsed"
  \/ f = "never_paid" /\ ~life[u].paid
  \/ f = "expires_soon" /\ life[u].access = "soon"
  \/ f = "pending_join" /\ Active(u) /\ life[u].link
  \/ f = "tariff" /\ life[u].paid
  \/ f = "channel" /\ life[u].access # "none"

Skipped(u) == u \in blocked \/ u \in Staff

Recipients(f) == {u \in Users : ~Skipped(u) /\ Matches(u, f)}

\* What time and admins make of access: a trial or a subscription by hand begins,
\* it comes near its end, it ends, or it is revoked before; one that is revoked ends
\* like any other.
Turns == {<<"none", "live">>, <<"live", "soon">>, <<"soon", "lapsed">>,
          <<"live", "revoked">>, <<"soon", "revoked">>, <<"revoked", "lapsed">>}

\* What time, purchases and admins make of a user's records in one step.
Becomes(l) ==
  {[l EXCEPT !.link = FALSE], [paid |-> TRUE, access |-> "live", link |-> TRUE]}
  \cup {[l EXCEPT !.access = t[2], !.link = @ \/ t[1] = "none"] :
          t \in {t \in Turns : t[1] = l.access}}

-----------------------------------------------------------------------------
Init ==
  /\ life = [u \in Users |-> IF u \in Known
               THEN [paid |-> TRUE, access |-> "soon", link |-> FALSE]
               ELSE [paid |-> FALSE, access |-> "none", link |-> FALSE]]
  /\ blocked = {}
  /\ quit = {}
  /\ draft = NoDraft
  /\ templates = {}
  /\ handlers = {}
  /\ nextId = 1
  /\ campaigns = [c \in Campaigns |-> NoCampaign]
  /\ deliveries = [c \in Campaigns |-> Unmarked]
  /\ worker = Idle
  /\ mishaps = 0
  /\ changes = 0
  /\ copies = [c \in Campaigns |-> [u \in Users |-> 0]]
  /\ reports = [c \in Campaigns |-> 0]
  /\ shown = {}
  /\ steps = 0
  /\ overlapped = FALSE

-----------------------------------------------------------------------------
(* Users *)

\* confirm_block_toggle: the flag is turned into the opposite of what it is.
ToggleBlock(u) ==
  /\ blocked' = IF u \in blocked THEN blocked \ {u} ELSE blocked \cup {u}
  /\ UNCHANGED <<life, quit>>

UserChanges ==
  /\ changes + mishaps < MaxIncidents
  /\ changes' = changes + 1
  /\ \E u \in Users \ Staff :   \* staff are skipped whatever changes
       \/ ToggleBlock(u)
       \/ \E l \in Becomes(life[u]) : l # life[u] /\ life' = [life EXCEPT ![u] = l]
                                      /\ UNCHANGED <<blocked, quit>>
       \/ u \notin quit /\ quit' = quit \cup {u} /\ UNCHANGED <<life, blocked>>
  /\ UNCHANGED <<wizardVars, workerVars, tableVars, mishaps>>

-----------------------------------------------------------------------------
(* The wizard *)

Step ==
  /\ steps < MaxSteps
  /\ steps' = steps + 1
  /\ overlapped' = (overlapped \/ handlers # {})

\* A bound: confirmations start beside other handlers, the rest start alone.
Runs(h) ==
  /\ IF h.kind = "confirm" THEN Cardinality(handlers) < MaxHandlers ELSE handlers = {}
  /\ handlers' = handlers \cup {h}
  /\ Step

\* A handler that only touches the draft, between the steps of the others.
Touches == Step /\ UNCHANGED handlers

\* broadcasts_index, start_broadcast_create: state.clear().
Leave ==
  /\ draft # NoDraft
  /\ draft' = NoDraft
  /\ Touches
  /\ UNCHANGED <<templates, nextId, shown>>

\* Mutant of SelectFilter: the text of the previous draft is kept.
SelectFilterKeepsText(f) ==
  /\ draft' = [draft EXCEPT !.state = "content", !.filter = f, !.number = steps + 1]
  /\ Touches
  /\ UNCHANGED <<templates, nextId, shown>>

SelectFilter(f) ==
  /\ draft' = [NoDraft EXCEPT !.state = "content", !.filter = f, !.number = steps + 1]
  /\ Touches
  /\ UNCHANGED <<templates, nextId, shown>>

ContentEntry ==
  /\ draft.filter # None
  /\ draft' = [draft EXCEPT !.state = "content"]
  /\ Touches
  /\ UNCHANGED <<templates, nextId, shown>>

\* A text arrives, or a template is picked: the handler has read the filter.
BeginPreview(kind, t) ==
  /\ IF kind = "text" THEN draft.state = "content" ELSE t \in templates
  /\ draft.filter # None
  /\ Runs([kind |-> kind, filter |-> draft.filter, content |-> t])
  /\ UNCHANGED <<draft, templates, nextId, shown>>

\* It has counted the recipients: it stores the text in the draft as it is by
\* now, whatever its filter, and shows the preview.  A text nobody would get is
\* turned away; a template is not.
EndPreview(h) ==
  /\ h \in handlers
  /\ h.kind \in {"text", "template"}
  /\ handlers' = handlers \ {h}
  /\ IF h.kind = "text" /\ Recipients(h.filter) = {}
     THEN UNCHANGED <<draft, shown>>
     ELSE /\ draft' = [draft EXCEPT !.content = h.content, !.label = h.filter,
                         !.state = IF h.kind = "template" THEN "content" ELSE @]
          /\ shown' = shown \cup {<<h.filter, h.content>>}
  /\ UNCHANGED <<templates, nextId, steps, overlapped>>

PromptTitle ==
  /\ draft.content # None
  /\ draft' = [draft EXCEPT !.state = "title"]
  /\ Touches
  /\ UNCHANGED <<templates, nextId, shown>>

BeginTitle ==
  /\ draft.state = "title"
  /\ draft.content # None
  /\ Runs([kind |-> "title", filter |-> draft.label, content |-> draft.content])
  /\ UNCHANGED <<draft, templates, nextId, shown>>

\* The template is committed and the preview shown once more.
EndTitle(h) ==
  /\ h \in handlers
  /\ h.kind = "title"
  /\ handlers' = handlers \ {h}
  /\ templates' = templates \cup {h.content}
  /\ draft' = [draft EXCEPT !.state = "content"]
  /\ shown' = shown \cup {<<h.filter, h.content>>}
  /\ UNCHANGED <<nextId, steps, overlapped>>

\* confirm_broadcast_creation has read the draft, selected the recipients and
\* flushed the campaign, which took an id; or there was nothing to confirm.
BeginConfirm ==
  IF draft.filter = None \/ draft.content = None
  THEN /\ draft # NoDraft
       /\ draft' = NoDraft
       /\ Touches
       /\ UNCHANGED <<templates, nextId, shown>>
  ELSE /\ Recipients(draft.filter) # {}
       /\ nextId <= MaxCampaigns
       /\ Runs([kind |-> "confirm", filter |-> draft.filter, content |-> draft.content,
                id |-> nextId, recipients |-> Recipients(draft.filter), draft |-> draft.number])
       /\ nextId' = nextId + 1
       /\ UNCHANGED <<draft, templates, shown>>

\* Mutant of CommitConfirm: the status is left at the column's default.
CommitConfirmAsDraft(h) ==
  /\ h \in handlers
  /\ h.kind = "confirm"
  /\ handlers' = handlers \ {h}
  /\ campaigns' = [campaigns EXCEPT ![h.id] = [NoCampaign EXCEPT !.status = "draft"]]
  /\ draft' = NoDraft
  /\ UNCHANGED <<templates, nextId, shown, steps, overlapped, deliveries>>

\* The campaign and its deliveries are committed and the draft is cleared.
CommitConfirm(h) ==
  /\ h \in handlers
  /\ h.kind = "confirm"
  /\ handlers' = handlers \ {h}
  /\ campaigns' = [campaigns EXCEPT ![h.id] =
                     [NoCampaign EXCEPT !.status = "queued", !.filter = h.filter,
                        !.content = h.content, !.draft = h.draft]]
  /\ deliveries' = [deliveries EXCEPT ![h.id] =
                      [u \in Users |-> IF u \in h.recipients THEN "pending" ELSE "none"]]
  /\ draft' = NoDraft
  /\ UNCHANGED <<templates, nextId, shown, steps, overlapped>>

EditDraft ==
  /\ \/ Leave
     \/ \E f \in Filters : SelectFilter(f)
     \/ ContentEntry
     \/ \E kind \in {"text", "template"}, t \in Contents : BeginPreview(kind, t)
     \/ \E h \in handlers : EndPreview(h) \/ EndTitle(h)
     \/ PromptTitle
     \/ BeginTitle
     \/ BeginConfirm
  /\ UNCHANGED <<userVars, workerVars, tableVars, mishaps>>

Confirm ==
  /\ \E h \in handlers : CommitConfirm(h)
  /\ UNCHANGED <<userVars, workerVars, mishaps>>

-----------------------------------------------------------------------------
(* The worker: process_broadcast_campaigns *)

With(s) == {c \in Campaigns : campaigns[c].status = s}
First(S) == CHOOSE c \in S : \A d \in S : c <= d

\* Mutant of NextCampaign: the oldest unfinished campaign, started or not.
OldestCampaign == First(With("sending") \cup With("queued"))

NextCampaign == IF With("sending") # {} THEN First(With("sending")) ELSE First(With("queued"))

Rows(c, S) == {u \in Users : deliveries[c][u] \in S}
Pending(c) == Rows(c, {"pending"})

\* ORDER BY id LIMIT BatchSize: bulk_create made the rows in the order of Users.
Batch(c) == {u \in Pending(c) : Cardinality({v \in Pending(c) : v < u}) < BatchSize}

Completed(c) == campaigns' = [campaigns EXCEPT ![c].status = "completed"]

PickCampaign ==
  /\ worker.at = "idle"
  /\ With("sending") \cup With("queued") # {}
  /\ worker' = [Idle EXCEPT !.at = "list", !.campaign = NextCampaign]
  /\ campaigns' = [campaigns EXCEPT ![NextCampaign].status = "sending"]
  /\ UNCHANGED <<deliveries, copies, reports, mishaps>>

\* Mutant of ListBatch: an empty batch ends the pass and nothing else.
ListBatchOnly ==
  /\ worker.at = "list"
  /\ IF Pending(worker.campaign) = {}
     THEN worker' = Idle
     ELSE worker' = [worker EXCEPT !.at = "send", !.todo = Batch(worker.campaign)]
  /\ UNCHANGED <<campaigns, deliveries, copies, reports, mishaps>>

ListBatch ==
  /\ worker.at = "list"
  /\ IF Pending(worker.campaign) = {}
     THEN /\ Completed(worker.campaign)
          /\ worker' = [worker EXCEPT !.at = "report"]
     ELSE /\ worker' = [worker EXCEPT !.at = "send", !.todo = Batch(worker.campaign)]
          /\ UNCHANGED campaigns
  /\ UNCHANGED <<deliveries, copies, reports, mishaps>>

\* The message for u has its outcome: the row in the session is marked.
Marked(u, outcome) ==
  worker' = [worker EXCEPT !.todo = @ \ {u}, !.attempt = 1, !.marks[u] = outcome]

\* Another attempt, or the error of the last one decides.
TryAgainOr(u, outcome) ==
  IF worker.attempt < MaxAttempts
  THEN worker' = [worker EXCEPT !.attempt = @ + 1]
  ELSE Marked(u, outcome)

Arrives(u) == copies' = [copies EXCEPT ![worker.campaign][u] = @ + 1]

Accept(u) ==
  /\ u \notin quit
  /\ Arrives(u)
  /\ Marked(u, "sent")
  /\ UNCHANGED mishaps

Forbid(u) ==
  /\ u \in quit
  /\ Marked(u, "blocked")
  /\ UNCHANGED <<copies, mishaps>>

\* TelegramRetryAfter, at every attempt.
Flood(u) ==
  /\ TryAgainOr(u, "rate_limited")
  /\ UNCHANGED <<copies, mishaps>>

\* Another TelegramAPIError: Telegram refused the message,
Err(u) ==
  /\ TryAgainOr(u, "failed")
  /\ UNCHANGED <<copies, mishaps>>

\* or delivered it and its answer is lost.
LoseAnswer(u) ==
  /\ u \notin quit
  /\ changes + mishaps < MaxIncidents
  /\ mishaps' = mishaps + 1
  /\ Arrives(u)
  /\ TryAgainOr(u, "failed")

Send ==
  /\ worker.at = "send"
  /\ worker.todo # {}
  /\ LET u == First(worker.todo) IN
       Accept(u) \/ Forbid(u) \/ Flood(u) \/ Err(u) \/ LoseAnswer(u)
  /\ UNCHANGED <<tableVars, reports>>

MarkedAs(S) == {u \in Users : worker.marks[u] \in S}

\* Mutant of CommitBatch: a message that was rate limited is not a failure.
CommitBatchFailedOnly ==
  /\ worker.at = "send"
  /\ worker.todo = {}
  /\ deliveries' = [deliveries EXCEPT ![worker.campaign] =
                      [u \in Users |-> IF worker.marks[u] = "none" THEN @[u]
                                       ELSE worker.marks[u]]]
  /\ campaigns' = [campaigns EXCEPT
                     ![worker.campaign].sent = @ + Cardinality(MarkedAs({"sent"})),
                     ![worker.campaign].failed = @ + Cardinality(MarkedAs({"failed"}))]
  /\ worker' = [worker EXCEPT !.at = "count", !.marks = Unmarked]
  /\ UNCHANGED <<copies, reports, mishaps>>

\* Mutant of CommitBatch: the rows were not attached to the session.
CommitBatchCountersOnly ==
  /\ worker.at = "send"
  /\ worker.todo = {}
  /\ campaigns' = [campaigns EXCEPT
                     ![worker.campaign].sent = @ + Cardinality(MarkedAs({"sent"}))]
  /\ worker' = [worker EXCEPT !.at = "count", !.marks = Unmarked]
  /\ UNCHANGED <<deliveries, copies, reports, mishaps>>

CommitBatch ==
  /\ worker.at = "send"
  /\ worker.todo = {}
  /\ deliveries' = [deliveries EXCEPT ![worker.campaign] =
                      [u \in Users |-> IF worker.marks[u] = "none" THEN @[u]
                                       ELSE worker.marks[u]]]
  /\ campaigns' = [campaigns EXCEPT
                     ![worker.campaign].sent = @ + Cardinality(MarkedAs({"sent"})),
                     ![worker.campaign].failed =
                       @ + Cardinality(MarkedAs({"failed", "rate_limited"}))]
  /\ worker' = [worker EXCEPT !.at = "count", !.marks = Unmarked]
  /\ UNCHANGED <<copies, reports, mishaps>>

\* Mutant of CountPending: the end is reported before it is committed.
CountPendingReportsFirst ==
  /\ worker.at = "count"
  /\ IF Pending(worker.campaign) = {}
     THEN /\ reports' = [reports EXCEPT ![worker.campaign] = @ + 1]
          /\ worker' = [worker EXCEPT !.at = "list"]
     ELSE worker' = Idle /\ UNCHANGED reports
  /\ UNCHANGED <<campaigns, deliveries, copies, mishaps>>

CountPending ==
  /\ worker.at = "count"
  /\ IF Pending(worker.campaign) = {}
     THEN Completed(worker.campaign) /\ worker' = [worker EXCEPT !.at = "report"]
     ELSE worker' = Idle /\ UNCHANGED campaigns
  /\ UNCHANGED <<deliveries, copies, reports, mishaps>>

\* _notify_campaign_completed: a failure is only logged.
Report ==
  /\ worker.at = "report"
  /\ worker' = Idle
  /\ reports' = [reports EXCEPT ![worker.campaign] = @ + 1]
  /\ UNCHANGED <<campaigns, deliveries, copies, mishaps>>

Pass ==
  /\ PickCampaign \/ ListBatch \/ Send \/ CommitBatch \/ CountPending \/ Report
  /\ UNCHANGED <<userVars, wizardVars>>

\* The database fails: the session is rolled back and the scheduler goes on.
FailPass ==
  /\ worker.at # "idle"
  /\ changes + mishaps < MaxIncidents
  /\ mishaps' = mishaps + 1
  /\ worker' = Idle
  /\ UNCHANGED <<userVars, wizardVars, tableVars, copies, reports>>

Crash ==
  /\ changes + mishaps < MaxIncidents
  /\ mishaps' = mishaps + 1
  /\ worker' = Idle
  /\ handlers' = {}
  /\ draft' = NoDraft
  /\ UNCHANGED <<userVars, templates, nextId, shown, steps, overlapped, tableVars,
                 copies, reports>>

Next == UserChanges \/ EditDraft \/ Confirm \/ Pass \/ FailPass \/ Crash

Spec == Init /\ [][Next]_vars

\* The scheduler never stops running passes and a pass that runs gets on.
Fairness == WF_vars(Pass)

FairSpec == Spec /\ Fairness

-----------------------------------------------------------------------------
(* Properties *)

\* The totals of a campaign are what its delivery rows say, whatever pass was
\* cut short: sent_count and failed_count are added up apart from the rows
\* (broadcast_sender.py:120-122), and a rate-limited message is a failure.
CountersMatchRows ==
  \A c \in Campaigns :
    /\ campaigns[c].sent = Cardinality(Rows(c, {"sent"}))
    /\ campaigns[c].failed = Cardinality(Rows(c, {"failed", "rate_limited"}))

\* A user gets a campaign again only because an answer was lost or a pass was
\* cut short, once for each time; and only users with a delivery row get it.
CopiesNeedMishaps ==
  \A c \in Campaigns, u \in Users :
    /\ copies[c][u] <= 1 + mishaps
    /\ copies[c][u] > 0 => deliveries[c][u] # "none"

\* The creator is told of the end of a campaign once at most, and only when no
\* recipient is left, also when a pass fails between the commit and the report.
ReportedOnce ==
  \A c \in Campaigns :
    /\ reports[c] <= 1
    /\ reports[c] = 1 => campaigns[c].status = "completed" /\ Pending(c) = {}

\* As long as the admin's handlers ran one at a time, what is queued is a text
\* the admin was shown with that very audience, and a draft is queued once.
\* Both rest on select_broadcast_filter and confirm_broadcast_creation clearing
\* the draft: an old preview keeps its confirm button.
SerialQueuedAsPreviewed ==
  ~overlapped =>
    \A c \in Campaigns \ With("none") :
      /\ <<campaigns[c].filter, campaigns[c].content>> \in shown
      /\ \A d \in Campaigns \ (With("none") \cup {c}) :
           campaigns[c].draft # campaigns[d].draft

\* A queued campaign is completed, batch after batch, whatever passes fail.
EveryCampaignCompletes ==
  \A c \in Campaigns :
    (campaigns[c].status = "queued") ~> (campaigns[c].status = "completed")

\* The worker and the wizard implement Mailing: what the tables hold after a
\* commit is the mailing, what the session holds is not, and a message counts
\* from its first copy.
Phase(s) == CASE s = "queued" -> "waiting"
              [] s = "sending" -> "under_way"
              [] s = "completed" -> "closed"

M == INSTANCE Mailing WITH
       Mailings <- Campaigns,
       mailings <- [c \in Campaigns \ With("none") |->
                      [phase |-> Phase(campaigns[c].status),
                       owed |-> Pending(c),
                       reached |-> Rows(c, {"sent"})]],
       reached <- {p \in Campaigns \X Users : copies[p[1]][p[2]] > 0}

MailingSpec == M!MailingSpec
=============================================================================
