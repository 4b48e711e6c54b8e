--------------------------- MODULE BroadcastProofs ---------------------------
(***************************************************************************)
(* Theorems about Broadcast for every set of users, every batch size and   *)
(* number of attempts, and any number of campaigns, handlers and           *)
(* incidents; among them that it implements Mailing.                       *)
(*                                                                         *)
(* The argument.  A pass keeps outcomes in its session and commits a batch *)
(* at once, so the tables alone do not say what a step may do.  The        *)
(* invariant ties the session to the tables: what a pass is about to send, *)
(* or has marked and not yet committed, are pending rows of the one        *)
(* campaign that is sending; a message marked as sent has arrived; ids of  *)
(* campaigns not yet committed are below the sequence and used by one      *)
(* handler only.  A copy beyond the first of a row still pending has cost  *)
(* a mishap, unless it is marked in the session.                           *)
(***************************************************************************)
EXTENDS Broadcast, FiniteSetTheorems, WellFoundedInduction, TLAPS

\* A handler that confirms holds an id of its own, that no row has yet.
HandlersOK ==
  \A h \in handlers : h.kind = "confirm" =>
    /\ h.id < nextId
    /\ campaigns[h.id].status = "none"
    /\ h.recipients # {}
    /\ \A g \in handlers : g.kind = "confirm" /\ g.id = h.id => g = h

CampaignsOK ==
  /\ \A c \in Campaigns :
       /\ campaigns[c].status = "none" => deliveries[c] = Unmarked /\ reports[c] = 0
       /\ campaigns[c].status # "none" => c < nextId
       /\ campaigns[c].status = "completed" => Pending(c) = {}
       /\ reports[c] = 0 \/ (reports[c] = 1 /\ campaigns[c].status = "completed")
  /\ \A c, d \in With("sending") : c = d

\* What the session holds of the batch that is being sent.
BatchOK ==
  /\ worker.todo \subseteq Pending(worker.campaign)
  /\ \A u \in Users : worker.marks[u] # "none" =>
       /\ worker.marks[u] # "pending"
       /\ u \in Pending(worker.campaign)
       /\ u \notin worker.todo
       /\ worker.marks[u] = "sent" => copies[worker.campaign][u] > 0

WorkerOK ==
  /\ worker.at # "idle" => worker.campaign \in Campaigns
  /\ worker.at \in {"list", "send", "count"} => campaigns[worker.campaign].status = "sending"
  /\ worker.at = "report" => /\ campaigns[worker.campaign].status = "completed"
                             /\ reports[worker.campaign] = 0
  /\ worker.at = "send" => BatchOK
  /\ worker.at # "send" => worker.marks = Unmarked

\* The message of campaign c to u has its outcome in the session.
Settled(c, u) == worker.campaign = c /\ worker.marks[u] # "none"

CopiesOK ==
  \A c \in Campaigns, u \in Users :
    /\ copies[c][u] <= 1 + mishaps
    /\ copies[c][u] > 0 => deliveries[c][u] # "none"
    /\ deliveries[c][u] = "pending" /\ ~Settled(c, u) => copies[c][u] <= mishaps

\* A draft with a text has the label its preview was shown with.
DraftOK == draft.content # None => draft.label # None

Counted == mishaps \in Nat /\ steps \in Nat

IInv == /\ TypeOK /\ Counted /\ DraftOK /\ HandlersOK /\ CampaignsOK /\ WorkerOK
        /\ CopiesOK /\ CountersMatchRows

-----------------------------------------------------------------------------
(* The least element of a set of ids *)

Less == {p \in Nat \X Nat : p[1] < p[2]}

LEMMA FirstIsLeast ==
  ASSUME NEW S, S \subseteq Nat, S # {}
  PROVE  First(S) \in S /\ \A d \in S : First(S) <= d
<1>1. IsWellFoundedOn(Less, Nat)
  BY NatLessThanWellFounded DEF Less, OpToRel
<1>2. \E c \in S : \A d \in S : ~(<<d, c>> \in Less)
  BY <1>1, WFMin
<1>3. \A c, d \in S : <<d, c>> \in Less <=> d < c
  BY DEF Less
<1>4. \E c \in S : \A d \in S : ~(d < c)
  BY <1>2, <1>3
<1>5. \E c \in S : \A d \in S : c <= d
  BY <1>4
<1>6. QED
  BY <1>5 DEF First

-----------------------------------------------------------------------------
(* Shapes *)

LEMMA HandlerShape ==
  ASSUME NEW h \in Handler
  PROVE  /\ h.kind \in {"text", "template", "title", "confirm"}
         /\ h.filter \in Filters
         /\ h.content \in Contents
         /\ h.kind = "confirm" => /\ h.id \in Campaigns
                                  /\ h.recipients \subseteq Users
                                  /\ h.draft \in Nat
  BY DEF Handler

LEMMA PlainHandler ==
  ASSUME NEW k \in {"text", "template", "title"}, NEW f \in Filters, NEW t \in Contents
  PROVE  [kind |-> k, filter |-> f, content |-> t] \in Handler
  BY DEF Handler

LEMMA ConfirmHandler ==
  ASSUME NEW f \in Filters, NEW t \in Contents, NEW i \in Campaigns,
         NEW S \in SUBSET Users, NEW n \in Nat
  PROVE  [kind |-> "confirm", filter |-> f, content |-> t, id |-> i, recipients |-> S,
          draft |-> n] \in Handler
  BY DEF Handler

LEMMA IdleOK == Idle \in Worker /\ Unmarked \in [Users -> Delivery]
  BY DEF Idle, Worker, Unmarked, Delivery

LEMMA BecomesLife ==
  ASSUME NEW l \in Life
  PROVE  Becomes(l) \subseteq Life
<1> DEFINE Turned(t) == [l EXCEPT !.access = t[2], !.link = @ \/ t[1] = "none"]
<1>1. \A t \in Turns : t[2] \in {"none", "live", "soon", "lapsed", "revoked"}
  BY DEF Turns
<1>2. \A t \in Turns : Turned(t) \in Life
  BY <1>1 DEF Life
<1>3. [l EXCEPT !.link = FALSE] \in Life
  BY DEF Life
<1>4. [paid |-> TRUE, access |-> "live", link |-> TRUE] \in Life
  BY DEF Life
<1>5. QED
  BY <1>2, <1>3, <1>4, Zenon DEF Becomes

-----------------------------------------------------------------------------
(* The steps *)

LEMMA InitOK == Init => IInv
<1> SUFFICES ASSUME Init PROVE IInv
  OBVIOUS
<1>1. TypeOK
  <2>1. life \in [Users -> Life] /\ draft \in Draft
    BY DEF Init, Life, Draft, NoDraft
  <2>2. campaigns \in [Campaigns -> Campaign]
    BY DEF Init, NoCampaign, Campaign
  <2>3. deliveries \in [Campaigns -> [Users -> Delivery]] /\ worker \in Worker
    BY IdleOK DEF Init
  <2>4. nextId \in 1..(MaxCampaigns + 1)
    BY BroadcastAssumption DEF Init
  <2>5. QED
    BY <2>1, <2>2, <2>3, <2>4 DEF Init, TypeOK
<1>2. Counted /\ DraftOK /\ HandlersOK
  BY DEF Init, Counted, DraftOK, NoDraft, HandlersOK
<1>3. CampaignsOK
  BY DEF Init, CampaignsOK, NoCampaign, With
<1>4. WorkerOK
  BY DEF Init, WorkerOK, Idle
<1>5. CopiesOK
  BY DEF Init, CopiesOK, Unmarked
<1>6. CountersMatchRows
  <2>1. \A c \in Campaigns : Rows(c, {"sent"}) = {} /\ Rows(c, {"failed", "rate_limited"}) = {}
    BY DEF Init, Rows, Unmarked
  <2>2. QED
    BY <2>1, FS_EmptySet DEF Init, CountersMatchRows, NoCampaign
<1>7. QED
  BY <1>1, <1>2, <1>3, <1>4, <1>5, <1>6 DEF IInv

\* Steps outside the worker leave the tables, the pass and its history alone.
LEMMA TablesKept ==
  ASSUME IInv, UNCHANGED <<tableVars, workerVars, mishaps>>,
         nextId' \in Nat, nextId <= nextId'
  PROVE  CampaignsOK' /\ WorkerOK' /\ CopiesOK' /\ CountersMatchRows'
<1> USE DEF IInv, TypeOK, tableVars, workerVars
<1>1. \A c \in Campaigns : Pending(c)' = Pending(c)
  BY DEF Pending, Rows
<1>2. CampaignsOK'
  BY <1>1, BroadcastAssumption DEF CampaignsOK, With, Campaigns
<1>3. WorkerOK'
  BY <1>1 DEF WorkerOK, BatchOK
<1>4. CopiesOK' /\ CountersMatchRows'
  BY DEF CopiesOK, Settled, CountersMatchRows, Rows
<1>5. QED
  BY <1>2, <1>3, <1>4

LEMMA UserChangesKeeps ==
  ASSUME IInv, UserChanges
  PROVE  IInv'
<1> USE DEF UserChanges, wizardVars, workerVars, tableVars
<1>1. life' \in [Users -> Life] /\ blocked' \subseteq Users /\ quit' \subseteq Users
  <2>1. PICK u \in Users \ Staff :
          \/ ToggleBlock(u)
          \/ \E l \in Becomes(life[u]) : l # life[u] /\ life' = [life EXCEPT ![u] = l]
                                         /\ UNCHANGED <<blocked, quit>>
          \/ u \notin quit /\ quit' = quit \cup {u} /\ UNCHANGED <<life, blocked>>
    OBVIOUS
  <2>2. Becomes(life[u]) \subseteq Life
    BY BecomesLife DEF IInv, TypeOK
  <2>3. QED
    BY <2>1, <2>2 DEF IInv, TypeOK, ToggleBlock
<1>2. TypeOK' /\ Counted' /\ DraftOK' /\ HandlersOK'
  BY <1>1 DEF IInv, TypeOK, Counted, DraftOK, HandlersOK
<1>3. CampaignsOK' /\ WorkerOK' /\ CopiesOK' /\ CountersMatchRows'
  BY TablesKept DEF IInv, TypeOK
<1>4. QED
  BY <1>2, <1>3 DEF IInv

\* A step of the wizard: it writes the draft and templates, opens or closes handlers.
LEMMA WizardKeeps ==
  ASSUME IInv, UNCHANGED <<userVars, workerVars, tableVars, mishaps>>,
         draft' \in Draft, DraftOK', templates' \subseteq Contents, steps' \in Nat,
         handlers' \subseteq Handler, HandlersOK',
         nextId' \in 1..(MaxCampaigns + 1), nextId <= nextId'
  PROVE  IInv'
<1>1. TypeOK' /\ Counted'
  BY DEF IInv, TypeOK, Counted, userVars, workerVars, tableVars
<1>2. CampaignsOK' /\ WorkerOK' /\ CopiesOK' /\ CountersMatchRows'
  BY TablesKept, BroadcastAssumption
<1>3. QED
  BY <1>1, <1>2 DEF IInv

\* The handlers that stay, with no id handed out, still hold ids of their own.
LEMMA FewerHandlers ==
  ASSUME HandlersOK, handlers' \subseteq handlers, UNCHANGED <<campaigns, nextId>>
  PROVE  HandlersOK'
  BY DEF HandlersOK

\* A handler that does not confirm has joined them.
LEMMA PlainHandlerJoins ==
  ASSUME IInv, NEW h \in Handler, h.kind # "confirm", handlers' = handlers \cup {h},
         UNCHANGED <<campaigns, nextId>>
  PROVE  handlers' \subseteq Handler /\ HandlersOK'
  BY DEF IInv, TypeOK, HandlersOK

LEMMA EditDraftKeeps ==
  ASSUME IInv, EditDraft
  PROVE  IInv'
<1> USE DEF Touches, Runs, Step
<1>1. UNCHANGED <<userVars, workerVars, tableVars, mishaps>> /\ UNCHANGED campaigns
  BY DEF EditDraft, tableVars
<1>2. /\ draft \in Draft /\ NoDraft \in Draft /\ templates \subseteq Contents
      /\ handlers \subseteq Handler /\ nextId \in 1..(MaxCampaigns + 1)
      /\ steps \in Nat /\ steps + 1 \in Nat /\ MaxCampaigns \in Nat /\ HandlersOK /\ DraftOK
      /\ (draft' = NoDraft \/ draft' = draft) => DraftOK'
  BY BroadcastAssumption DEF IInv, TypeOK, Counted, Draft, NoDraft, DraftOK
<1>3. CASE Leave
  BY <1>1, <1>2, <1>3, FewerHandlers, WizardKeeps DEF Leave
<1>4. CASE \E f \in Filters : SelectFilter(f)
  <2>1. draft' \in Draft /\ DraftOK'
    BY <1>2, <1>4 DEF SelectFilter, Draft, NoDraft, DraftOK
  <2>2. QED
    BY <1>1, <1>2, <1>4, <2>1, FewerHandlers, WizardKeeps DEF SelectFilter
<1>5. CASE ContentEntry
  <2>1. draft' \in Draft /\ DraftOK'
    BY <1>2, <1>5 DEF ContentEntry, Draft, DraftOK
  <2>2. QED
    BY <1>1, <1>2, <1>5, <2>1, FewerHandlers, WizardKeeps DEF ContentEntry
<1>6. CASE \E kind \in {"text", "template"}, t \in Contents : BeginPreview(kind, t)
  <2>1. PICK kind \in {"text", "template"}, t \in Contents : BeginPreview(kind, t)
    BY <1>6
  <2>2. draft.filter \in Filters
    BY <1>2, <2>1 DEF BeginPreview, Draft
  <2> DEFINE h == [kind |-> kind, filter |-> draft.filter, content |-> t]
  <2>3. h \in Handler /\ h.kind # "confirm"
    BY <2>2, PlainHandler
  <2>4. handlers' = handlers \cup {h} /\ nextId' = nextId
    BY <2>1 DEF BeginPreview
  <2>5. handlers' \subseteq Handler /\ HandlersOK'
    <3> HIDE DEF h
    <3> QED
      BY <1>1, <2>3, <2>4, PlainHandlerJoins
  <2>6. QED
    BY <1>1, <1>2, <2>1, <2>4, <2>5, WizardKeeps DEF BeginPreview
<1>7. CASE \E h \in handlers : EndPreview(h)
  <2>1. PICK h \in handlers : EndPreview(h)
    BY <1>7
  <2>2. h \in Handler /\ h.filter \in Filters /\ h.content \in Contents
    BY <1>2, HandlerShape
  <2>3. draft' \in Draft /\ DraftOK'
    BY <1>2, <2>1, <2>2, BroadcastAssumption DEF EndPreview, Draft, DraftOK
  <2>4. handlers' \subseteq handlers /\ nextId' = nextId /\ templates' = templates /\ steps' = steps
    BY <2>1 DEF EndPreview
  <2>5. QED
    BY <1>1, <1>2, <2>3, <2>4, FewerHandlers, WizardKeeps
<1>8. CASE \E h \in handlers : EndTitle(h)
  <2>1. PICK h \in handlers : EndTitle(h)
    BY <1>8
  <2>2. h.content \in Contents
    BY <1>2, HandlerShape
  <2>3. draft' \in Draft /\ DraftOK' /\ templates' \subseteq Contents
    BY <1>2, <2>1, <2>2 DEF EndTitle, Draft, DraftOK
  <2>4. handlers' \subseteq handlers /\ nextId' = nextId /\ steps' = steps
    BY <2>1 DEF EndTitle
  <2>5. QED
    BY <1>1, <1>2, <2>3, <2>4, FewerHandlers, WizardKeeps
<1>9. CASE PromptTitle
  <2>1. draft' \in Draft /\ DraftOK'
    BY <1>2, <1>9 DEF PromptTitle, Draft, DraftOK
  <2>2. QED
    BY <1>1, <1>2, <1>9, <2>1, FewerHandlers, WizardKeeps DEF PromptTitle
<1>10. CASE BeginTitle
  <2>1. draft.content \in Contents /\ draft.label \in Filters
    BY <1>2, <1>10 DEF BeginTitle, Draft, DraftOK
  <2> DEFINE h == [kind |-> "title", filter |-> draft.label, content |-> draft.content]
  <2>2. h \in Handler /\ h.kind # "confirm"
    BY <2>1, PlainHandler
  <2>3. handlers' = handlers \cup {h} /\ nextId' = nextId
    BY <1>10 DEF BeginTitle
  <2>4. handlers' \subseteq Handler /\ HandlersOK'
    <3> HIDE DEF h
    <3> QED
      BY <1>1, <2>2, <2>3, PlainHandlerJoins
  <2>5. QED
    BY <1>1, <1>2, <1>10, <2>3, <2>4, WizardKeeps DEF BeginTitle
<1>11. CASE BeginConfirm
  <2>1. CASE draft.filter = None \/ draft.content = None
    BY <1>1, <1>2, <1>11, <2>1, FewerHandlers, WizardKeeps DEF BeginConfirm
  <2>2. CASE ~(draft.filter = None \/ draft.content = None)
    <3> DEFINE S == Recipients(draft.filter)
               h == [kind |-> "confirm", filter |-> draft.filter, content |-> draft.content,
                     id |-> nextId, recipients |-> S, draft |-> draft.number]
    <3>1. /\ S # {} /\ nextId <= MaxCampaigns /\ handlers' = handlers \cup {h}
          /\ nextId' = nextId + 1 /\ steps' = steps + 1 /\ UNCHANGED <<draft, templates>>
      BY <1>11, <2>2 DEF BeginConfirm
    <3>2. S \in SUBSET Users
      BY DEF Recipients
    <3>3. nextId \in Campaigns /\ nextId' \in 1..(MaxCampaigns + 1) /\ nextId <= nextId'
      BY <1>2, <3>1 DEF Campaigns
    <3>4. /\ h \in Handler /\ h.kind = "confirm" /\ h.id = nextId /\ h.recipients = S
      BY <1>2, <2>2, <3>2, <3>3, ConfirmHandler DEF Draft
    <3> HIDE DEF h
    <3>5. campaigns[nextId].status = "none"
      BY <3>3 DEF IInv, CampaignsOK, Campaigns
    <3>6. \A g \in handlers : g.kind = "confirm" => g.id \in Campaigns /\ g.id < nextId
      BY <1>2, HandlerShape DEF HandlersOK
    <3>7. HandlersOK'
      <4> SUFFICES ASSUME NEW g \in handlers', g.kind = "confirm"
                   PROVE  /\ g.id < nextId'
                          /\ campaigns'[g.id].status = "none"
                          /\ g.recipients # {}
                          /\ \A k \in handlers' : k.kind = "confirm" /\ k.id = g.id => k = g
        BY DEF HandlersOK
      <4>1. CASE g = h
        BY <1>1, <1>2, <3>1, <3>4, <3>5, <3>6, <4>1
      <4>2. CASE g \in handlers
        BY <1>1, <1>2, <3>1, <3>3, <3>4, <3>6, <4>2 DEF HandlersOK, Campaigns
      <4>3. QED
        BY <3>1, <4>1, <4>2
    <3>8. QED
      BY <1>1, <1>2, <3>1, <3>3, <3>4, <3>7, WizardKeeps
  <2>3. QED
    BY <2>1, <2>2
<1>12. QED
  BY <1>3, <1>4, <1>5, <1>6, <1>7, <1>8, <1>9, <1>10, <1>11 DEF EditDraft

\* The new campaign is nobody's: its id had no row, no delivery and no copy.
LEMMA ConfirmKeeps ==
  ASSUME IInv, Confirm
  PROVE  IInv'
<1> USE DEF Confirm, workerVars
<1>1. PICK h \in handlers : CommitConfirm(h)
  OBVIOUS
<1> DEFINE new == [NoCampaign EXCEPT !.status = "queued", !.filter = h.filter,
                     !.content = h.content, !.draft = h.draft]
           rows == [u \in Users |-> IF u \in h.recipients THEN "pending" ELSE "none"]
<1>2. /\ h \in Handler /\ h.kind = "confirm" /\ h.id \in Campaigns /\ h.draft \in Nat
      /\ h.filter \in Filters /\ h.content \in Contents
      /\ campaigns[h.id].status = "none" /\ h.id < nextId
      /\ \A g \in handlers : g.kind = "confirm" /\ g.id = h.id => g = h
  BY <1>1, HandlerShape DEF CommitConfirm, IInv, TypeOK, HandlersOK
<1>3. /\ campaigns' = [campaigns EXCEPT ![h.id] = new]
      /\ deliveries' = [deliveries EXCEPT ![h.id] = rows]
      /\ handlers' = handlers \ {h} /\ draft' = NoDraft
      /\ UNCHANGED <<templates, nextId, steps, worker, copies, reports, mishaps>>
      /\ UNCHANGED userVars
  BY <1>1 DEF CommitConfirm
<1>4. /\ new \in Campaign /\ new.status = "queued" /\ new.sent = 0 /\ new.failed = 0
      /\ rows \in [Users -> {"none", "pending"}]
  BY <1>2 DEF Campaign, NoCampaign
<1>5. /\ campaigns' \in [Campaigns -> Campaign]
      /\ campaigns'[h.id] = new
      /\ \A c \in Campaigns \ {h.id} : campaigns'[c] = campaigns[c]
  BY <1>2, <1>3, <1>4 DEF IInv, TypeOK
<1>6. /\ deliveries' \in [Campaigns -> [Users -> Delivery]]
      /\ deliveries'[h.id] = rows
      /\ \A c \in Campaigns \ {h.id} : deliveries'[c] = deliveries[c]
  BY <1>2, <1>3, <1>4 DEF IInv, TypeOK, Delivery
<1>7. /\ reports[h.id] = 0
      /\ \A u \in Users : deliveries[h.id][u] = "none" /\ copies[h.id][u] = 0
  BY <1>2 DEF IInv, TypeOK, CampaignsOK, CopiesOK, Unmarked
<1> HIDE DEF new, rows
<1>8. TypeOK' /\ Counted' /\ DraftOK'
  BY <1>3, <1>5, <1>6 DEF IInv, TypeOK, Counted, DraftOK, NoDraft, Draft, userVars
<1>9. HandlersOK'
  <2>1. \A g \in handlers' : g.kind = "confirm" => g.id \in Campaigns /\ g.id # h.id
    BY <1>2, <1>3, HandlerShape DEF IInv, TypeOK
  <2>2. QED
    BY <1>3, <1>5, <2>1 DEF IInv, HandlersOK
<1>10. \A c \in Campaigns \ {h.id} : Pending(c)' = Pending(c)
  BY <1>6 DEF Pending, Rows
<1>11. CampaignsOK'
  <2>1. With("sending")' = With("sending")
    BY <1>2, <1>4, <1>5 DEF With
  <2>2. ASSUME NEW c \in Campaigns
        PROVE  /\ campaigns'[c].status = "none" => deliveries'[c] = Unmarked /\ reports'[c] = 0
               /\ campaigns'[c].status # "none" => c < nextId'
               /\ campaigns'[c].status = "completed" => Pending(c)' = {}
               /\ reports'[c] = 0 \/ (reports'[c] = 1 /\ campaigns'[c].status = "completed")
    <3>1. CASE c = h.id
      <4>1. campaigns'[c].status = "queued"
        BY <1>4, <1>5, <3>1
      <4>2. c < nextId' /\ reports'[c] = 0
        BY <1>2, <1>3, <1>7, <3>1
      <4>3. QED
        BY <4>1, <4>2
    <3>2. CASE c # h.id
      BY <1>3, <1>5, <1>6, <1>10, <3>2 DEF IInv, CampaignsOK
    <3>3. QED
      BY <3>1, <3>2
  <2>3. QED
    BY <2>1, <2>2 DEF IInv, CampaignsOK
<1>12. WorkerOK'
  <2>1. worker.at # "idle" => worker.campaign \in Campaigns \ {h.id}
    BY <1>2 DEF IInv, TypeOK, WorkerOK, Worker
  <2>2. QED
    BY <1>3, <1>5, <1>10, <2>1 DEF IInv, WorkerOK, BatchOK
<1>13. CopiesOK'
  BY <1>3, <1>6, <1>7 DEF IInv, Counted, CopiesOK, Settled
<1>14. CountersMatchRows'
  <2>1. Rows(h.id, {"sent"})' = {} /\ Rows(h.id, {"failed", "rate_limited"})' = {}
    BY <1>4, <1>6 DEF Rows
  <2>2. \A c \in Campaigns \ {h.id} :
          /\ Rows(c, {"sent"})' = Rows(c, {"sent"})
          /\ Rows(c, {"failed", "rate_limited"})' = Rows(c, {"failed", "rate_limited"})
    BY <1>6 DEF Rows
  <2>3. ASSUME NEW c \in Campaigns
        PROVE  /\ campaigns'[c].sent = Cardinality(Rows(c, {"sent"})')
               /\ campaigns'[c].failed = Cardinality(Rows(c, {"failed", "rate_limited"})')
    <3>1. CASE c = h.id
      BY <1>4, <1>5, <2>1, <3>1, FS_EmptySet
    <3>2. CASE c # h.id
      BY <1>5, <2>2, <3>2 DEF IInv, CountersMatchRows
    <3>3. QED
      BY <3>1, <3>2
  <2>4. QED
    BY <2>3 DEF CountersMatchRows
<1>15. QED
  BY <1>8, <1>9, <1>11, <1>12, <1>13, <1>14 DEF IInv

-----------------------------------------------------------------------------
(* The worker *)

\* What a pass never writes keeps its type and its place in the invariant, as long as
\* the campaigns it touches are rows already.
LEMMA PassSide ==
  ASSUME IInv, UNCHANGED <<userVars, wizardVars>>, mishaps' \in Nat,
         worker' \in Worker,
         campaigns' \in [Campaigns -> Campaign],
         \A c \in Campaigns : campaigns[c].status = "none" <=> campaigns'[c].status = "none",
         deliveries' \in [Campaigns -> [Users -> Delivery]],
         copies' \in [Campaigns -> [Users -> Nat]],
         reports' \in [Campaigns -> Nat]
  PROVE  TypeOK' /\ Counted' /\ DraftOK' /\ HandlersOK'
<1> USE DEF userVars, wizardVars
<1>1. TypeOK' /\ Counted' /\ DraftOK'
  BY DEF IInv, TypeOK, Counted, DraftOK
<1>2. HandlersOK'
  <2>1. \A h \in handlers : h.kind = "confirm" => h.id \in Campaigns
    BY HandlerShape DEF IInv, TypeOK
  <2>2. QED
    BY <2>1 DEF IInv, HandlersOK
<1>3. QED
  BY <1>1, <1>2

\* Only the status of campaign c changes: totals and rows stay what they were.
LEMMA CountersKept ==
  ASSUME IInv, UNCHANGED deliveries,
         \A c \in Campaigns : /\ campaigns'[c].sent = campaigns[c].sent
                              /\ campaigns'[c].failed = campaigns[c].failed
  PROVE  CountersMatchRows'
<1>1. ASSUME NEW c \in Campaigns
      PROVE  /\ Rows(c, {"sent"})' = Rows(c, {"sent"})
             /\ Rows(c, {"failed", "rate_limited"})' = Rows(c, {"failed", "rate_limited"})
             /\ Pending(c)' = Pending(c)
  BY DEF Rows, Pending
<1>2. QED
  BY <1>1 DEF IInv, CountersMatchRows

\* A pass that is over, or cut short, leaves no trace in the tables; what was marked
\* in its session is lost, at the cost of a mishap.
LEMMA EndPass ==
  ASSUME IInv, worker' = Idle, UNCHANGED <<campaigns, deliveries, copies, reports, nextId>>,
         mishaps' = mishaps + 1 \/ (mishaps' = mishaps /\ worker.at # "send")
  PROVE  CampaignsOK' /\ WorkerOK' /\ CopiesOK' /\ CountersMatchRows'
<1>1. CampaignsOK'
  BY DEF IInv, CampaignsOK, With, Pending, Rows
<1>2. WorkerOK'
  BY DEF WorkerOK, Idle
<1>3. CopiesOK'
  <2>1. \A c \in Campaigns, u \in Users : copies[c][u] \in Nat /\ mishaps \in Nat
    BY DEF IInv, TypeOK, Counted
  <2>2. CASE mishaps' = mishaps + 1
    BY <2>1, <2>2 DEF IInv, CopiesOK
  <2>3. CASE mishaps' = mishaps /\ worker.at # "send"
    <3>1. \A c \in Campaigns, u \in Users : ~Settled(c, u)
      BY <2>3 DEF IInv, WorkerOK, Settled, Unmarked
    <3>2. QED
      BY <2>1, <2>3, <3>1 DEF IInv, CopiesOK
  <2>4. QED
    BY <2>2, <2>3
<1>4. CountersMatchRows'
  BY CountersKept
<1>5. QED
  BY <1>1, <1>2, <1>3, <1>4

\* NextCampaign is a row that is sending, or one that is queued when none is sending.
LEMMA NextCampaignOK ==
  ASSUME IInv, With("sending") \cup With("queued") # {}
  PROVE  /\ NextCampaign \in Campaigns
         /\ \/ NextCampaign \in With("sending")
            \/ /\ With("sending") = {}
               /\ NextCampaign \in With("queued")
               /\ \A c \in With("queued") : NextCampaign <= c
<1>1. \A s : With(s) \subseteq Campaigns
  BY DEF With
<1>2. Campaigns \subseteq Nat
  BY BroadcastAssumption DEF Campaigns
<1>3. CASE With("sending") # {}
  <2>1. First(With("sending")) \in With("sending")
    BY <1>1, <1>2, <1>3, FirstIsLeast
  <2>2. QED
    BY <1>1, <1>3, <2>1 DEF NextCampaign
<1>4. CASE With("sending") = {}
  <2>1. /\ First(With("queued")) \in With("queued")
        /\ \A c \in With("queued") : First(With("queued")) <= c
    BY <1>1, <1>2, <1>4, FirstIsLeast
  <2>2. QED
    BY <1>1, <1>4, <2>1 DEF NextCampaign
<1>5. QED
  BY <1>3, <1>4

LEMMA PickCampaignKeeps ==
  ASSUME IInv, UNCHANGED <<userVars, wizardVars>>, PickCampaign
  PROVE  IInv'
<1> DEFINE c == NextCampaign
<1>1. /\ c \in Campaigns
      /\ campaigns[c].status \in {"sending", "queued"}
      /\ \A d \in Campaigns : campaigns[d].status = "sending" => d = c
  BY NextCampaignOK DEF PickCampaign, IInv, CampaignsOK, With
<1>2. /\ worker.at = "idle"
      /\ worker' = [Idle EXCEPT !.at = "list", !.campaign = c]
      /\ campaigns' = [campaigns EXCEPT ![c].status = "sending"]
      /\ UNCHANGED <<deliveries, copies, reports, mishaps, nextId>>
  BY DEF PickCampaign, wizardVars
<1> HIDE DEF c
<1>3. /\ campaigns' \in [Campaigns -> Campaign]
      /\ campaigns'[c].status = "sending"
      /\ \A d \in Campaigns : d # c => campaigns'[d] = campaigns[d]
      /\ \A d \in Campaigns : /\ campaigns'[d].sent = campaigns[d].sent
                              /\ campaigns'[d].failed = campaigns[d].failed
  BY <1>1, <1>2 DEF IInv, TypeOK, Campaign
<1>4. /\ worker' \in Worker /\ worker'.at = "list" /\ worker'.campaign = c
      /\ worker'.marks = Unmarked
  BY <1>1, <1>2, IdleOK DEF Idle, Worker
<1>5. TypeOK' /\ Counted' /\ DraftOK' /\ HandlersOK'
  BY <1>1, <1>2, <1>3, <1>4, PassSide DEF IInv, TypeOK, Counted
<1>6. CampaignsOK'
  <2>1. With("sending")' = {c}
    BY <1>1, <1>3 DEF With
  <2>2. \A d \in Campaigns : Pending(d)' = Pending(d)
    BY <1>2 DEF Pending, Rows
  <2>3. QED
    BY <1>1, <1>2, <1>3, <2>1, <2>2 DEF IInv, CampaignsOK
<1>7. WorkerOK'
  BY <1>1, <1>3, <1>4 DEF WorkerOK
<1>8. CopiesOK'
  <2>1. \A d \in Campaigns, u \in Users : ~Settled(d, u)
    BY <1>2 DEF IInv, WorkerOK, Settled, Unmarked
  <2>2. QED
    BY <1>2, <2>1 DEF IInv, CopiesOK
<1>9. CountersMatchRows'
  BY <1>2, <1>3, CountersKept
<1>10. QED
  BY <1>5, <1>6, <1>7, <1>8, <1>9 DEF IInv

\* The campaign that is sending is completed: nobody is pending.
LEMMA CompleteKeeps ==
  ASSUME IInv, UNCHANGED <<userVars, wizardVars, deliveries, copies, reports, mishaps>>,
         worker.at \in {"list", "count"}, Pending(worker.campaign) = {},
         Completed(worker.campaign), worker' = [worker EXCEPT !.at = "report"]
  PROVE  IInv'
<1> DEFINE c == worker.campaign
<1>1. /\ c \in Campaigns /\ campaigns[c].status = "sending" /\ reports[c] = 0
      /\ worker.marks = Unmarked
  BY DEF IInv, WorkerOK, CampaignsOK
<1>2. /\ campaigns' = [campaigns EXCEPT ![c].status = "completed"]
      /\ nextId' = nextId
  BY DEF Completed, wizardVars
<1>3. /\ worker' \in Worker /\ worker'.at = "report" /\ worker'.campaign = c
      /\ worker'.marks = Unmarked
  BY <1>1 DEF IInv, TypeOK, Worker
<1>4. Pending(c) = {}
  OBVIOUS
<1> HIDE DEF c
<1>5. /\ campaigns' \in [Campaigns -> Campaign]
      /\ campaigns'[c].status = "completed"
      /\ \A d \in Campaigns : d # c => campaigns'[d] = campaigns[d]
      /\ \A d \in Campaigns : /\ campaigns'[d].sent = campaigns[d].sent
                              /\ campaigns'[d].failed = campaigns[d].failed
  BY <1>1, <1>2 DEF IInv, TypeOK, Campaign
<1>6. TypeOK' /\ Counted' /\ DraftOK' /\ HandlersOK'
  BY <1>1, <1>3, <1>5, PassSide DEF IInv, TypeOK, Counted
<1>7. CampaignsOK'
  <2>1. With("sending")' \subseteq With("sending")
    BY <1>1, <1>5 DEF With
  <2>2. \A d \in Campaigns : Pending(d)' = Pending(d)
    BY DEF Pending, Rows
  <2>3. QED
    BY <1>1, <1>2, <1>4, <1>5, <2>1, <2>2 DEF IInv, CampaignsOK
<1>8. WorkerOK'
  BY <1>1, <1>3, <1>5 DEF WorkerOK
<1>9. CopiesOK'
  BY <1>1, <1>3 DEF IInv, CopiesOK, Settled
<1>10. CountersMatchRows'
  BY <1>5, CountersKept
<1>11. QED
  BY <1>6, <1>7, <1>8, <1>9, <1>10 DEF IInv

\* A pass that reads its batch.
LEMMA BatchKeeps ==
  ASSUME IInv, UNCHANGED <<userVars, wizardVars, tableVars, copies, reports, mishaps>>,
         worker.at = "list",
         worker' = [worker EXCEPT !.at = "send", !.todo = Batch(worker.campaign)]
  PROVE  IInv'
<1> USE DEF tableVars
<1> DEFINE c == worker.campaign
<1>1. /\ c \in Campaigns /\ campaigns[c].status = "sending" /\ worker.marks = Unmarked
      /\ Batch(c) \subseteq Pending(c) /\ Pending(c) \subseteq Users
  BY DEF IInv, WorkerOK, Batch, Pending, Rows
<1>2. /\ worker' \in Worker /\ worker'.at = "send" /\ worker'.campaign = c
      /\ worker'.marks = Unmarked /\ worker'.todo = Batch(c)
  BY <1>1 DEF IInv, TypeOK, Worker
<1>3. TypeOK' /\ Counted' /\ DraftOK' /\ HandlersOK'
  BY <1>2, PassSide DEF IInv, TypeOK, Counted
<1>4. CampaignsOK'
  BY DEF IInv, CampaignsOK, With, Pending, Rows, wizardVars
<1>5. WorkerOK'
  <2>1. Pending(worker.campaign)' = Pending(c)
    BY <1>2 DEF Pending, Rows
  <2>2. BatchOK'
    BY <1>1, <1>2, <2>1 DEF BatchOK, Unmarked
  <2>3. QED
    BY <1>1, <1>2, <2>2 DEF WorkerOK
<1>6. CopiesOK'
  BY <1>1, <1>2 DEF IInv, CopiesOK, Settled
<1>7. CountersMatchRows'
  BY CountersKept
<1>8. QED
  BY <1>3, <1>4, <1>5, <1>6, <1>7 DEF IInv

LEMMA ListBatchKeeps ==
  ASSUME IInv, UNCHANGED <<userVars, wizardVars>>, ListBatch
  PROVE  IInv'
<1>1. CASE Pending(worker.campaign) = {}
  BY <1>1, CompleteKeeps DEF ListBatch
<1>2. CASE Pending(worker.campaign) # {}
  BY <1>2, BatchKeeps DEF ListBatch, tableVars
<1>3. QED
  BY <1>1, <1>2

\* What marking a message does to the pass.
LEMMA MarkedShape ==
  ASSUME worker \in Worker, NEW u \in Users, NEW o \in Outcomes, Marked(u, o)
  PROVE  /\ worker' \in Worker /\ worker'.at = worker.at
         /\ worker'.campaign = worker.campaign /\ worker'.todo = worker.todo \ {u}
         /\ worker'.marks[u] = o
         /\ \A v \in Users \ {u} : worker'.marks[v] = worker.marks[v]
<1> DEFINE m == [worker.marks EXCEPT ![u] = o]
<1>1. worker' = [worker EXCEPT !.todo = worker.todo \ {u}, !.attempt = 1, !.marks = m]
  BY Zenon DEF Marked
<1>2. /\ m \in [Users -> Delivery] /\ m[u] = o
      /\ \A v \in Users \ {u} : m[v] = worker.marks[v]
  BY DEF Worker, Delivery
<1> HIDE DEF m
<1>3. worker' \in Worker /\ worker'.marks = m
  BY <1>1, <1>2 DEF Worker
<1>4. /\ worker'.at = worker.at /\ worker'.campaign = worker.campaign
      /\ worker'.todo = worker.todo \ {u}
  BY <1>1 DEF Worker
<1>5. QED
  BY <1>2, <1>3, <1>4

\* One attempt for u: the message arrives or not, and is marked or tried again.  A
\* message that arrives and is tried again costs a mishap.
LEMMA AttemptKeeps ==
  ASSUME IInv, UNCHANGED <<userVars, wizardVars, tableVars, reports>>,
         worker.at = "send", NEW u \in worker.todo,
         \/ worker' = [worker EXCEPT !.attempt = @ + 1]
         \/ \E o \in Outcomes : Marked(u, o) /\ (o = "sent" => Arrives(u)),
         \/ copies' = copies /\ mishaps' = mishaps
         \/ Arrives(u) /\ mishaps' = mishaps + 1
         \/ Arrives(u) /\ Marked(u, "sent") /\ mishaps' = mishaps
  PROVE  IInv'
<1> USE DEF tableVars
<1> DEFINE c == worker.campaign
<1>1. /\ c \in Campaigns /\ campaigns[c].status = "sending" /\ BatchOK
      /\ u \in Users /\ u \in Pending(c) /\ deliveries[c][u] = "pending"
      /\ worker.marks[u] = "none" /\ copies[c][u] <= mishaps
      /\ mishaps \in Nat /\ copies \in [Campaigns -> [Users -> Nat]]
  BY DEF IInv, TypeOK, Counted, WorkerOK, BatchOK, Pending, Rows, CopiesOK, Settled
<1>2. /\ copies' \in [Campaigns -> [Users -> Nat]]
      /\ \A d \in Campaigns, v \in Users : d # c \/ v # u => copies'[d][v] = copies[d][v]
      /\ copies'[c][u] = copies[c][u] \/ copies'[c][u] = copies[c][u] + 1
      /\ Arrives(u) => copies'[c][u] > 0
  <2>1. CASE Arrives(u)
    <3>1. copies' = [copies EXCEPT ![c] = [copies[c] EXCEPT ![u] = copies[c][u] + 1]]
      BY <2>1 DEF Arrives
    <3>2. copies[c] \in [Users -> Nat] /\ copies[c][u] \in Nat
      BY <1>1
    <3>3. copies'[c] = [copies[c] EXCEPT ![u] = copies[c][u] + 1]
      BY <1>1, <3>1
    <3>4. copies'[c] \in [Users -> Nat] /\ copies'[c][u] = copies[c][u] + 1
      BY <1>1, <3>2, <3>3
    <3>5. copies' \in [Campaigns -> [Users -> Nat]]
      BY <1>1, <3>1, <3>3, <3>4
    <3>6. QED
      BY <1>1, <3>1, <3>2, <3>3, <3>4, <3>5
  <2>2. CASE ~Arrives(u)
    BY <1>1, <2>2
  <2>3. QED
    BY <2>1, <2>2
<1>3. /\ worker' \in Worker /\ worker'.at = "send" /\ worker'.campaign = c
      /\ worker'.todo \subseteq worker.todo
      /\ \A v \in Users \ {u} : worker'.marks[v] = worker.marks[v]
      /\ \/ worker'.marks[u] = "none"
         \/ /\ worker'.marks[u] \in Outcomes /\ u \notin worker'.todo
            /\ worker'.marks[u] = "sent" => copies'[c][u] > 0
  <2>1. CASE worker' = [worker EXCEPT !.attempt = @ + 1]
    BY <1>1, <2>1 DEF IInv, TypeOK, Worker
  <2>2. CASE \E o \in Outcomes : Marked(u, o) /\ (o = "sent" => Arrives(u))
    BY <1>1, <1>2, <2>2, MarkedShape DEF IInv, TypeOK
  <2>3. QED
    BY <2>1, <2>2
<1>4. Marked(u, "sent") => worker'.marks[u] # "none"
  BY <1>1, MarkedShape DEF IInv, TypeOK, Outcomes
<1>5. mishaps' \in Nat /\ mishaps <= mishaps' /\ copies'[c][u] <= 1 + mishaps'
      /\ (worker'.marks[u] = "none" => copies'[c][u] <= mishaps')
  BY <1>1, <1>2, <1>4
<1>6. TypeOK' /\ Counted' /\ DraftOK' /\ HandlersOK'
  BY <1>2, <1>3, <1>5, PassSide DEF IInv, TypeOK, Counted
<1>7. CampaignsOK'
  BY DEF IInv, CampaignsOK, With, Pending, Rows, wizardVars
<1>8. WorkerOK'
  <2>1. Pending(worker.campaign)' = Pending(c)
    BY <1>3 DEF Pending, Rows
  <2>2. BatchOK'
    <3>1. worker'.todo \subseteq Pending(worker.campaign)'
      BY <1>1, <1>3, <2>1 DEF BatchOK
    <3>2. ASSUME NEW v \in Users, worker'.marks[v] # "none"
          PROVE  /\ worker'.marks[v] # "pending"
                 /\ v \in Pending(worker.campaign)'
                 /\ v \notin worker'.todo
                 /\ worker'.marks[v] = "sent" => copies'[worker'.campaign][v] > 0
      <4>1. CASE v = u
        BY <1>1, <1>3, <2>1, <3>2, <4>1 DEF Outcomes
      <4>2. CASE v # u
        BY <1>1, <1>2, <1>3, <2>1, <3>2, <4>2 DEF BatchOK
      <4>3. QED
        BY <4>1, <4>2
    <3>3. QED
      BY <3>1, <3>2 DEF BatchOK
  <2>3. QED
    BY <1>1, <1>3, <2>2 DEF WorkerOK
<1>9. CopiesOK'
  <2> SUFFICES ASSUME NEW d \in Campaigns, NEW v \in Users
               PROVE  /\ copies'[d][v] <= 1 + mishaps'
                      /\ copies'[d][v] > 0 => deliveries[d][v] # "none"
                      /\ deliveries[d][v] = "pending" /\ ~Settled(d, v)' =>
                           copies'[d][v] <= mishaps'
    BY DEF CopiesOK
  <2>1. CASE d = c /\ v = u
    BY <1>1, <1>3, <1>5, <2>1 DEF Settled
  <2>2. CASE d # c \/ v # u
    <3>1. copies'[d][v] = copies[d][v] /\ copies[d][v] \in Nat
      BY <1>1, <1>2, <2>2
    <3>2. Settled(d, v) <=> Settled(d, v)'
      BY <1>3, <2>2 DEF Settled
    <3>3. QED
      BY <1>1, <1>5, <3>1, <3>2 DEF IInv, CopiesOK
  <2>3. QED
    BY <2>1, <2>2
<1>10. CountersMatchRows'
  BY CountersKept
<1>11. QED
  BY <1>6, <1>7, <1>8, <1>9, <1>10 DEF IInv

LEMMA SendKeeps ==
  ASSUME IInv, UNCHANGED <<userVars, wizardVars>>, Send
  PROVE  IInv'
<1> DEFINE u == First(worker.todo)
<1>1. u \in worker.todo
  <2>1. worker.todo \subseteq Nat
    BY BroadcastAssumption DEF IInv, TypeOK, Worker
  <2>2. QED
    BY <2>1, FirstIsLeast DEF Send
<1>2. /\ worker.at = "send" /\ UNCHANGED <<tableVars, reports>>
      /\ Accept(u) \/ Forbid(u) \/ Flood(u) \/ Err(u) \/ LoseAnswer(u)
  BY DEF Send
<1> HIDE DEF u
<1>3. \/ worker' = [worker EXCEPT !.attempt = @ + 1]
      \/ \E o \in Outcomes : Marked(u, o) /\ (o = "sent" => Arrives(u))
  BY <1>2 DEF Accept, Forbid, Flood, Err, LoseAnswer, TryAgainOr, Outcomes
<1>4. \/ copies' = copies /\ mishaps' = mishaps
      \/ Arrives(u) /\ mishaps' = mishaps + 1
      \/ Arrives(u) /\ Marked(u, "sent") /\ mishaps' = mishaps
  BY <1>2 DEF Accept, Forbid, Flood, Err, LoseAnswer
<1>5. QED
  BY <1>1, <1>2, <1>3, <1>4, AttemptKeeps

\* What the commit of a batch makes of the rows of the campaign: those marked in the
\* session take their outcome, and no row had it before.
LEMMA CommitBatchRows ==
  ASSUME IInv, CommitBatch
  PROVE  /\ worker.campaign \in Campaigns
         /\ campaigns[worker.campaign].status = "sending"
         /\ deliveries' \in [Campaigns -> [Users -> Delivery]]
         /\ \A d \in Campaigns \ {worker.campaign} : deliveries'[d] = deliveries[d]
         /\ \A u \in Users :
              IF worker.marks[u] = "none"
              THEN deliveries'[worker.campaign][u] = deliveries[worker.campaign][u]
              ELSE /\ deliveries[worker.campaign][u] = "pending"
                   /\ deliveries'[worker.campaign][u] = worker.marks[u]
                   /\ worker.marks[u] \in Outcomes
<1> DEFINE c == worker.campaign
           row == [u \in Users |-> IF worker.marks[u] = "none" THEN deliveries[c][u]
                                   ELSE worker.marks[u]]
<1>1. /\ c \in Campaigns /\ campaigns[c].status = "sending" /\ BatchOK
      /\ worker.marks \in [Users -> Delivery] /\ deliveries[c] \in [Users -> Delivery]
      /\ deliveries \in [Campaigns -> [Users -> Delivery]]
  BY DEF CommitBatch, IInv, TypeOK, Worker, WorkerOK
<1>2. deliveries' = [deliveries EXCEPT ![c] = row]
  BY DEF CommitBatch
<1>3. \A u \in Users : worker.marks[u] # "none" =>
        deliveries[c][u] = "pending" /\ worker.marks[u] \in Outcomes
  BY <1>1 DEF BatchOK, Pending, Rows, Delivery
<1>4. row \in [Users -> Delivery]
  BY <1>1
<1>5. /\ deliveries' \in [Campaigns -> [Users -> Delivery]] /\ deliveries'[c] = row
      /\ \A d \in Campaigns \ {c} : deliveries'[d] = deliveries[d]
  <2> HIDE DEF row, c
  <2> QED
    BY <1>1, <1>2, <1>4
<1>6. QED
  BY <1>1, <1>3, <1>5

\* The rows with an outcome in S grow by those marked with one, which is how the
\* totals are added up.
LEMMA RowsGrow ==
  ASSUME IInv, CommitBatch, NEW S \in SUBSET Outcomes
  PROVE  /\ Cardinality(MarkedAs(S)) \in Nat
         /\ Cardinality(Rows(worker.campaign, S)) \in Nat
         /\ Cardinality({u \in Users : deliveries'[worker.campaign][u] \in S})
              = Cardinality(Rows(worker.campaign, S)) + Cardinality(MarkedAs(S))
<1> DEFINE c == worker.campaign
           R == Rows(c, S)
           N == MarkedAs(S)
           after == {u \in Users : deliveries'[c][u] \in S}
<1>1. /\ "none" \notin S /\ "pending" \notin S
  BY DEF Outcomes
<1>2. after = R \cup N /\ R \cap N = {} /\ R \in SUBSET Users /\ N \in SUBSET Users
  BY <1>1, CommitBatchRows DEF Rows, MarkedAs
<1> HIDE DEF R, N, after
<1>3. IsFiniteSet(R) /\ IsFiniteSet(N)
  BY <1>2, FS_Subset, BroadcastAssumption
<1>4. Cardinality(R) \in Nat /\ Cardinality(N) \in Nat
  BY <1>3, FS_CardinalityType
<1>5. Cardinality(R \cup N) = Cardinality(R) + Cardinality(N) - Cardinality({})
  BY <1>2, <1>3, FS_Union
<1>6. Cardinality(after) = Cardinality(R) + Cardinality(N)
  BY <1>2, <1>4, <1>5, FS_EmptySet
<1>7. QED
  BY <1>4, <1>6 DEF R, N, after

LEMMA CommitBatchKeeps ==
  ASSUME IInv, UNCHANGED <<userVars, wizardVars>>, CommitBatch
  PROVE  IInv'
<1> DEFINE c == worker.campaign
           Lost == {"failed", "rate_limited"}
           sent == campaigns[c].sent + Cardinality(MarkedAs({"sent"}))
           failed == campaigns[c].failed + Cardinality(MarkedAs(Lost))
<1>1. /\ {"sent"} \in SUBSET Outcomes /\ Lost \in SUBSET Outcomes
  BY DEF Outcomes
<1>2. /\ c \in Campaigns /\ campaigns[c].status = "sending"
      /\ deliveries' \in [Campaigns -> [Users -> Delivery]]
      /\ campaigns \in [Campaigns -> Campaign]
      /\ UNCHANGED <<copies, reports, mishaps, nextId>>
  BY CommitBatchRows DEF CommitBatch, IInv, TypeOK, wizardVars
<1>3. /\ worker' \in Worker /\ worker'.at = "count" /\ worker'.campaign = c
      /\ worker'.marks = Unmarked
  BY IdleOK DEF CommitBatch, IInv, TypeOK, Worker
<1>4. sent \in Nat /\ failed \in Nat
  <2>1. Cardinality(MarkedAs({"sent"})) \in Nat /\ Cardinality(MarkedAs(Lost)) \in Nat
    <3> HIDE DEF Lost
    <3> QED
      BY <1>1, RowsGrow
  <2>2. campaigns[c].sent \in Nat /\ campaigns[c].failed \in Nat
    BY <1>2 DEF Campaign
  <2>3. QED
    BY <2>1, <2>2
<1>5. campaigns' = [campaigns EXCEPT ![c].sent = sent, ![c].failed = failed]
  BY DEF CommitBatch
<1> HIDE DEF sent, failed, c
<1>6. /\ campaigns' \in [Campaigns -> Campaign]
      /\ campaigns'[c].status = "sending"
      /\ campaigns'[c].sent = sent /\ campaigns'[c].failed = failed
      /\ \A d \in Campaigns \ {c} : campaigns'[d] = campaigns[d]
  BY <1>2, <1>4, <1>5 DEF Campaign
<1>7. TypeOK' /\ Counted' /\ DraftOK' /\ HandlersOK'
  BY <1>2, <1>3, <1>6, PassSide DEF IInv, TypeOK, Counted
<1>8. /\ \A d \in Campaigns \ {c} : deliveries'[d] = deliveries[d]
      /\ \A u \in Users :
           IF worker.marks[u] = "none" THEN deliveries'[c][u] = deliveries[c][u]
           ELSE /\ deliveries[c][u] = "pending"
                /\ deliveries'[c][u] \in Outcomes
  BY CommitBatchRows DEF c
<1>9. CampaignsOK'
  <2>1. With("sending")' = With("sending")
    BY <1>2, <1>6 DEF With
  <2>2. \A d \in Campaigns \ {c} : Pending(d)' = Pending(d)
    BY <1>8 DEF Pending, Rows
  <2>3. ASSUME NEW d \in Campaigns
        PROVE  /\ campaigns'[d].status = "none" => deliveries'[d] = Unmarked /\ reports'[d] = 0
               /\ campaigns'[d].status # "none" => d < nextId'
               /\ campaigns'[d].status = "completed" => Pending(d)' = {}
               /\ reports'[d] = 0 \/ (reports'[d] = 1 /\ campaigns'[d].status = "completed")
    <3>1. CASE d = c
      BY <1>2, <1>6, <3>1 DEF IInv, CampaignsOK
    <3>2. CASE d # c
      BY <1>2, <1>6, <1>8, <2>2, <3>2 DEF IInv, CampaignsOK
    <3>3. QED
      BY <3>1, <3>2
  <2>4. QED
    BY <2>1, <2>3 DEF IInv, CampaignsOK
<1>10. WorkerOK'
  BY <1>2, <1>3, <1>6 DEF WorkerOK
<1>11. CopiesOK'
  <2> SUFFICES ASSUME NEW d \in Campaigns, NEW u \in Users
               PROVE  /\ copies'[d][u] <= 1 + mishaps'
                      /\ copies'[d][u] > 0 => deliveries'[d][u] # "none"
                      /\ deliveries'[d][u] = "pending" /\ ~Settled(d, u)' =>
                           copies'[d][u] <= mishaps'
    BY DEF CopiesOK
  <2>1. /\ copies[d][u] <= 1 + mishaps
        /\ copies[d][u] > 0 => deliveries[d][u] # "none"
        /\ deliveries[d][u] = "pending" /\ ~Settled(d, u) => copies[d][u] <= mishaps
    BY DEF IInv, CopiesOK
  <2>2. CASE d = c
    BY <1>2, <1>8, <2>1, <2>2 DEF Settled, Outcomes, c
  <2>3. CASE d # c
    BY <1>2, <1>8, <2>1, <2>3 DEF Settled, c
  <2>4. QED
    BY <2>2, <2>3
<1>12. CountersMatchRows'
  <2>1. ASSUME NEW d \in Campaigns
        PROVE  /\ campaigns'[d].sent = Cardinality({u \in Users : deliveries'[d][u] \in {"sent"}})
               /\ campaigns'[d].failed = Cardinality({u \in Users : deliveries'[d][u] \in Lost})
    <3>1. /\ campaigns[d].sent = Cardinality(Rows(d, {"sent"}))
          /\ campaigns[d].failed = Cardinality(Rows(d, Lost))
      BY DEF IInv, CountersMatchRows
    <3>2. CASE d = c
      BY <1>1, <1>6, <3>1, <3>2, RowsGrow DEF sent, failed, c
    <3>3. CASE d # c
      BY <1>6, <1>8, <3>1, <3>3 DEF Rows
    <3>4. QED
      BY <3>2, <3>3
  <2>2. QED
    BY <2>1 DEF CountersMatchRows, Rows
<1>13. QED
  BY <1>7, <1>9, <1>10, <1>11, <1>12 DEF IInv

LEMMA CountPendingKeeps ==
  ASSUME IInv, UNCHANGED <<userVars, wizardVars>>, CountPending
  PROVE  IInv'
<1>1. CASE Pending(worker.campaign) = {}
  BY <1>1, CompleteKeeps DEF CountPending
<1>2. CASE Pending(worker.campaign) # {}
  <2>1. worker' = Idle /\ worker.at = "count" /\ UNCHANGED <<tableVars, copies, reports, mishaps>>
    BY <1>2 DEF CountPending, tableVars
  <2>2. TypeOK' /\ Counted' /\ DraftOK' /\ HandlersOK'
    BY <2>1, IdleOK, PassSide DEF IInv, TypeOK, Counted, tableVars
  <2>3. CampaignsOK' /\ WorkerOK' /\ CopiesOK' /\ CountersMatchRows'
    BY <2>1, EndPass DEF tableVars, wizardVars
  <2>4. QED
    BY <2>2, <2>3 DEF IInv
<1>3. QED
  BY <1>1, <1>2

\* The report follows the commit, and nobody else reports this campaign.
LEMMA ReportKeeps ==
  ASSUME IInv, UNCHANGED <<userVars, wizardVars>>, Report
  PROVE  IInv'
<1> DEFINE c == worker.campaign
<1>1. /\ c \in Campaigns /\ campaigns[c].status = "completed" /\ reports[c] = 0
      /\ worker.marks = Unmarked
  BY DEF Report, IInv, WorkerOK
<1>2. /\ worker' = Idle /\ reports' = [reports EXCEPT ![c] = 1]
      /\ UNCHANGED <<campaigns, deliveries, copies, mishaps, nextId>>
  BY <1>1 DEF Report, IInv, TypeOK, wizardVars
<1>3. TypeOK' /\ Counted' /\ DraftOK' /\ HandlersOK'
  BY <1>1, <1>2, IdleOK, PassSide DEF IInv, TypeOK, Counted
<1>4. CampaignsOK'
  BY <1>1, <1>2 DEF IInv, TypeOK, CampaignsOK, With, Pending, Rows
<1>5. WorkerOK'
  BY <1>2 DEF WorkerOK, Idle
<1>6. CopiesOK'
  BY <1>1, <1>2 DEF IInv, CopiesOK, Settled, Unmarked
<1>7. CountersMatchRows'
  BY <1>2, CountersKept
<1>8. QED
  BY <1>3, <1>4, <1>5, <1>6, <1>7 DEF IInv

LEMMA FailPassKeeps ==
  ASSUME IInv, FailPass
  PROVE  IInv'
<1>1. TypeOK' /\ Counted' /\ DraftOK' /\ HandlersOK'
  BY IdleOK, PassSide DEF IInv, TypeOK, Counted, FailPass, tableVars
<1>2. CampaignsOK' /\ WorkerOK' /\ CopiesOK' /\ CountersMatchRows'
  BY EndPass DEF FailPass, tableVars, wizardVars
<1>3. QED
  BY <1>1, <1>2 DEF IInv

LEMMA CrashKeeps ==
  ASSUME IInv, Crash
  PROVE  IInv'
<1> USE DEF Crash, tableVars
<1>1. TypeOK' /\ Counted'
  BY IdleOK DEF IInv, TypeOK, Counted, userVars, Draft, NoDraft
<1>2. DraftOK' /\ HandlersOK'
  BY DEF DraftOK, NoDraft, HandlersOK
<1>3. CampaignsOK' /\ WorkerOK' /\ CopiesOK' /\ CountersMatchRows'
  BY EndPass
<1>4. QED
  BY <1>1, <1>2, <1>3 DEF IInv

LEMMA StepOK == IInv /\ [Next]_vars => IInv'
<1> SUFFICES ASSUME IInv, [Next]_vars PROVE IInv'
  OBVIOUS
<1>1. CASE UserChanges
  BY <1>1, UserChangesKeeps
<1>2. CASE EditDraft
  BY <1>2, EditDraftKeeps
<1>3. CASE Confirm
  BY <1>3, ConfirmKeeps
<1>4. CASE Pass
  BY <1>4, PickCampaignKeeps, ListBatchKeeps, SendKeeps, CommitBatchKeeps, CountPendingKeeps,
     ReportKeeps DEF Pass
<1>5. CASE FailPass
  BY <1>5, FailPassKeeps
<1>6. CASE Crash
  BY <1>6, CrashKeeps
<1>7. CASE UNCHANGED vars
  <2> USE <1>7 DEF vars, userVars, wizardVars, workerVars, tableVars
  <2>1. TypeOK' /\ Counted' /\ DraftOK' /\ HandlersOK'
    BY DEF IInv, TypeOK, Counted, DraftOK, HandlersOK
  <2>2. CampaignsOK' /\ WorkerOK' /\ CopiesOK' /\ CountersMatchRows'
    BY TablesKept DEF IInv, TypeOK
  <2>3. QED
    BY <2>1, <2>2 DEF IInv
<1>8. QED
  BY <1>1, <1>2, <1>3, <1>4, <1>5, <1>6, <1>7 DEF Next

-----------------------------------------------------------------------------
(* The theorems *)

\* The strengthened invariant: what a pass holds in its session are pending rows of the
\* one campaign that is sending, and an id a handler holds is nobody else's.
THEOREM BroadcastInvariant == Spec => []IInv
  BY InitOK, StepOK, PTL DEF Spec

\* The wizard, the tables and the pass have their types.
THEOREM BroadcastTypes == Spec => []TypeOK
<1>1. IInv => TypeOK
  BY DEF IInv
<1>2. QED
  BY <1>1, BroadcastInvariant, PTL

\* The totals of a campaign are those of its rows, whatever pass failed and wherever the
\* program was killed.
THEOREM TotalsAreRight == Spec => []CountersMatchRows
<1>1. IInv => CountersMatchRows
  BY DEF IInv
<1>2. QED
  BY <1>1, BroadcastInvariant, PTL

\* Nobody gets a campaign more often than once and once more for each mishap.
THEOREM CopiesAreBounded == Spec => []CopiesNeedMishaps
<1>1. IInv => CopiesNeedMishaps
  BY DEF IInv, CopiesOK, CopiesNeedMishaps
<1>2. QED
  BY <1>1, BroadcastInvariant, PTL

\* The creator is told of the end of a campaign once at most, when nobody is pending.
THEOREM ReportsAreUnique == Spec => []ReportedOnce
<1>1. IInv => ReportedOnce
  BY DEF IInv, CampaignsOK, ReportedOnce
<1>2. QED
  BY <1>1, BroadcastInvariant, PTL

-----------------------------------------------------------------------------
(* What is queued has been shown.                                          *)
(*                                                                         *)
(* As long as the handlers of the admin run one at a time, nothing touches *)
(* the draft between the steps of a handler: what it has read is what the  *)
(* draft holds when it writes.  A text in the draft has then been shown    *)
(* with the audience that the draft has, since selecting an audience       *)
(* begins a draft without a text; and the draft that is confirmed is       *)
(* cleared with its number.                                                *)

\* What handler h has read is what the draft still holds.
Current(h) ==
  /\ h.kind \in {"text", "template"} => h.filter = draft.filter
  /\ h.kind = "title" => /\ draft.content # None
                         /\ h.filter = draft.label
                         /\ h.content = draft.content
  /\ h.kind = "confirm" => /\ draft.content # None
                           /\ h.filter = draft.filter
                           /\ h.content = draft.content
                           /\ h.draft = draft.number

OneHandler == /\ \A g, h \in handlers : g = h
              /\ \A h \in handlers : Current(h)

\* A text in the draft has been shown with the audience that the draft has.
DraftShown == draft.content # None => /\ draft.filter # None
                                      /\ draft.label = draft.filter
                                      /\ <<draft.filter, draft.content>> \in shown

Queued == Campaigns \ With("none")

\* The step that began the draft is that of no campaign.
DraftIsNew == draft.filter # None =>
  /\ draft.number <= steps
  /\ \A c \in Queued : campaigns[c].draft # draft.number

OrdersOK ==
  \A c \in Queued : /\ <<campaigns[c].filter, campaigns[c].content>> \in shown
                    /\ campaigns[c].draft <= steps
                    /\ \A d \in Queued \ {c} : campaigns[c].draft # campaigns[d].draft

SerialOK == OneHandler /\ DraftShown /\ DraftIsNew /\ OrdersOK
QInv == overlapped \/ SerialOK

\* A step of the admin that leaves handlers running one at a time finds none.
LEMMA StepsAlone ==
  ASSUME Step, ~overlapped'
  PROVE  ~overlapped /\ handlers = {} /\ steps' = steps + 1
  BY DEF Step

LEMMA OrdersKept ==
  ASSUME IInv, OrdersOK, shown \subseteq shown', steps' \in Nat, steps <= steps',
         \A c \in Campaigns : /\ campaigns'[c].filter = campaigns[c].filter
                              /\ campaigns'[c].content = campaigns[c].content
                              /\ campaigns'[c].draft = campaigns[c].draft
                              /\ campaigns'[c].status = "none" <=> campaigns[c].status = "none"
  PROVE  OrdersOK' /\ Queued' = Queued
<1>1. Queued' = Queued
  BY DEF Queued, With
<1>2. \A c \in Queued : c \in Campaigns /\ campaigns[c].draft \in Nat
  BY DEF Queued, IInv, TypeOK, Campaign
<1>3. steps \in Nat
  BY DEF IInv, Counted
<1>4. OrdersOK'
  BY <1>1, <1>2, <1>3 DEF OrdersOK
<1>5. QED
  BY <1>1, <1>4

\* Steps that leave the wizard alone and keep what was asked for.
LEMMA WizardAside ==
  ASSUME IInv, SerialOK, UNCHANGED wizardVars,
         \A c \in Campaigns : /\ campaigns'[c].filter = campaigns[c].filter
                              /\ campaigns'[c].content = campaigns[c].content
                              /\ campaigns'[c].draft = campaigns[c].draft
                              /\ campaigns'[c].status = "none" <=> campaigns[c].status = "none"
  PROVE  SerialOK'
<1>1. UNCHANGED <<draft, handlers, shown, steps>>
  BY DEF wizardVars
<1>2. OrdersOK' /\ Queued' = Queued
  BY <1>1, OrdersKept DEF SerialOK, IInv, Counted
<1>3. OneHandler' /\ DraftShown'
  BY <1>1 DEF SerialOK, OneHandler, Current, DraftShown
<1>4. DraftIsNew'
  <2>1. \A c \in Queued : campaigns'[c].draft = campaigns[c].draft
    BY DEF Queued
  <2>2. QED
    BY <1>1, <1>2, <2>1 DEF SerialOK, DraftIsNew
<1>5. QED
  BY <1>2, <1>3, <1>4 DEF SerialOK

\* A step of the wizard keeps the campaigns; what it does to the draft remains.
LEMMA DraftSteps ==
  ASSUME IInv, SerialOK, UNCHANGED campaigns, shown \subseteq shown',
         steps' \in Nat, steps <= steps', OneHandler', DraftShown',
         \/ draft'.filter = None
         \/ draft'.filter = draft.filter /\ draft'.number = draft.number
         \/ draft'.number = steps + 1 /\ steps' = steps + 1
  PROVE  SerialOK'
<1>1. OrdersOK' /\ Queued' = Queued
  BY OrdersKept DEF SerialOK
<1>2. steps \in Nat /\ draft.number \in Nat
  BY DEF IInv, Counted, TypeOK, Draft
<1>3. \A c \in Queued : campaigns[c].draft \in Nat /\ campaigns[c].draft <= steps
  BY DEF SerialOK, OrdersOK, Queued, IInv, TypeOK, Campaign
<1>4. DraftIsNew'
  BY <1>1, <1>2, <1>3 DEF SerialOK, DraftIsNew
<1>5. QED
  BY <1>1, <1>4 DEF SerialOK

LEMMA EditDraftSerial ==
  ASSUME IInv, SerialOK, EditDraft, ~overlapped, ~overlapped'
  PROVE  SerialOK'
<1>1. /\ draft \in Draft /\ handlers \subseteq Handler /\ steps \in Nat
      /\ OneHandler /\ DraftShown /\ UNCHANGED campaigns
      /\ None \notin Filters /\ None \notin Contents
  BY BroadcastAssumption DEF IInv, TypeOK, Counted, SerialOK, EditDraft, tableVars
<1>2. CASE Leave \/ ContentEntry \/ PromptTitle
  <2>1. handlers = {} /\ handlers' = {} /\ steps' = steps + 1 /\ shown' = shown
    BY <1>2, StepsAlone DEF Leave, ContentEntry, PromptTitle, Touches
  <2>2. \/ draft' = NoDraft
        \/ \E s \in {"content", "title"} : draft' = [draft EXCEPT !.state = s]
    BY <1>2 DEF Leave, ContentEntry, PromptTitle
  <2>3. \/ draft' = NoDraft
        \/ /\ draft'.filter = draft.filter /\ draft'.label = draft.label
           /\ draft'.content = draft.content /\ draft'.number = draft.number
    BY <1>1, <2>2 DEF Draft
  <2>4. OneHandler'
    BY <2>1 DEF OneHandler
  <2>5. DraftShown'
    BY <1>1, <2>1, <2>3 DEF DraftShown, NoDraft
  <2>6. \/ draft'.filter = None
        \/ draft'.filter = draft.filter /\ draft'.number = draft.number
    BY <2>3 DEF NoDraft
  <2>7. steps' \in Nat /\ steps <= steps'
    BY <1>1, <2>1
  <2>8. QED
    BY <1>1, <2>1, <2>4, <2>5, <2>6, <2>7, DraftSteps
<1>3. CASE \E f \in Filters : SelectFilter(f)
  <2>1. handlers = {} /\ handlers' = {} /\ steps' = steps + 1 /\ shown' = shown
    BY <1>3, StepsAlone DEF SelectFilter, Touches
  <2>2. draft'.content = None /\ draft'.number = steps + 1
    BY <1>3 DEF SelectFilter, NoDraft
  <2>3. OneHandler' /\ DraftShown'
    BY <2>1, <2>2 DEF OneHandler, DraftShown
  <2>4. steps' \in Nat /\ steps <= steps'
    BY <1>1, <2>1
  <2>5. QED
    BY <1>1, <2>1, <2>2, <2>3, <2>4, DraftSteps
<1>4. CASE \E kind \in {"text", "template"}, t \in Contents : BeginPreview(kind, t)
  <2>1. PICK kind \in {"text", "template"}, t \in Contents : BeginPreview(kind, t)
    BY <1>4
  <2> DEFINE h == [kind |-> kind, filter |-> draft.filter, content |-> t]
  <2>2. handlers = {} /\ steps' = steps + 1 /\ UNCHANGED <<draft, shown>>
    BY <2>1, StepsAlone DEF BeginPreview, Runs
  <2>3. handlers' = {h}
    BY <2>1, <2>2 DEF BeginPreview, Runs
  <2>4. h.kind \in {"text", "template"} /\ h.filter = draft.filter
    OBVIOUS
  <2> HIDE DEF h
  <2>5. OneHandler'
    BY <2>2, <2>3, <2>4 DEF OneHandler, Current
  <2>6. DraftShown'
    BY <1>1, <2>2 DEF DraftShown
  <2>7. steps' \in Nat /\ steps <= steps'
    BY <1>1, <2>2
  <2>8. QED
    BY <1>1, <2>2, <2>5, <2>6, <2>7, DraftSteps
<1>5. CASE \E h \in handlers : EndPreview(h)
  <2>1. PICK h \in handlers : EndPreview(h)
    BY <1>5
  <2>2. handlers' = {} /\ steps' = steps
    BY <1>1, <2>1 DEF EndPreview, OneHandler
  <2>3. h.filter = draft.filter /\ h.filter \in Filters /\ h.content \in Contents
    BY <1>1, <2>1, HandlerShape DEF EndPreview, OneHandler, Current
  <2>4. OneHandler'
    BY <2>2 DEF OneHandler
  <2>5. \/ UNCHANGED <<draft, shown>>
        \/ /\ draft'.filter = draft.filter /\ draft'.number = draft.number
           /\ draft'.label = h.filter /\ draft'.content = h.content
           /\ shown' = shown \cup {<<h.filter, h.content>>}
    BY <1>1, <2>1 DEF EndPreview, Draft
  <2>6. DraftShown'
    BY <1>1, <2>3, <2>5 DEF DraftShown
  <2>7. steps' \in Nat /\ steps <= steps' /\ shown \subseteq shown'
    BY <1>1, <2>2, <2>5
  <2>8. draft'.filter = draft.filter /\ draft'.number = draft.number
    BY <2>5
  <2>9. QED
    BY <1>1, <2>4, <2>6, <2>7, <2>8, DraftSteps
<1>6. CASE \E h \in handlers : EndTitle(h)
  <2>1. PICK h \in handlers : EndTitle(h)
    BY <1>6
  <2>2. handlers' = {} /\ steps' = steps /\ shown \subseteq shown'
    BY <1>1, <2>1 DEF EndTitle, OneHandler
  <2>3. /\ draft'.filter = draft.filter /\ draft'.label = draft.label
        /\ draft'.content = draft.content /\ draft'.number = draft.number
    BY <1>1, <2>1 DEF EndTitle, Draft
  <2>4. OneHandler' /\ DraftShown'
    BY <1>1, <2>2, <2>3 DEF OneHandler, DraftShown
  <2>5. steps' \in Nat /\ steps <= steps'
    BY <1>1, <2>2
  <2>6. QED
    BY <1>1, <2>2, <2>3, <2>4, <2>5, DraftSteps
<1>7. CASE BeginTitle
  <2> DEFINE h == [kind |-> "title", filter |-> draft.label, content |-> draft.content]
  <2>1. /\ handlers = {} /\ steps' = steps + 1 /\ UNCHANGED <<draft, shown>>
        /\ draft.content # None
    BY <1>7, StepsAlone DEF BeginTitle, Runs
  <2>2. handlers' = {h}
    BY <1>7, <2>1 DEF BeginTitle, Runs
  <2>3. h.kind = "title" /\ h.filter = draft.label /\ h.content = draft.content
    OBVIOUS
  <2> HIDE DEF h
  <2>4. OneHandler' /\ DraftShown'
    BY <1>1, <2>1, <2>2, <2>3 DEF OneHandler, Current, DraftShown
  <2>5. steps' \in Nat /\ steps <= steps'
    BY <1>1, <2>1
  <2>6. QED
    BY <1>1, <2>1, <2>4, <2>5, DraftSteps
<1>8. CASE BeginConfirm
  <2>1. CASE draft.filter = None \/ draft.content = None
    <3>1. /\ handlers = {} /\ handlers' = {} /\ steps' = steps + 1
          /\ draft' = NoDraft /\ shown' = shown
      BY <1>8, <2>1, StepsAlone DEF BeginConfirm, Touches
    <3>2. OneHandler' /\ DraftShown' /\ draft'.filter = None
      BY <3>1 DEF OneHandler, DraftShown, NoDraft
    <3>3. steps' \in Nat /\ steps <= steps'
      BY <1>1, <3>1
    <3>4. QED
      BY <1>1, <3>1, <3>2, <3>3, DraftSteps
  <2>2. CASE ~(draft.filter = None \/ draft.content = None)
    <3> DEFINE h == [kind |-> "confirm", filter |-> draft.filter, content |-> draft.content,
                     id |-> nextId, recipients |-> Recipients(draft.filter),
                     draft |-> draft.number]
    <3>1. handlers = {} /\ steps' = steps + 1 /\ UNCHANGED <<draft, shown>>
      BY <1>8, <2>2, StepsAlone DEF BeginConfirm, Runs
    <3>2. handlers' = {h}
      BY <1>8, <2>2, <3>1 DEF BeginConfirm, Runs
    <3>3. /\ h.kind = "confirm" /\ h.filter = draft.filter /\ h.content = draft.content
          /\ h.draft = draft.number
      OBVIOUS
    <3> HIDE DEF h
    <3>4. OneHandler' /\ DraftShown'
      BY <1>1, <2>2, <3>1, <3>2, <3>3 DEF OneHandler, Current, DraftShown
    <3>5. steps' \in Nat /\ steps <= steps'
      BY <1>1, <3>1
    <3>6. QED
      BY <1>1, <3>1, <3>4, <3>5, DraftSteps
  <2>3. QED
    BY <2>1, <2>2
<1>9. QED
  BY <1>2, <1>3, <1>4, <1>5, <1>6, <1>7, <1>8 DEF EditDraft

LEMMA ConfirmSerial ==
  ASSUME IInv, SerialOK, Confirm
  PROVE  SerialOK'
<1>1. PICK h \in handlers : CommitConfirm(h)
  BY DEF Confirm
<1> DEFINE k == h.id
           new == [NoCampaign EXCEPT !.status = "queued", !.filter = h.filter,
                     !.content = h.content, !.draft = h.draft]
<1>2. h \in Handler /\ h.kind = "confirm" /\ k \in Campaigns /\ campaigns[k].status = "none"
  BY <1>1, HandlerShape DEF CommitConfirm, IInv, TypeOK, HandlersOK
<1>3. /\ campaigns' = [campaigns EXCEPT ![k] = new]
      /\ handlers' = handlers \ {h} /\ draft' = NoDraft
      /\ UNCHANGED <<shown, steps>>
  BY <1>1 DEF CommitConfirm
<1>4. /\ new.status = "queued" /\ new.filter = draft.filter
      /\ new.content = draft.content /\ new.draft = draft.number
      /\ draft.content # None
  BY <1>2 DEF NoCampaign, SerialOK, OneHandler, Current
<1> HIDE DEF new
<1>5. campaigns'[k] = new /\ \A c \in Campaigns \ {k} : campaigns'[c] = campaigns[c]
  BY <1>2, <1>3 DEF IInv, TypeOK
<1>6. /\ <<draft.filter, draft.content>> \in shown
      /\ draft.number <= steps
      /\ \A c \in Queued : campaigns[c].draft # draft.number
  BY <1>4 DEF SerialOK, DraftShown, DraftIsNew
<1> HIDE DEF k
<1>7. \A c : c \in Queued' <=> c = k \/ (c \in Queued /\ c # k)
  BY <1>2, <1>4, <1>5 DEF Queued, With
<1>8. \A c \in Queued : c \in Campaigns
  BY DEF Queued
<1>9. OrdersOK'
  <2> SUFFICES ASSUME NEW c \in Queued'
               PROVE  /\ <<campaigns'[c].filter, campaigns'[c].content>> \in shown
                      /\ campaigns'[c].draft <= steps
                      /\ \A d \in Queued' \ {c} : campaigns'[c].draft # campaigns'[d].draft
    BY <1>3 DEF OrdersOK
  <2>1. CASE c = k
    BY <1>4, <1>5, <1>6, <1>7, <1>8, <2>1
  <2>2. CASE c # k
    BY <1>4, <1>5, <1>6, <1>7, <1>8, <2>2 DEF SerialOK, OrdersOK
  <2>3. QED
    BY <2>1, <2>2
<1>10. OneHandler' /\ DraftShown' /\ DraftIsNew'
  <2>1. handlers' = {}
    BY <1>3 DEF SerialOK, OneHandler
  <2>2. QED
    BY <1>3, <2>1 DEF OneHandler, DraftShown, DraftIsNew, NoDraft
<1>11. QED
  BY <1>9, <1>10 DEF SerialOK

\* A pass writes the status and the totals of campaigns that are rows already.
LEMMA PassKeepsOrders ==
  ASSUME IInv, Pass, NEW c \in Campaigns
  PROVE  /\ campaigns'[c].filter = campaigns[c].filter
         /\ campaigns'[c].content = campaigns[c].content
         /\ campaigns'[c].draft = campaigns[c].draft
         /\ campaigns'[c].status = "none" <=> campaigns[c].status = "none"
<1>1. campaigns[c] \in Campaign /\ campaigns \in [Campaigns -> Campaign]
  BY DEF IInv, TypeOK
<1>2. worker.at \in {"list", "send", "count"} =>
        worker.campaign \in Campaigns /\ campaigns[worker.campaign].status = "sending"
  BY DEF IInv, WorkerOK
<1>3. CASE PickCampaign
  <2>1. /\ NextCampaign \in Campaigns
        /\ campaigns[NextCampaign].status # "none"
    BY <1>3, NextCampaignOK DEF PickCampaign, With
  <2>2. PICK n \in Campaigns : n = NextCampaign
    BY <2>1
  <2>3. campaigns' = [campaigns EXCEPT ![n].status = "sending"]
    BY <1>3, <2>2 DEF PickCampaign
  <2>4. QED
    BY <1>1, <2>1, <2>2, <2>3 DEF Campaign
<1>4. CASE ListBatch \/ CountPending
  BY <1>1, <1>2, <1>4 DEF ListBatch, CountPending, Completed, Campaign
<1>5. CASE Send \/ Report
  BY <1>5 DEF Send, Report, tableVars
<1>6. CASE CommitBatch
  BY <1>1, <1>2, <1>6 DEF CommitBatch, Campaign
<1>7. QED
  BY <1>3, <1>4, <1>5, <1>6 DEF Pass

LEMMA QStep == IInv /\ QInv /\ [Next]_vars => QInv'
<1> SUFFICES ASSUME IInv, QInv, [Next]_vars PROVE QInv'
  OBVIOUS
<1>1. SUFFICES ASSUME ~overlapped' PROVE SerialOK'
  BY DEF QInv
<1>2. ~overlapped
  BY <1>1 DEF Next, UserChanges, EditDraft, Leave, SelectFilter, ContentEntry, BeginPreview,
     EndPreview, PromptTitle, BeginTitle, EndTitle, BeginConfirm, Touches, Runs, Step, Confirm,
     CommitConfirm, Pass, FailPass, Crash, vars, wizardVars
<1>3. SerialOK
  BY <1>2 DEF QInv
<1>4. CASE UserChanges \/ FailPass \/ UNCHANGED vars
  <2>1. UNCHANGED wizardVars /\ UNCHANGED campaigns
    BY <1>4 DEF UserChanges, FailPass, vars, tableVars
  <2>2. QED
    BY <1>3, <2>1, WizardAside
<1>5. CASE EditDraft
  BY <1>1, <1>2, <1>3, <1>5, EditDraftSerial
<1>6. CASE Confirm
  BY <1>3, <1>6, ConfirmSerial
<1>7. CASE Pass
  BY <1>3, <1>7, PassKeepsOrders, WizardAside DEF Pass
<1>8. CASE Crash
  <2>1. /\ handlers' = {} /\ draft' = NoDraft
        /\ UNCHANGED <<shown, steps, campaigns>>
    BY <1>8 DEF Crash, tableVars
  <2>2. OneHandler' /\ DraftShown' /\ draft'.filter = None
    BY <2>1 DEF OneHandler, DraftShown, NoDraft
  <2>3. steps' \in Nat /\ steps <= steps'
    BY <2>1 DEF IInv, Counted
  <2>4. QED
    BY <1>3, <2>1, <2>2, <2>3, DraftSteps
<1>9. QED
  BY <1>4, <1>5, <1>6, <1>7, <1>8 DEF Next

\* As long as the admin's handlers run one at a time, confirm_broadcast_creation queues
\* only a text that was previewed with that audience, and a draft once.
THEOREM QueuedAsPreviewed == Spec => []SerialQueuedAsPreviewed
<1>1. Init => QInv
  BY DEF Init, QInv, SerialOK, OneHandler, DraftShown, DraftIsNew, OrdersOK, Queued, With,
     NoDraft, NoCampaign
<1>2. IInv /\ QInv /\ [Next]_vars => (IInv /\ QInv)'
  BY StepOK, QStep
<1>3. QInv => SerialQueuedAsPreviewed
  <2> SUFFICES ASSUME QInv, ~overlapped PROVE SerialQueuedAsPreviewed
    BY DEF SerialQueuedAsPreviewed
  <2>1. OrdersOK
    BY DEF QInv, SerialOK
  <2>2. \A c \in Campaigns : Campaigns \ (With("none") \cup {c}) = Queued \ {c}
    BY DEF Queued
  <2>3. QED
    BY <2>1, <2>2 DEF OrdersOK, Queued, SerialQueuedAsPreviewed
<1>4. QED
  BY <1>1, <1>2, <1>3, InitOK, PTL DEF Spec

-----------------------------------------------------------------------------
(* Broadcast implements Mailing.                                           *)
(*                                                                         *)
(* Table and Reached are the mapping of instance M written out.  A confirm *)
(* queues a mailing, the first pass on it starts it, an attempt that       *)
(* arrives reaches a recipient, the commit of a batch settles those that   *)
(* are marked, and a completed campaign closes; every other step leaves    *)
(* Table and Reached alone.  The invariant above supplies what the steps   *)
(* do not check themselves: the campaign in a pass is the only one under   *)
(* way, and those marked as sent have been reached.                        *)

Table == [c \in Campaigns \ With("none") |->
            [phase |-> Phase(campaigns[c].status),
             owed |-> Pending(c),
             reached |-> Rows(c, {"sent"})]]
Reached == {p \in Campaigns \X Users : copies[p[1]][p[2]] > 0}

\* Phases as statuses.
LEMMA Phases ==
  ASSUME TypeOK
  PROVE  /\ DOMAIN Table = {c \in Campaigns : campaigns[c].status # "none"}
         /\ \A c \in DOMAIN Table :
              /\ Table[c].owed = Pending(c)
              /\ Table[c].reached = Rows(c, {"sent"})
              /\ Table[c].phase = "waiting" <=> campaigns[c].status = "queued"
              /\ Table[c].phase = "under_way" <=> campaigns[c].status = "sending"
              /\ Table[c].phase = "closed" <=> campaigns[c].status = "completed"
  BY DEF TypeOK, Campaign, Table, With, Phase

\* A mailing of which the phase is replaced.
LEMMA PhaseExcept ==
  ASSUME NEW p, NEW o, NEW r, NEW q, NEW f, f = [phase |-> p, owed |-> o, reached |-> r]
  PROVE  [f EXCEPT !.phase = q] = [phase |-> q, owed |-> o, reached |-> r]
<1> DEFINE T == [phase : {p, q}, owed : {o}, reached : {r}]
<1>1. f \in T
  OBVIOUS
<1>2. [f EXCEPT !.phase = q] \in T
  BY <1>1
<1>3. QED
  BY <1>1, <1>2

LEMMA InitMaps == Init => M!MailingInit
<1> SUFFICES ASSUME Init PROVE M!MailingInit
  OBVIOUS
<1>1. Table = [i \in {} |-> {}]
  BY DEF Init, Table, With, NoCampaign
<1>2. Reached = {}
  BY DEF Init, Reached
<1>3. QED
  BY <1>1, <1>2 DEF M!MailingInit, Table, Reached

\* A step that writes no delivery and no status leaves the mailings alone.
LEMMA TableKept ==
  ASSUME UNCHANGED deliveries, \A c \in Campaigns : campaigns'[c].status = campaigns[c].status
  PROVE  Table' = Table
<1>1. With("none")' = With("none")
  BY DEF With
<1>2. \A c \in Campaigns : /\ Pending(c)' = Pending(c)
                           /\ Rows(c, {"sent"})' = Rows(c, {"sent"})
                           /\ Phase(campaigns'[c].status) = Phase(campaigns[c].status)
  BY DEF Pending, Rows
<1>3. QED
  BY <1>1, <1>2, Zenon DEF Table

\* A step that writes one campaign and its deliveries writes one mailing.
LEMMA OneMailing ==
  ASSUME TypeOK, NEW i \in Campaigns, campaigns[i].status # "none",
         campaigns'[i].status # "none",
         \A c \in Campaigns \ {i} : /\ campaigns'[c].status = campaigns[c].status
                                    /\ deliveries'[c] = deliveries[c]
  PROVE  /\ i \in DOMAIN Table
         /\ Table' = [Table EXCEPT ![i] = [phase |-> Phase(campaigns'[i].status),
                                           owed |-> Pending(i)',
                                           reached |-> Rows(i, {"sent"})']]
<1> DEFINE Ids == Campaigns \ With("none")
           new == [phase |-> Phase(campaigns'[i].status), owed |-> Pending(i)',
                   reached |-> Rows(i, {"sent"})']
           F(c) == [phase |-> Phase(campaigns[c].status), owed |-> Pending(c),
                    reached |-> Rows(c, {"sent"})]
           G(c) == [phase |-> Phase(campaigns'[c].status), owed |-> Pending(c)',
                    reached |-> Rows(c, {"sent"})']
<1>1. i \in Ids /\ Campaigns \ With("none")' = Ids
  BY DEF With
<1>2. \A c \in Campaigns \ {i} : /\ Pending(c)' = Pending(c)
                                 /\ Rows(c, {"sent"})' = Rows(c, {"sent"})
                                 /\ campaigns'[c].status = campaigns[c].status
  BY DEF Pending, Rows
<1>3. Table = [c \in Ids |-> F(c)] /\ Table' = [c \in Ids |-> G(c)]
  BY <1>1, Zenon DEF Table
<1>4. G(i) = new
  OBVIOUS
<1>5. \A c \in Ids : c # i => F(c) = G(c)
  BY <1>2, Zenon
<1> HIDE DEF Ids, new, F, G
<1>6. Table' = [Table EXCEPT ![i] = new]
  BY <1>1, <1>3, <1>4, <1>5
<1>7. QED
  BY <1>1, <1>3, <1>6 DEF new

LEMMA ReachedKept ==
  ASSUME UNCHANGED copies
  PROVE  Reached' = Reached
  BY DEF Reached

LEMMA ConfirmMaps ==
  ASSUME IInv, Confirm
  PROVE  \E i \in Campaigns \ DOMAIN Table, S \in SUBSET Users : M!Queue(i, S)
<1>1. PICK h \in handlers : CommitConfirm(h)
  BY DEF Confirm
<1> DEFINE i == h.id
           S == h.recipients
           new == [NoCampaign EXCEPT !.status = "queued", !.filter = h.filter,
                     !.content = h.content, !.draft = h.draft]
           rows == [u \in Users |-> IF u \in S THEN "pending" ELSE "none"]
           Ids == Campaigns \ With("none")
<1>2. /\ i \in Campaigns /\ S \in SUBSET Users /\ S # {} /\ campaigns[i].status = "none"
  BY <1>1, HandlerShape DEF CommitConfirm, IInv, TypeOK, HandlersOK
<1>3. /\ campaigns' = [campaigns EXCEPT ![i] = new]
      /\ deliveries' = [deliveries EXCEPT ![i] = rows]
      /\ copies' = copies
  BY <1>1 DEF CommitConfirm, Confirm, workerVars
<1>4. new.status = "queued"
  BY DEF NoCampaign
<1> HIDE DEF i, S, new, rows
<1>5. /\ campaigns'[i].status = "queued" /\ deliveries'[i] = rows
      /\ \A c \in Campaigns \ {i} : campaigns'[c] = campaigns[c] /\ deliveries'[c] = deliveries[c]
  BY <1>2, <1>3, <1>4 DEF IInv, TypeOK
<1>6. i \notin Ids /\ Campaigns \ With("none")' = Ids \cup {i}
  BY <1>2, <1>5 DEF With
<1>7. Pending(i)' = S /\ Rows(i, {"sent"})' = {}
  BY <1>2, <1>5 DEF Pending, Rows, rows
<1>8. \A c \in Campaigns \ {i} : /\ Pending(c)' = Pending(c)
                                 /\ Rows(c, {"sent"})' = Rows(c, {"sent"})
                                 /\ campaigns'[c].status = campaigns[c].status
  BY <1>5 DEF Pending, Rows
<1> DEFINE F(c) == [phase |-> Phase(campaigns[c].status), owed |-> Pending(c),
                    reached |-> Rows(c, {"sent"})]
           G(c) == [phase |-> Phase(campaigns'[c].status), owed |-> Pending(c)',
                    reached |-> Rows(c, {"sent"})']
           first == [phase |-> "waiting", owed |-> S, reached |-> {}]
<1>9. Table = [c \in Ids |-> F(c)] /\ Table' = [c \in Ids \cup {i} |-> G(c)]
  BY <1>6, Zenon DEF Table
<1>10. \A c \in Ids : c # i => F(c) = G(c)
  BY <1>8, Zenon
<1>11. Phase("queued") = "waiting"
  BY Zenon DEF Phase
<1>12. G(i) = first
  BY <1>5, <1>7, <1>11, Zenon
<1> HIDE DEF Ids, F, G, first
<1>13. Table' = [c \in Ids \cup {i} |-> IF c = i THEN first ELSE Table[c]]
  BY <1>6, <1>9, <1>10, <1>12
<1>14. DOMAIN Table = Ids
  BY <1>9
<1>15. Reached' = Reached
  BY <1>3, ReachedKept
<1>16. M!Queue(i, S)
  BY <1>2, <1>6, <1>13, <1>14, <1>15, Zenon DEF M!Queue, M!Ids, Table, Reached, first
<1>17. QED
  BY <1>2, <1>6, <1>14, <1>16 DEF Ids

LEMMA PickCampaignMaps ==
  ASSUME IInv, PickCampaign
  PROVE  UNCHANGED <<Table, Reached>> \/ \E i \in DOMAIN Table : M!Start(i)
<1>1. PICK i \in Campaigns :
        /\ i = NextCampaign
        /\ \/ i \in With("sending")
           \/ With("sending") = {} /\ i \in With("queued") /\ \A c \in With("queued") : i <= c
  BY NextCampaignOK DEF PickCampaign
<1>2. campaigns' = [campaigns EXCEPT ![i].status = "sending"] /\ UNCHANGED <<deliveries, copies>>
  BY <1>1 DEF PickCampaign
<1>3. campaigns'[i].status = "sending" /\ \A c \in Campaigns \ {i} : campaigns'[c] = campaigns[c]
  BY <1>1, <1>2 DEF IInv, TypeOK, Campaign
<1>4. Reached' = Reached
  BY <1>2, ReachedKept
<1>5. CASE i \in With("sending")
  <2>1. Table' = Table
    BY <1>2, <1>3, <1>5, TableKept DEF With
  <2>2. QED
    BY <1>4, <2>1
<1>6. CASE /\ With("sending") = {}
           /\ i \in With("queued")
           /\ \A c \in With("queued") : i <= c
  <2>1. TypeOK /\ campaigns[i].status = "queued"
    BY <1>6 DEF IInv, With
  <2>2. /\ i \in DOMAIN Table
        /\ Table' = [Table EXCEPT ![i] = [phase |-> Phase("sending"), owed |-> Pending(i)',
                                          reached |-> Rows(i, {"sent"})']]
    BY <1>1, <1>2, <1>3, <2>1, OneMailing
  <2>3. /\ Pending(i)' = Pending(i) /\ Rows(i, {"sent"})' = Rows(i, {"sent"})
        /\ Phase("sending") = "under_way"
    BY <1>2, Zenon DEF Pending, Rows, Phase
  <2>4. Table[i] = [phase |-> Phase("queued"), owed |-> Pending(i), reached |-> Rows(i, {"sent"})]
    BY <2>1, <2>2 DEF Table
  <2>5. Table' = [Table EXCEPT ![i].phase = "under_way"]
    <3>1. [Table[i] EXCEPT !.phase = "under_way"]
            = [phase |-> "under_way", owed |-> Pending(i), reached |-> Rows(i, {"sent"})]
      BY <2>4, PhaseExcept
    <3>2. QED
      BY <2>2, <2>3, <3>1, Zenon
  <2>6. /\ \A c \in DOMAIN Table : Table[c].phase # "under_way"
        /\ Table[i].phase = "waiting"
        /\ \A c \in DOMAIN Table : Table[c].phase = "waiting" => i <= c
    BY <1>6, <2>1, <2>2, Phases DEF With
  <2>7. M!Start(i)
    BY <1>4, <2>2, <2>5, <2>6, Zenon
    DEF M!Start, M!UnderWay, M!Waiting, M!Ids, Table, Reached
  <2>8. QED
    BY <2>2, <2>7
<1>7. QED
  BY <1>1, <1>5, <1>6

\* The campaign in a pass is a mailing that is under way.
LEMMA InPass ==
  ASSUME IInv, worker.at \in {"list", "send", "count"}
  PROVE  /\ worker.campaign \in Campaigns
         /\ campaigns[worker.campaign].status = "sending"
         /\ worker.campaign \in DOMAIN Table
         /\ Table[worker.campaign] = [phase |-> "under_way", owed |-> Pending(worker.campaign),
                                      reached |-> Rows(worker.campaign, {"sent"})]
<1>1. /\ worker.campaign \in Campaigns
      /\ campaigns[worker.campaign].status = "sending"
  BY DEF IInv, WorkerOK
<1>2. worker.campaign \in Campaigns \ With("none")
  BY <1>1 DEF With
<1>3. Phase("sending") = "under_way"
  BY Zenon DEF Phase
<1>4. QED
  BY <1>1, <1>2, <1>3 DEF Table

LEMMA CompleteMaps ==
  ASSUME IInv, UNCHANGED <<deliveries, copies>>, worker.at \in {"list", "count"},
         Pending(worker.campaign) = {}, Completed(worker.campaign)
  PROVE  worker.campaign \in DOMAIN Table /\ M!Close(worker.campaign)
<1>1. PICK i \in Campaigns :
        /\ i = worker.campaign /\ campaigns[i].status = "sending" /\ i \in DOMAIN Table
        /\ Table[i] = [phase |-> "under_way", owed |-> Pending(i), reached |-> Rows(i, {"sent"})]
        /\ Pending(i) = {}
  BY InPass
<1>2. campaigns' = [campaigns EXCEPT ![i].status = "completed"]
  BY <1>1 DEF Completed
<1>3. campaigns'[i].status = "completed" /\ \A c \in Campaigns \ {i} : campaigns'[c] = campaigns[c]
  BY <1>1, <1>2 DEF IInv, TypeOK, Campaign
<1>4. Table' = [Table EXCEPT ![i] = [phase |-> Phase("completed"), owed |-> Pending(i)',
                                     reached |-> Rows(i, {"sent"})']]
  BY <1>1, <1>3, OneMailing DEF IInv
<1>5. /\ Pending(i)' = Pending(i) /\ Rows(i, {"sent"})' = Rows(i, {"sent"})
      /\ Phase("completed") = "closed"
  BY Zenon DEF Pending, Rows, Phase
<1>6. Table' = [Table EXCEPT ![i].phase = "closed"]
  <2>1. [Table[i] EXCEPT !.phase = "closed"]
          = [phase |-> "closed", owed |-> Pending(i), reached |-> Rows(i, {"sent"})]
    BY <1>1, PhaseExcept
  <2>2. QED
    BY <1>4, <1>5, <2>1, Zenon
<1>7. Reached' = Reached
  BY ReachedKept
<1>8. Table[i].phase = "under_way" /\ Table[i].owed = {}
  BY <1>1
<1>9. M!Close(i)
  BY <1>1, <1>6, <1>7, <1>8, Zenon DEF M!Close, M!UnderWay, M!Ids, Table, Reached
<1>10. QED
  BY <1>1, <1>9

LEMMA SendMaps ==
  ASSUME IInv, Send
  PROVE  \/ UNCHANGED <<Table, Reached>>
         \/ \E i \in DOMAIN Table : \E u \in Table[i].owed : Table[i].phase = "under_way" /\ M!Reach(i, u)
<1>1. PICK u \in worker.todo : u = First(worker.todo)
  <2>1. worker.todo \subseteq Nat
    BY BroadcastAssumption DEF IInv, TypeOK, Worker
  <2>2. QED
    BY <2>1, FirstIsLeast DEF Send
<1>2. PICK i \in Campaigns :
      /\ i = worker.campaign /\ i \in DOMAIN Table /\ u \in Users /\ u \in Pending(i)
      /\ Table[i] = [phase |-> "under_way", owed |-> Pending(i), reached |-> Rows(i, {"sent"})]
      /\ copies \in [Campaigns -> [Users -> Nat]]
  BY <1>1, InPass DEF Send, IInv, TypeOK, WorkerOK, BatchOK, Pending, Rows
<1>3. UNCHANGED <<campaigns, deliveries>> /\ (Arrives(u) \/ copies' = copies)
  BY <1>1 DEF Send, tableVars, Accept, Forbid, Flood, Err, LoseAnswer
<1>4. Arrives(u) => copies' = [copies EXCEPT ![i] = [copies[i] EXCEPT ![u] = copies[i][u] + 1]]
  BY <1>2 DEF Arrives
<1>5. Table' = Table
  BY <1>3, TableKept
<1>6. CASE copies' = copies
  BY <1>5, <1>6, ReachedKept
<1>7. CASE Arrives(u)
  <2>1. copies[i] \in [Users -> Nat] /\ copies[i][u] \in Nat
    BY <1>2
  <2>2. copies'[i] = [copies[i] EXCEPT ![u] = copies[i][u] + 1]
    BY <1>2, <1>4, <1>7
  <2>3. /\ copies'[i][u] > 0
        /\ \A c \in Campaigns, v \in Users :
             c # i \/ v # u => copies'[c][v] = copies[c][v]
    BY <1>2, <1>4, <1>7, <2>1, <2>2
  <2>4. Reached' = Reached \cup {<<i, u>>}
    BY <1>2, <2>3 DEF Reached
  <2>5. Table[i].phase = "under_way" /\ u \in Table[i].owed
    BY <1>2
  <2>6. M!Reach(i, u)
    BY <1>2, <1>5, <2>4, <2>5, Zenon DEF M!Reach, M!UnderWay, M!Ids, Table, Reached
  <2>7. QED
    BY <1>2, <2>5, <2>6
<1>8. QED
  BY <1>3, <1>6, <1>7

LEMMA CommitBatchMaps ==
  ASSUME IInv, CommitBatch
  PROVE  \/ UNCHANGED <<Table, Reached>>
         \/ \E i \in DOMAIN Table, S \in SUBSET Users : \E good \in SUBSET S :
              Table[i].phase = "under_way" /\ S \subseteq Table[i].owed /\ M!Settle(i, S, good)
<1>1. PICK i \in Campaigns :
      /\ i = worker.campaign /\ campaigns[i].status = "sending" /\ i \in DOMAIN Table
      /\ Table[i] = [phase |-> "under_way", owed |-> Pending(i), reached |-> Rows(i, {"sent"})]
  BY InPass DEF CommitBatch
<1> DEFINE S == {u \in Users : worker.marks[u] # "none"}
           good == MarkedAs({"sent"})
<1>2. /\ deliveries' \in [Campaigns -> [Users -> Delivery]]
      /\ \A c \in Campaigns \ {i} : deliveries'[c] = deliveries[c]
      /\ \A u \in Users :
           IF worker.marks[u] = "none" THEN deliveries'[i][u] = deliveries[i][u]
           ELSE /\ deliveries[i][u] = "pending"
                /\ deliveries'[i][u] = worker.marks[u]
                /\ worker.marks[u] \in Outcomes
  BY <1>1, CommitBatchRows
<1>3. /\ \A c \in Campaigns : campaigns'[c].status = campaigns[c].status
      /\ copies' = copies
  BY DEF CommitBatch, IInv, TypeOK, Campaign
<1>4. \A u \in good : u \in S /\ copies[i][u] > 0
  BY <1>1 DEF MarkedAs, CommitBatch, IInv, WorkerOK, BatchOK
<1>5. \A u \in S : u \in Pending(i)
  BY <1>2 DEF Pending, Rows
<1>6. Pending(i)' = Pending(i) \ S /\ Rows(i, {"sent"})' = Rows(i, {"sent"}) \cup good
  BY <1>1, <1>2 DEF Pending, Rows, MarkedAs, Outcomes
<1> HIDE DEF S, good
<1>7. Table' = [Table EXCEPT ![i] = [phase |-> Phase("sending"), owed |-> Pending(i)',
                                     reached |-> Rows(i, {"sent"})']]
  BY <1>1, <1>2, <1>3, OneMailing DEF IInv
<1>8. Phase("sending") = "under_way"
  BY Zenon DEF Phase
<1>9. Table' = [Table EXCEPT ![i].owed = Table[i].owed \ S,
                             ![i].reached = Table[i].reached \cup good]
  <2>1. [Table[i] EXCEPT !.owed = Table[i].owed \ S, !.reached = Table[i].reached \cup good]
          = [phase |-> "under_way", owed |-> Pending(i) \ S,
             reached |-> Rows(i, {"sent"}) \cup good]
    <3>1. Table[i].owed = Pending(i) /\ Table[i].reached = Rows(i, {"sent"})
      BY <1>1
    <3>2. [Table[i] EXCEPT !.owed = Pending(i) \ S, !.reached = Rows(i, {"sent"}) \cup good]
            = [phase |-> "under_way", owed |-> Pending(i) \ S,
               reached |-> Rows(i, {"sent"}) \cup good]
      <4> DEFINE f == Table[i]
                 n == Pending(i) \ S
                 m == Rows(i, {"sent"}) \cup good
                 o == Pending(i)
                 r == Rows(i, {"sent"})
      <4>1. f = [phase |-> "under_way", owed |-> o, reached |-> r]
        BY <1>1
      <4> HIDE DEF f, n, m, o, r
      <4>2. [f EXCEPT !.owed = n, !.reached = m]
              = [phase |-> "under_way", owed |-> n, reached |-> m]
        <5> DEFINE p == "under_way"
                   T == [phase : {p}, owed : {o, n}, reached : {r, m}]
                   g == [f EXCEPT !.owed = n]
        <5>1. g \in T /\ g.phase = p /\ g.owed = n
          BY <4>1
        <5>2. [f EXCEPT !.owed = n, !.reached = m] = [g EXCEPT !.reached = m]
          BY Zenon
        <5> HIDE DEF g
        <5>3. [g EXCEPT !.reached = m] \in T
          BY <5>1
        <5>4. [g EXCEPT !.reached = m] = [phase |-> p, owed |-> n, reached |-> m]
          BY <5>1, <5>3
        <5>5. QED
          BY <5>2, <5>4
      <4>3. QED
        BY <4>2 DEF f, n, m
    <3>3. QED
      BY <3>1, <3>2, Zenon
  <2>2. QED
    BY <1>6, <1>7, <1>8, <2>1
<1>10. Reached' = Reached
  BY <1>3, ReachedKept
<1>11. CASE S = {}
  <2>1. \A c \in Campaigns : deliveries'[c] = deliveries[c]
    <3>1. \A u \in Users : deliveries'[i][u] = deliveries[i][u]
      BY <1>2, <1>11 DEF S
    <3>2. QED
      BY <1>1, <1>2, <3>1 DEF IInv, TypeOK
  <2>2. deliveries' = deliveries
    BY <1>2, <2>1 DEF IInv, TypeOK
  <2>3. QED
    BY <1>3, <1>10, <2>2, TableKept
<1>12. CASE S # {}
  <2>1. /\ S \subseteq Table[i].owed /\ good \subseteq S /\ Table[i].phase = "under_way"
        /\ S \in SUBSET Users
    BY <1>1, <1>4, <1>5 DEF S
  <2>2. {i} \X good \subseteq Reached
    BY <1>1, <1>4, <2>1 DEF Reached
  <2>3. M!Settle(i, S, good)
    BY <1>1, <1>9, <1>10, <1>12, <2>1, <2>2, Zenon
    DEF M!Settle, M!UnderWay, M!Ids, Table, Reached
  <2>4. QED
    BY <1>1, <2>1, <2>3
<1>13. QED
  BY <1>11, <1>12

LEMMA StepMaps ==
  ASSUME IInv, [Next]_vars
  PROVE  [M!MailingNext]_(M!mailingVars)
<1> SUFFICES UNCHANGED <<Table, Reached>> \/ M!MailingNext
  BY Zenon DEF M!mailingVars, Table, Reached
<1>1. CASE UNCHANGED <<campaigns, deliveries, copies>>
  BY <1>1, TableKept, ReachedKept
<1>2. ASSUME \E i \in Campaigns \ DOMAIN Table, S \in SUBSET Users : M!Queue(i, S)
      PROVE  M!MailingNext
  BY <1>2, Zenon DEF M!MailingNext, M!Ids, Table
<1>3. ASSUME NEW i \in DOMAIN Table, M!Start(i)
      PROVE  M!MailingNext
  <2>1. i \in M!Waiting
    BY <1>3, Zenon DEF M!Start
  <2>2. QED
    BY <1>3, <2>1, Zenon DEF M!MailingNext
<1>4. ASSUME NEW i \in DOMAIN Table, M!Close(i)
      PROVE  M!MailingNext
  <2>1. i \in M!UnderWay
    BY <1>4, Zenon DEF M!Close
  <2>2. QED
    BY <1>4, <2>1, Zenon DEF M!MailingNext
<1>5. ASSUME NEW i \in DOMAIN Table, NEW u \in Table[i].owed, M!Reach(i, u)
      PROVE  M!MailingNext
  <2>1. i \in M!UnderWay
    BY <1>5, Zenon DEF M!Reach
  <2>2. QED
    BY <1>5, <2>1, Zenon DEF M!MailingNext, Table
<1>6. ASSUME NEW i \in DOMAIN Table, NEW S \in SUBSET Table[i].owed, NEW good \in SUBSET S,
             M!Settle(i, S, good)
      PROVE  M!MailingNext
  <2>1. i \in M!UnderWay
    BY <1>6, Zenon DEF M!Settle
  <2>2. QED
    BY <1>6, <2>1, Zenon DEF M!MailingNext, Table
<1>7. CASE Confirm
  BY <1>2, <1>7, ConfirmMaps
<1>8. CASE Pass
  <2>1. CASE PickCampaign
    BY <1>3, <2>1, PickCampaignMaps
  <2>2. CASE ListBatch
    <3>1. CASE Pending(worker.campaign) = {}
      BY <1>4, <2>2, <3>1, CompleteMaps DEF ListBatch
    <3>2. CASE Pending(worker.campaign) # {}
      BY <1>1, <2>2, <3>2 DEF ListBatch
    <3>3. QED
      BY <3>1, <3>2
  <2>3. CASE Send
    BY <1>5, <2>3, SendMaps
  <2>4. CASE CommitBatch
    BY <1>6, <2>4, CommitBatchMaps
  <2>5. CASE CountPending
    <3>1. CASE Pending(worker.campaign) = {}
      BY <1>4, <2>5, <3>1, CompleteMaps DEF CountPending
    <3>2. CASE Pending(worker.campaign) # {}
      BY <1>1, <2>5, <3>2 DEF CountPending
    <3>3. QED
      BY <3>1, <3>2
  <2>6. CASE Report
    BY <1>1, <2>6 DEF Report
  <2>7. QED
    BY <1>8, <2>1, <2>2, <2>3, <2>4, <2>5, <2>6 DEF Pass
<1>9. CASE UserChanges \/ EditDraft \/ FailPass \/ Crash \/ UNCHANGED vars
  BY <1>1, <1>9 DEF UserChanges, EditDraft, FailPass, Crash, vars, tableVars, workerVars
<1>10. QED
  BY <1>7, <1>8, <1>9 DEF Next

\* The wizard, the tables and the worker, with batches committed at once, retries, lost
\* answers, failed passes and restarts, implement the mailings of module Mailing.
THEOREM ImplementsMailing == Spec => MailingSpec
<1>1. Init => M!MailingInit
  BY InitMaps
<1>2. IInv /\ [Next]_vars => [M!MailingNext]_(M!mailingVars)
  BY StepMaps
<1>3. QED
  BY <1>1, <1>2, BroadcastInvariant, PTL DEF Spec, MailingSpec, M!MailingSpec

=============================================================================
