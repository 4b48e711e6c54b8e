------------------------------ MODULE Invites ------------------------------
(***************************************************************************)
(* The invite links of subscriptions (issue_subscription_invite_link),     *)
(* composed with module Access: a user joins the channel with a link of    *)
(* the table invite_links, and a link has a life of its own.               *)
(*                                                                         *)
(* A request for a link (the button, a booked payment, free days) looks up *)
(* the subscription and a link that can be handed out again; only when     *)
(* there is none does it wait for Telegram to create one, insert it and    *)
(* commit.  Telegram refuses a link that has ended or that member_limit    *)
(* = 1 users have followed.  The bot never revokes a link.                 *)
(***************************************************************************)
EXTENDS Access

CONSTANTS
  Issuers,   \* handlers that can wait for a link at once
  TTL,       \* DEFAULT_INVITE_LINK_TTL_HOURS, at least one tick
  MaxLinks   \* bound on the links asked for

ASSUME InvitesAssumption == TTL \in Nat \ {0} /\ MaxLinks \in Nat

VARIABLES
  links,     \* table invite_links and what Telegram knows of each link
  requests,  \* handlers that wait for bot.create_chat_invite_link
  entered    \* history: when each user last joined the channel

linkVars == <<links, requests, entered>>
allVars == <<vars, linkVars>>

\* by is the handler that created the link, used whether somebody joined with it.
Link == [sub : Nat, until : Nat, by : Issuers, used : BOOLEAN]
Request == [by : Issuers, sub : Nat, at : Nat]

IsValid(l) == l.until > now

LinkInit ==
  /\ Init
  /\ links = {}
  /\ requests = {}
  /\ entered = [u \in Users |-> NoTime]

-----------------------------------------------------------------------------
(* issue_subscription_invite_link *)

\* Mutant of RequestLink: the table is not looked at.
RequestLinkAnyway(h, i) ==
  /\ IsCurrent(subs[i])
  /\ \A r \in requests : r.by # h
  /\ Cardinality(links) + Cardinality(requests) < MaxLinks
  /\ requests' = requests \cup {[by |-> h, sub |-> i, at |-> now]}
  /\ UNCHANGED <<vars, links, entered>>

\* Without a valid link of the subscription, used or not, a new one is asked for.
\* A valid one is handed out again, which changes nothing.
RequestLink(h, i) ==
  /\ IsCurrent(subs[i])
  /\ \A r \in requests : r.by # h
  /\ \A l \in links : l.sub = i => ~IsValid(l)
  /\ Cardinality(links) + Cardinality(requests) < MaxLinks
  /\ requests' = requests \cup {[by |-> h, sub |-> i, at |-> now]}
  /\ UNCHANGED <<vars, links, entered>>

\* Telegram has created the link: it is inserted and committed, and the user has it.
GrantLink(r) ==
  /\ requests' = requests \ {r}
  /\ links' = links \cup
       {[sub |-> r.sub, until |-> r.at + TTL, by |-> r.by, used |-> FALSE]}
  /\ UNCHANGED <<vars, entered>>

\* Telegram or the commit fails: session.rollback(), and nobody sees the link.
RefuseLink(r) ==
  /\ requests' = requests \ {r}
  /\ UNCHANGED <<vars, links, entered>>

\* The user follows a link, and Telegram counts that.
JoinWith(l) ==
  LET u == subs[l.sub].user IN
  /\ ~l.used
  /\ IsValid(l)
  /\ Join(u)
  /\ links' = (links \ {l}) \cup {[l EXCEPT !.used = TRUE]}
  /\ entered' = [entered EXCEPT ![u] = now]
  /\ UNCHANGED requests

-----------------------------------------------------------------------------
\* What goes on besides: payments and the expirer, who know nothing of links.
Elsewhere ==
  /\ \/ Tick
     \/ \E c \in Charges : Pay(c)
     \/ \E h \in Handlers, c \in Charges : BeginPayment(h, c)
     \/ \E s \in sessions : CommitPayment(s) \/ RollbackPayment(s)
     \/ FailCycle
  /\ UNCHANGED linkVars

Expirer == Worker /\ UNCHANGED linkVars

Restart ==
  /\ Crash
  /\ requests' = {}
  /\ UNCHANGED <<links, entered>>

LinkNext ==
  \/ \E h \in Issuers, i \in Ids : RequestLink(h, i)
  \/ \E r \in requests : GrantLink(r) \/ RefuseLink(r)
  \/ \E l \in links : JoinWith(l)
  \/ Elsewhere
  \/ Expirer
  \/ Restart

\* run_background_workers repeats the pass for as long as the process lives; it
\* neither knows of links nor waits for them.
LinkFairness == WF_allVars(Tick /\ UNCHANGED linkVars) /\ WF_allVars(Expirer)

LinkSpec == LinkInit /\ [][LinkNext]_allVars
FairLinkSpec == LinkSpec /\ LinkFairness
-----------------------------------------------------------------------------
(* Properties *)

\* Every variable has its type, and links are of subscriptions that exist.
LinksTypeOK ==
  /\ links \subseteq Link
  /\ requests \subseteq Request
  /\ \A l \in links : l.sub \in Ids
  /\ \A r \in requests : r.sub \in Ids
  /\ entered \in [Users -> Moment]

\* Two links of a subscription that are valid at once come from handlers
\* that were waiting for Telegram at once: a link is not created while
\* another can be handed out, whatever ends, fails or restarts in between.
OneLinkPerHandler ==
  \A l, k \in links :
    l.sub = k.sub /\ IsValid(l) /\ IsValid(k) /\ l.by = k.by => l = k

\* While sessions do not overlap, a member has a subscription that is not revoked,
\* or came in late, with a link that outlives the grace period of its
\* subscription: no sooner than that period was over, and less than a link's life
\* after the end.  Whoever a pass was told does not exist is no longer counted.
\* With links that end no later than a grace period nobody can come in late.
CameInLate(u) ==
  \E i \in RowsOf(u) : /\ subs[i].expires + Grace <= entered[u]
                       /\ entered[u] < subs[i].expires + TTL
SerialMembersServed ==
  ~overlap => \A u \in Users : member[u] = "member" =>
                (\E i \in RowsOf(u) : IsLive(subs[i])) \/ CameInLate(u)

\* "At the end of the subscription the bot removes the user from the channel":
\* a member has a subscription that is not revoked, whatever links and grace
\* periods last.
MembersServed ==
  \A u \in Users : member[u] = "member" => \E i \in RowsOf(u) : IsLive(subs[i])
=============================================================================
