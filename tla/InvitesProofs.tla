--------------------------- MODULE InvitesProofs ---------------------------
(***************************************************************************)
(* Proofs about Invites: it implements Access, so that every theorem about *)
(* Access holds of it; links need handlers that wait at once; and, while   *)
(* sessions do not overlap, a member has a subscription or came in with a  *)
(* link that outlived one.                                                 *)
(***************************************************************************)
EXTENDS Invites, AccessProofs

\* A handler waits for one link at a time, and has no other for the subscription.
RequestsOK ==
  /\ \A r, q \in requests : r.by = q.by => r = q
  /\ \A r \in requests : /\ r.at <= now
                         /\ \A l \in links : l.sub = r.sub /\ l.by = r.by => ~IsValid(l)

LinkInv == LinksTypeOK /\ OneLinkPerHandler /\ RequestsOK

\* In serial histories a link was asked for before its subscription ended, and a
\* member has a subscription that the open pass has not revoked either, or came late.
LinksInTime ==
  /\ \A r \in requests : r.at < subs[r.sub].expires
  /\ \A l \in links : l.until < subs[l.sub].expires + TTL
Served ==
  \A u \in Users : member[u] = "member" =>
    \/ \E i \in RowsOf(u) : IsLive(subs[i]) /\ i \notin cycle.revoked
    \/ CameInLate(u)
MInv == overlap \/ (LinksInTime /\ Served)

-----------------------------------------------------------------------------
(* Invites implements Access *)

\* Every step of Invites is a step of Access, or leaves its variables alone.
LEMMA LinkStepMaps ==
  ASSUME IInv, LinksTypeOK, [LinkNext]_allVars
  PROVE  [Next]_vars
<1>1. ASSUME NEW h \in Issuers, NEW i \in Ids, RequestLink(h, i) PROVE UNCHANGED vars
  BY <1>1 DEF RequestLink
<1>2. ASSUME NEW r \in requests, GrantLink(r) \/ RefuseLink(r) PROVE UNCHANGED vars
  BY <1>2 DEF GrantLink, RefuseLink
<1>3. ASSUME NEW l \in links, JoinWith(l) PROVE Next
  <2>1. subs[l.sub].user \in Users
    BY RowNumbers DEF LinksTypeOK, IInv
  <2>2. QED
    BY <1>3, <2>1 DEF JoinWith, Next
<1>4. CASE Elsewhere
  BY <1>4 DEF Elsewhere, Next
<1>5. CASE Expirer
  BY <1>5 DEF Expirer, Next
<1>6. CASE Restart
  BY <1>6 DEF Restart, Next
<1>7. CASE UNCHANGED allVars
  BY <1>7 DEF allVars
<1>8. QED
  BY <1>1, <1>2, <1>3, <1>4, <1>5, <1>6, <1>7 DEF LinkNext

\* Rows are never deleted.
LEMMA RowsStay == ASSUME IInv, [Next]_vars PROVE Ids \subseteq Ids'
<1>1. CASE subs' = subs
  BY <1>1 DEF Ids
<1>2. ASSUME NEW s \in sessions, CommitPayment(s) PROVE Ids \subseteq Ids'
  <2>1. IInv' /\ Grows
    BY <1>2, CommitPaymentKeeps
  <2>2. QED
    BY <2>1 DEF IInv, TypeOK, Ids, Grows
<1>3. CASE CommitCycle
  BY <1>3, CommitKeepsRows DEF IInv
<1>4. subs' = subs \/ (\E s \in sessions : CommitPayment(s)) \/ CommitCycle
  BY DEF Next, Worker, Tick, Pay, BeginPayment, RollbackPayment, Join, StartCycle,
         SendWarnings1, SendNotices, ListRevocations, RemoveMember, FailRemoval,
         FailCycle, Crash, cycleOnly, vars
<1>5. QED
  BY <1>1, <1>2, <1>3, <1>4

\* The clock does not go back.
LEMMA ClockAdvances == ASSUME IInv, [Next]_vars PROVE now \in Nat /\ now' \in Nat /\ now' >= now
<1>1. now \in Nat
  BY DEF IInv, TypeOK
<1>2. now' = now \/ now' = now + 1
  BY DEF Next, Worker, vars, Tick, Pay, BeginPayment, CommitPayment, RollbackPayment,
     Join, StartCycle, SendWarnings1, SendNotices, ListRevocations, RemoveMember,
     FailRemoval, CommitCycle, FailCycle, Crash, cycleOnly
<1>3. QED
  BY <1>1, <1>2

-----------------------------------------------------------------------------
(* Links and the handlers that wait for them *)

\* At the start there is no link.
LEMMA LinkInitOK == LinkInit => LinkInv
  BY DEF LinkInit, LinkInv, LinksTypeOK, OneLinkPerHandler, RequestsOK, Moment

\* What stays in both tables stays sound as rows are added and the clock moves on.
LEMMA LinksStay ==
  ASSUME IInv, LinkInv, Ids \subseteq Ids', now' \in Nat, now' >= now,
         links' = links, requests' \subseteq requests, entered' = entered
  PROVE  LinkInv'
<1>1. now \in Nat
  BY DEF IInv, TypeOK
<1>2. \A l \in links : IsValid(l)' => IsValid(l)
  BY <1>1 DEF LinkInv, LinksTypeOK, Link, IsValid
<1>3. LinksTypeOK'
  BY DEF LinkInv, LinksTypeOK
<1>4. OneLinkPerHandler'
  BY <1>2 DEF LinkInv, OneLinkPerHandler
<1>5. \A r \in requests : r.at <= now'
  BY <1>1 DEF LinkInv, LinksTypeOK, RequestsOK, Request
<1>6. RequestsOK'
  BY <1>2, <1>5 DEF LinkInv, RequestsOK
<1>7. QED
  BY <1>3, <1>4, <1>6 DEF LinkInv

\* A new request: its subscription has no valid link.
LEMMA RequestKeepsLinks ==
  ASSUME IInv, LinkInv, NEW h \in Issuers, NEW i \in Ids, RequestLink(h, i)
  PROVE  LinkInv'
<1> DEFINE new == [by |-> h, sub |-> i, at |-> now]
<1>1. /\ links' = links /\ requests' = requests \cup {new} /\ entered' = entered
      /\ now' = now /\ now \in Nat /\ subs' = subs /\ Ids' = Ids /\ i \in Nat
  BY RowNumbers DEF RequestLink, vars, Ids, IInv
<1>2. new \in Request /\ new.by = h /\ new.sub = i /\ new.at = now
  BY <1>1 DEF Request
<1>3. /\ \A r \in requests : r.by # h
      /\ \A l \in links : l.sub = i => ~IsValid(l)
  BY DEF RequestLink
<1> HIDE DEF new
<1>4. LinksTypeOK'
  BY <1>1, <1>2 DEF LinkInv, LinksTypeOK
<1>5. OneLinkPerHandler'
  BY <1>1 DEF LinkInv, OneLinkPerHandler, IsValid
<1>6. RequestsOK'
  BY <1>1, <1>2, <1>3 DEF LinkInv, RequestsOK, IsValid
<1>7. QED
  BY <1>4, <1>5, <1>6 DEF LinkInv

\* A new link: its handler has no other valid one for the subscription.
LEMMA GrantKeepsLinks ==
  ASSUME IInv, LinkInv, NEW r \in requests, GrantLink(r)
  PROVE  LinkInv'
<1> DEFINE new == [sub |-> r.sub, until |-> r.at + TTL, by |-> r.by, used |-> FALSE]
<1>1. /\ links' = links \cup {new} /\ requests' = requests \ {r} /\ entered' = entered
      /\ now' = now /\ subs' = subs /\ Ids' = Ids
  BY DEF GrantLink, vars, Ids
<1>2. r \in Request /\ r.sub \in Ids
  BY DEF LinkInv, LinksTypeOK
<1>3. new \in Link /\ new.sub = r.sub /\ new.by = r.by
  BY <1>2, InvitesAssumption DEF Link, Request
<1> HIDE DEF new
<1>4. LinksTypeOK'
  BY <1>1, <1>2, <1>3 DEF LinkInv, LinksTypeOK
<1>5. \A l \in links : l.sub = r.sub /\ l.by = r.by => ~IsValid(l)
  BY DEF LinkInv, RequestsOK
<1>6. OneLinkPerHandler'
  BY <1>1, <1>3, <1>5 DEF LinkInv, OneLinkPerHandler, IsValid
<1>7. RequestsOK'
  <2>1. \A q \in requests' : q \in requests /\ q.by # r.by
    BY <1>1 DEF LinkInv, RequestsOK
  <2>2. QED
    BY <1>1, <1>3, <2>1 DEF LinkInv, RequestsOK, IsValid
<1>8. QED
  BY <1>4, <1>6, <1>7 DEF LinkInv

\* A link that is followed is marked, and is otherwise the same.
LEMMA JoinKeepsLinks ==
  ASSUME IInv, LinkInv, NEW l \in links, JoinWith(l)
  PROVE  LinkInv'
<1> DEFINE new == [l EXCEPT !.used = TRUE]
<1>1. /\ links' = (links \ {l}) \cup {new} /\ requests' = requests
      /\ now' = now /\ subs' = subs /\ Ids' = Ids
  BY DEF JoinWith, Join, Ids
<1>2. l \in Link /\ l.sub \in Ids
  BY DEF LinkInv, LinksTypeOK
<1>3. new \in Link /\ new.sub = l.sub /\ new.by = l.by /\ new.until = l.until
  BY <1>2 DEF Link
<1> HIDE DEF new
<1>4. LinksTypeOK'
  <2>1. entered' \in [Users -> Moment]
    <3>1. entered' = [entered EXCEPT ![subs[l.sub].user] = now] /\ now \in Moment
      BY DEF JoinWith, IInv, TypeOK, Moment
    <3>2. QED
      BY <3>1 DEF LinkInv, LinksTypeOK
  <2>2. QED
    BY <1>1, <1>2, <1>3, <2>1 DEF LinkInv, LinksTypeOK
<1>5. IsValid(new)' = IsValid(l) /\ \A k \in links : IsValid(k)' = IsValid(k)
  BY <1>1, <1>3 DEF IsValid
<1>6. OneLinkPerHandler'
  BY <1>1, <1>3, <1>5 DEF LinkInv, OneLinkPerHandler
<1>7. RequestsOK'
  BY <1>1, <1>3, <1>5 DEF LinkInv, RequestsOK
<1>8. QED
  BY <1>4, <1>6, <1>7 DEF LinkInv

\* Every step keeps the links as they must be.
LEMMA LinkStepOK ==
  ASSUME IInv, LinkInv, [LinkNext]_allVars
  PROVE  LinkInv'
<1>1. [Next]_vars
  BY LinkStepMaps DEF LinkInv
<1>2. Ids \subseteq Ids' /\ now' \in Nat /\ now' >= now
  BY <1>1, RowsStay, ClockAdvances
<1>3. CASE links' = links /\ requests' \subseteq requests /\ entered' = entered
  BY <1>2, <1>3, LinksStay
<1>4. ASSUME NEW h \in Issuers, NEW i \in Ids, RequestLink(h, i) PROVE LinkInv'
  BY <1>4, RequestKeepsLinks
<1>5. ASSUME NEW r \in requests, GrantLink(r) PROVE LinkInv'
  BY <1>5, GrantKeepsLinks
<1>6. ASSUME NEW l \in links, JoinWith(l) PROVE LinkInv'
  BY <1>6, JoinKeepsLinks
<1>7. \/ links' = links /\ requests' \subseteq requests /\ entered' = entered
      \/ \E h \in Issuers, i \in Ids : RequestLink(h, i)
      \/ \E r \in requests : GrantLink(r)
      \/ \E l \in links : JoinWith(l)
  BY DEF LinkNext, allVars, linkVars, RefuseLink, Elsewhere, Expirer, Restart
<1>8. QED
  BY <1>3, <1>4, <1>5, <1>6, <1>7

-----------------------------------------------------------------------------
(* Members and their subscriptions, while sessions do not overlap *)

\* What a write to the table keeps: ends are not moved back, a subscription whose end
\* moves is live, and who had a live subscription that the open pass has not revoked
\* has one.
GoesOn ==
  \A i \in Ids :
    /\ i \in Ids'
    /\ subs'[i].user = subs[i].user
    /\ subs'[i].expires \in Nat
    /\ subs'[i].expires >= subs[i].expires
    /\ subs'[i].expires = subs[i].expires \/ IsLive(subs'[i])
    /\ IsLive(subs[i]) /\ i \notin cycle.revoked =>
         \E j \in Ids' : subs'[j].user = subs[i].user /\ IsLive(subs'[j])

\* A table that is not written goes on.
LEMMA SameRowsGoOn == ASSUME IInv, subs' = subs PROVE GoesOn
<1>1. Ids' = Ids /\ \A i \in Ids : subs[i].expires \in Nat
  BY RowNumbers DEF Ids, IInv
<1>2. QED
  BY <1>1 DEF GoesOn

\* An extension moves the end of a row, which stays live.
LEMMA ExtensionGoesOn ==
  ASSUME IInv, NEW k \in Ids, IsLive(subs[k]),
         subs' = [subs EXCEPT ![k] = Extended(subs[k], subs[k])]
  PROVE  GoesOn
<1> DEFINE new == Extended(subs[k], subs[k])
<1>1. subs[k] \in Row /\ subs[k].expires \in Nat
  BY RowNumbers DEF IInv
<1>2. /\ new.user = subs[k].user
      /\ new.expires = subs[k].expires + Days
      /\ IsLive(new)
  BY <1>1, ExtendedIsRow, ExtendedIsUnmarked DEF IsLive
<1>3. Ids' = Ids /\ subs'[k] = new /\ \A i \in Ids \ {k} : subs'[i] = subs[i]
  BY IdsAreNumbers DEF Ids, IInv
<1> HIDE DEF new
<1>4. new.expires \in Nat /\ new.expires >= subs[k].expires
  BY <1>1, <1>2, AccessAssumption
<1>5. \A i \in Ids : subs[i].expires \in Nat
  BY RowNumbers DEF IInv
<1>6. QED
  BY <1>2, <1>3, <1>4, <1>5 DEF GoesOn

\* A new row is live, and belongs to the user whose latest row may be closed for it.
LEMMA NewRowGoesOn ==
  ASSUME IInv, NEW u \in Users, NEW at \in Nat, NEW k \in Nat, NEW lapsed,
         \/ lapsed = subs
         \/ /\ lapsed = [subs EXCEPT ![k].status = "expired"]
            /\ k \in Ids
            /\ subs[k].user = u,
         subs' = Append(lapsed, NewRow(u, at))
  PROVE  GoesOn
<1> DEFINE n == Len(subs) + 1
           new == NewRow(u, at)
<1>1. Ids = 1 .. Len(subs) /\ Len(subs) \in Nat /\ \A i \in Ids : subs[i] \in Row
  BY IdsAreNumbers DEF IInv
<1>2. /\ Len(lapsed) = Len(subs)
      /\ lapsed \in Seq(Row)
      /\ \A i \in Ids : /\ lapsed[i].user = subs[i].user
                        /\ lapsed[i].expires = subs[i].expires
                        /\ lapsed[i] = subs[i] \/ subs[i].user = u
  <2>1. CASE lapsed = subs
    BY <2>1 DEF IInv, TypeOK
  <2>2. CASE /\ lapsed = [subs EXCEPT ![k].status = "expired"]
             /\ k \in Ids
             /\ subs[k].user = u
    <3> DEFINE shut == [subs[k] EXCEPT !.status = "expired"]
    <3>1. shut \in Row /\ shut.user = subs[k].user /\ shut.expires = subs[k].expires
      BY <1>1, <2>2 DEF Row
    <3>2. lapsed = [subs EXCEPT ![k] = shut]
      BY <2>2
    <3> HIDE DEF shut
    <3>3. subs \in Seq(Row) /\ k \in 1 .. Len(subs) /\ shut \in Row
      BY <1>1, <2>2, <3>1 DEF IInv, TypeOK
    <3>4. /\ lapsed \in Seq(Row)
          /\ Len(lapsed) = Len(subs)
          /\ lapsed[k] = shut
          /\ \A i \in Ids \ {k} : lapsed[i] = subs[i]
      BY <1>1, <3>2, <3>3
    <3>5. QED
      BY <2>2, <3>1, <3>4
  <2>3. QED
    BY <2>1, <2>2
<1>3. new \in Row /\ new.user = u /\ IsLive(new)
  BY NewRowIsSound DEF NewRow, IsLive
<1> HIDE DEF new
<1>4. /\ Ids' = Ids \cup {n}
      /\ subs'[n] = new
      /\ \A i \in Ids : subs'[i] = lapsed[i]
  <2>1. subs' = Append(lapsed, new)
    BY DEF new
  <2>2. QED
    BY <1>1, <1>2, <1>3, <2>1 DEF Ids
<1>5. ASSUME NEW i \in Ids
      PROVE  /\ i \in Ids'
             /\ subs'[i].user = subs[i].user
             /\ subs'[i].expires \in Nat
             /\ subs'[i].expires = subs[i].expires
             /\ subs'[i].expires >= subs[i].expires
  <2>1. subs[i].expires \in Nat /\ subs'[i].expires = subs[i].expires
    BY <1>2, <1>4, RowNumbers DEF IInv
  <2>2. subs'[i].user = subs[i].user
    BY <1>2, <1>4
  <2>3. QED
    BY <1>4, <2>1, <2>2
<1>6. ASSUME NEW i \in Ids, IsLive(subs[i])
      PROVE  \E j \in Ids' : subs'[j].user = subs[i].user /\ IsLive(subs'[j])
  <2>1. CASE lapsed[i] = subs[i]
    BY <1>4, <1>6, <2>1
  <2>2. CASE subs[i].user = u
    BY <1>3, <1>4, <2>2
  <2>3. QED
    BY <1>2, <2>1, <2>2
<1>7. QED
  BY <1>5, <1>6 DEF GoesOn

\* A payment session that is alone.
LEMMA PaymentGoesOn ==
  ASSUME IInv, ClockOK, SerialOK, NEW s \in sessions, CommitPayment(s)
  PROVE  GoesOn
<1> DEFINE at == paidAt[s.charge]
           u  == s.row.user
<1>1. /\ s \in Session /\ u \in Users /\ SessionOK(s) /\ at \in Nat /\ Fresh(s)
      /\ s.id \in Nat
  BY RowFields DEF IInv, TypeOK, SessionsOK, Session, Moment, SerialOK
<1>2. CASE subs' = subs
  BY <1>2, SameRowsGoOn
<1>3. CASE ActivateOrExtend(s)
  <2>1. CASE Extends(s.row, at)
    <3>1. s.id \in Ids /\ s.row = subs[s.id]
      <4>1. 0 \notin Ids
        BY IdsAreNumbers DEF IInv
      <4>2. s.row.status # "expired"
        BY <2>1 DEF Extends, IsLive
      <4>3. QED
        BY <1>1, <4>1, <4>2 DEF Fresh, SessionOK
    <3>2. /\ IsLive(subs[s.id])
          /\ subs' = [subs EXCEPT ![s.id] = Extended(subs[s.id], subs[s.id])]
      BY <1>3, <2>1, <3>1 DEF ActivateOrExtend, Extends
    <3>3. QED
      BY <3>1, <3>2, ExtensionGoesOn
  <2>2. CASE ~Extends(s.row, at)
    <3> DEFINE lapsed == IF Lapses(s.row, at) /\ s.row.status = "active"
                         THEN [subs EXCEPT ![s.id].status = "expired"]
                         ELSE subs
    <3>1. subs' = Append(lapsed, NewRow(u, at))
      BY <1>3, <2>2 DEF ActivateOrExtend
    <3>2. \/ lapsed = subs
          \/ /\ lapsed = [subs EXCEPT ![s.id].status = "expired"]
             /\ s.id \in Ids
             /\ subs[s.id].user = u
      <4>1. CASE s.id \in Ids
        BY <1>1, <4>1, IdsAreNumbers DEF Fresh, IInv
      <4>2. CASE s.id \notin Ids
        BY <1>1, <4>2 DEF SessionOK, Lapses
      <4>3. QED
        BY <4>1, <4>2
    <3> HIDE DEF lapsed
    <3>3. QED
      BY <1>1, <3>1, <3>2, NewRowGoesOn
  <2>3. QED
    BY <2>1, <2>2
<1>4. QED
  BY <1>2, <1>3 DEF CommitPayment

\* The commit of a pass ends only what it has revoked.
LEMMA PassGoesOn == ASSUME IInv, CommitCycle PROVE GoesOn
<1>1. Ids' = Ids /\ \A i \in Ids : subs'[i] = Processed(i)
  <2>1. Ids' = Ids
    BY CommitKeepsRows DEF IInv
  <2>2. QED
    BY <2>1 DEF CommitCycle
<1>2. \A i \in Ids :
        /\ subs'[i].user = subs[i].user
        /\ subs'[i].expires = subs[i].expires
        /\ subs'[i].status = IF i \in cycle.revoked THEN "expired" ELSE subs[i].status
        /\ subs'[i].revoked = IF i \in cycle.revoked THEN cycle.at ELSE subs[i].revoked
  BY <1>1, ProcessedIsRow, ProcessedMarks DEF IInv
<1>3. \A i \in Ids : subs[i].expires \in Nat
  BY RowNumbers DEF IInv
<1>4. \A i \in Ids : IsLive(subs[i]) /\ i \notin cycle.revoked => IsLive(subs'[i])
  BY <1>2 DEF IsLive
<1>5. QED
  BY <1>1, <1>2, <1>3, <1>4 DEF GoesOn

\* Every step of a serial history.
LEMMA StepGoesOn ==
  ASSUME IInv, ClockOK, SerialOK, [Next]_vars
  PROVE  GoesOn
<1>1. subs' = subs \/ (\E s \in sessions : CommitPayment(s)) \/ CommitCycle
  BY DEF Next, Worker, Tick, Pay, BeginPayment, RollbackPayment, Join, StartCycle,
         SendWarnings1, SendNotices, ListRevocations, RemoveMember, FailRemoval,
         FailCycle, Crash, cycleOnly, vars
<1>2. QED
  BY <1>1, SameRowsGoOn, PaymentGoesOn, PassGoesOn

\* Requests and links that stay do so with the ends of their subscriptions.
LEMMA LinksStayInTime ==
  ASSUME IInv, LinkInv, LinksInTime, GoesOn
  PROVE  /\ \A r \in requests : r.at < subs'[r.sub].expires
         /\ \A l \in links : l.until < subs'[l.sub].expires + TTL
<1>1. ASSUME NEW r \in requests PROVE r.at < subs'[r.sub].expires
  <2>1. r.sub \in Ids /\ r.at \in Nat
    BY DEF LinkInv, LinksTypeOK, Request
  <2>2. subs[r.sub].expires \in Nat
    BY <2>1, RowNumbers DEF IInv
  <2>3. subs'[r.sub].expires \in Nat /\ subs'[r.sub].expires >= subs[r.sub].expires
    BY <2>1 DEF GoesOn
  <2>4. r.at < subs[r.sub].expires
    BY DEF LinksInTime
  <2>5. QED
    BY <2>1, <2>2, <2>3, <2>4
<1>2. ASSUME NEW l \in links PROVE l.until < subs'[l.sub].expires + TTL
  <2>1. l.sub \in Ids /\ l.until \in Nat
    BY DEF LinkInv, LinksTypeOK, Link
  <2>2. subs[l.sub].expires \in Nat
    BY <2>1, RowNumbers DEF IInv
  <2>3. subs'[l.sub].expires \in Nat /\ subs'[l.sub].expires >= subs[l.sub].expires
    BY <2>1 DEF GoesOn
  <2>4. l.until < subs[l.sub].expires + TTL
    BY DEF LinksInTime
  <2>5. QED
    BY <2>1, <2>2, <2>3, <2>4, InvitesAssumption
<1>3. QED
  BY <1>1, <1>2

\* Links are only asked for before the end.
LEMMA LinksInTimeStep ==
  ASSUME IInv, LinkInv, ClockOK, SerialOK, LinksInTime, [LinkNext]_allVars
  PROVE  LinksInTime'
<1>1. GoesOn
  BY LinkStepMaps, StepGoesOn DEF LinkInv
<1>2. /\ \A r \in requests : r.at < subs'[r.sub].expires
      /\ \A l \in links : l.until < subs'[l.sub].expires + TTL
  BY <1>1, LinksStayInTime
<1>3. CASE links' = links /\ requests' \subseteq requests
  BY <1>2, <1>3 DEF LinksInTime
<1>4. ASSUME NEW h \in Issuers, NEW i \in Ids, RequestLink(h, i) PROVE LinksInTime'
  <2> DEFINE new == [by |-> h, sub |-> i, at |-> now]
  <2>1. links' = links /\ requests' = requests \cup {new} /\ subs' = subs
    BY <1>4 DEF RequestLink, vars
  <2>2. now \in Nat /\ subs[i].expires \in Nat /\ subs[i].expires > now
    BY <1>4, RowNumbers DEF RequestLink, IsCurrent, IInv
  <2>3. new.at < subs'[new.sub].expires
    BY <2>1, <2>2
  <2> HIDE DEF new
  <2>4. QED
    BY <1>2, <2>1, <2>3 DEF LinksInTime
<1>5. ASSUME NEW r \in requests, GrantLink(r) PROVE LinksInTime'
  <2> DEFINE new == [sub |-> r.sub, until |-> r.at + TTL, by |-> r.by, used |-> FALSE]
  <2>1. links' = links \cup {new} /\ requests' \subseteq requests /\ subs' = subs
    BY <1>5 DEF GrantLink, vars
  <2>2. r.sub \in Ids /\ r.at \in Nat
    BY DEF LinkInv, LinksTypeOK, Request
  <2>3. subs[r.sub].expires \in Nat /\ r.at < subs[r.sub].expires
    BY <2>2, RowNumbers DEF LinksInTime, IInv
  <2>4. new.until < subs'[new.sub].expires + TTL
    BY <2>1, <2>2, <2>3, InvitesAssumption
  <2> HIDE DEF new
  <2>5. QED
    BY <1>2, <2>1, <2>4 DEF LinksInTime
<1>6. ASSUME NEW l \in links, JoinWith(l) PROVE LinksInTime'
  <2> DEFINE new == [l EXCEPT !.used = TRUE]
  <2>1. links' = (links \ {l}) \cup {new} /\ requests' = requests /\ subs' = subs
    BY <1>6 DEF JoinWith, Join
  <2>2. new.until = l.until /\ new.sub = l.sub
    BY DEF LinkInv, LinksTypeOK, Link
  <2> HIDE DEF new
  <2>3. new.until < subs'[new.sub].expires + TTL
    BY <1>2, <2>2
  <2>4. QED
    BY <1>2, <2>1, <2>3 DEF LinksInTime
<1>7. \/ links' = links /\ requests' \subseteq requests
      \/ \E h \in Issuers, i \in Ids : RequestLink(h, i)
      \/ \E r \in requests : GrantLink(r)
      \/ \E l \in links : JoinWith(l)
  BY DEF LinkNext, allVars, linkVars, RefuseLink, Elsewhere, Expirer, Restart
<1>8. QED
  BY <1>3, <1>4, <1>5, <1>6, <1>7

\* A subscription whose grace period cannot be over has not been revoked, and is not
\* about to be.
LEMMA NotYetRevoked ==
  ASSUME IInv, SerialOK, NEW i \in Ids, now < subs[i].expires + Grace
  PROVE  subs[i].revoked = NoTime /\ i \notin cycle.revoked
<1>1. now \in Nat /\ cycle.at \in Nat /\ subs[i].expires \in Nat /\ subs[i].revoked \in Moment
  BY RowNumbers DEF IInv
<1>2. subs[i].revoked = NoTime
  <2>1. SUFFICES ASSUME subs[i].revoked # NoTime PROVE FALSE
    OBVIOUS
  <2>2. subs[i].expires + Grace <= subs[i].revoked /\ subs[i].revoked <= now
    BY <2>1 DEF SerialOK, RowsTimely, Timely
  <2>3. subs[i].revoked \in Nat
    BY <1>1, <2>1 DEF Moment
  <2>4. QED
    BY <1>1, <2>2, <2>3, AccessAssumption
<1>3. i \notin cycle.revoked
  <2>1. SUFFICES ASSUME i \in cycle.revoked PROVE FALSE
    OBVIOUS
  <2>2. subs[i].expires + Grace <= cycle.at /\ cycle.at <= now
    BY <2>1 DEF SerialOK, PassTimely, IInv, CycleOK
  <2>3. QED
    BY <1>1, <2>2, AccessAssumption
<1>4. QED
  BY <1>2, <1>3

\* Whoever holds a valid link has a subscription: the one of the link or, when that
\* has lapsed, the one that followed it.  Otherwise the link has outlived the grace
\* period.
LEMMA HoldersAreServed ==
  ASSUME IInv, LinkInv, SerialOK, LinksInTime, NEW l \in links, IsValid(l)
  PROVE  \/ \E i \in RowsOf(subs[l.sub].user) : IsLive(subs[i]) /\ i \notin cycle.revoked
         \/ subs[l.sub].expires + Grace <= now /\ now < subs[l.sub].expires + TTL
<1> DEFINE k == l.sub
<1>1. k \in Ids /\ l.until \in Nat
  BY DEF LinkInv, LinksTypeOK, Link
<1>2. now \in Nat /\ subs[k].expires \in Nat /\ subs[k].status \in {"active", "expired"}
  BY <1>1, RowNumbers DEF IInv
<1>3. now < subs[k].expires + TTL
  <2>1. l.until > now /\ l.until < subs[k].expires + TTL
    BY DEF IsValid, LinksInTime
  <2>2. QED
    BY <1>1, <1>2, <2>1, InvitesAssumption
<1>4. SUFFICES ASSUME now < subs[k].expires + Grace
               PROVE  \E i \in RowsOf(subs[k].user) : IsLive(subs[i]) /\ i \notin cycle.revoked
  BY <1>2, <1>3, AccessAssumption
<1>5. subs[k].revoked = NoTime /\ k \notin cycle.revoked
  BY <1>1, <1>4, NotYetRevoked
<1>6. CASE subs[k].status = "active"
  BY <1>1, <1>5, <1>6 DEF RowsOf, IsLive
<1>7. CASE subs[k].status = "expired"
  <2>1. PICK j \in Ids : /\ subs[j].user = subs[k].user
                         /\ subs[k].expires <= subs[j].started
                         /\ subs[j].status = "active" \/ subs[j].revoked # NoTime
    BY <1>1, <1>5, <1>7 DEF SerialOK, LapsedFollowed, Followed
  <2>2. subs[j].expires \in Nat /\ subs[j].started \in Nat
    BY RowNumbers DEF IInv
  <2>3. subs[j].expires >= subs[j].started + Days
    BY DEF IInv, RowsOK, Sound
  <2>4. now < subs[j].expires + Grace
    BY <1>2, <1>4, <2>1, <2>2, <2>3, AccessAssumption
  <2>5. subs[j].revoked = NoTime /\ j \notin cycle.revoked
    BY <2>4, NotYetRevoked
  <2>6. QED
    BY <2>1, <2>5 DEF RowsOf, IsLive
<1>8. QED
  BY <1>2, <1>6, <1>7

\* Nobody joins, and no subscription ends.
LEMMA StillServed ==
  ASSUME Served, subs' = subs, cycle'.revoked \subseteq cycle.revoked, entered' = entered,
         \A u \in Users : member'[u] = "member" => member[u] = "member"
  PROVE  Served'
<1>1. \A u : RowsOf(u)' = RowsOf(u)
  BY DEF RowsOf, Ids
<1>2. QED
  BY <1>1 DEF Served, CameInLate, IsLive

\* A commit that goes on, after which no pass is open.
LEMMA ServedAfterWrite ==
  ASSUME IInv, Served, GoesOn, member' = member, cycle' = Idle, entered' = entered
  PROVE  Served'
<1>1. cycle'.revoked = {}
  BY DEF Idle
<1> SUFFICES ASSUME NEW u \in Users, member[u] = "member", ~CameInLate(u)'
             PROVE  \E j \in RowsOf(u)' : IsLive(subs[j])' /\ j \notin cycle'.revoked
  BY DEF Served
<1>2. PICK j \in Ids' : subs'[j].user = u /\ IsLive(subs'[j])
  <2>1. CASE \E i \in RowsOf(u) : IsLive(subs[i]) /\ i \notin cycle.revoked
    BY <2>1 DEF GoesOn, RowsOf
  <2>2. CASE CameInLate(u)
    <3>1. PICK i \in RowsOf(u) : /\ subs[i].expires + Grace <= entered[u]
                                 /\ entered[u] < subs[i].expires + TTL
      BY <2>2 DEF CameInLate
    <3>2. i \in Ids /\ subs[i].user = u
      BY DEF RowsOf
    <3>3. i \in Ids' /\ subs'[i].user = u
      BY <3>2 DEF GoesOn
    <3>4. subs'[i].expires # subs[i].expires
      BY <3>1, <3>3 DEF CameInLate, RowsOf
    <3>5. QED
      BY <3>2, <3>3, <3>4 DEF GoesOn
  <2>3. QED
    BY <2>1, <2>2 DEF Served
<1>3. QED
  BY <1>1, <1>2 DEF RowsOf, IsLive

\* After a removal the user is no longer a member, whatever Telegram answered.
LEMMA ServedAfterRemoval ==
  ASSUME IInv, Served, NEW i \in cycle.todo, RemoveMember(i), entered' = entered
  PROVE  Served'
<1>1. /\ subs' = subs
      /\ cycle'.revoked = cycle.revoked \cup {i}
      /\ member \in [Users -> Standings]
  BY DEF RemoveMember, IInv, TypeOK, Cycle
<1>2. \A u : RowsOf(u)' = RowsOf(u)
  BY <1>1 DEF RowsOf, Ids
<1>3. \A u \in Users : CameInLate(u) => CameInLate(u)'
  BY <1>1, <1>2 DEF CameInLate
<1>4. SUFFICES ASSUME NEW u \in Users, member'[u] = "member", ~CameInLate(u)
               PROVE  \E j \in RowsOf(u) : IsLive(subs[j]) /\ j \notin cycle'.revoked
  BY <1>1, <1>2, <1>3 DEF Served, IsLive
<1>5. u # subs[i].user /\ member[u] = "member"
  BY <1>1, <1>4 DEF RemoveMember
<1>6. PICK j \in RowsOf(u) : IsLive(subs[j]) /\ j \notin cycle.revoked
  BY <1>4, <1>5 DEF Served
<1>7. j # i
  BY <1>5, <1>6 DEF RowsOf
<1>8. QED
  BY <1>1, <1>6, <1>7

\* Who joins has a subscription, as every holder of a valid link, or comes late.
LEMMA ServedAfterJoin ==
  ASSUME IInv, LinkInv, SerialOK, LinksInTime, Served, NEW l \in links, JoinWith(l)
  PROVE  Served'
<1> DEFINE w == subs[l.sub].user
<1>1. /\ subs' = subs
      /\ cycle' = cycle
      /\ member' = [member EXCEPT ![w] = "member"]
      /\ entered' = [entered EXCEPT ![w] = now]
      /\ member \in [Users -> Standings]
      /\ entered \in [Users -> Moment]
      /\ IsValid(l)
  BY DEF JoinWith, Join, IInv, TypeOK, LinkInv, LinksTypeOK
<1>2. \A u : RowsOf(u)' = RowsOf(u)
  BY <1>1 DEF RowsOf, Ids
<1>3. SUFFICES ASSUME NEW u \in Users, member'[u] = "member", ~CameInLate(u)'
               PROVE  \E j \in RowsOf(u) : IsLive(subs[j]) /\ j \notin cycle.revoked
  BY <1>1, <1>2 DEF Served, IsLive
<1>4. CASE u = w
  <2>1. l.sub \in RowsOf(w)
    BY DEF LinkInv, LinksTypeOK, RowsOf
  <2>2. entered'[u] = now
    BY <1>1, <1>4
  <2>3. ~(subs[l.sub].expires + Grace <= now /\ now < subs[l.sub].expires + TTL)
    BY <1>1, <1>2, <1>3, <1>4, <2>1, <2>2 DEF CameInLate
  <2>4. QED
    BY <1>1, <1>4, <2>3, HoldersAreServed
<1>5. CASE u # w
  <2>1. member[u] = "member" /\ entered'[u] = entered[u]
    BY <1>1, <1>3, <1>5
  <2>2. ~CameInLate(u)
    BY <1>1, <1>2, <1>3, <2>1 DEF CameInLate
  <2>3. QED
    BY <2>1, <2>2 DEF Served
<1>6. QED
  BY <1>4, <1>5

\* Every step of a serial history.
LEMMA ServedStep ==
  ASSUME IInv, LinkInv, ClockOK, SerialOK, LinksInTime, Served, [LinkNext]_allVars
  PROVE  Served'
<1>1. [Next]_vars /\ GoesOn
  BY LinkStepMaps, StepGoesOn DEF LinkInv
<1>2. CASE /\ subs' = subs /\ cycle'.revoked \subseteq cycle.revoked
           /\ member' = member /\ entered' = entered
  BY <1>2, StillServed
<1>3. ASSUME NEW l \in links, JoinWith(l) PROVE Served'
  BY <1>3, ServedAfterJoin
<1>4. ASSUME NEW s \in sessions, CommitPayment(s), entered' = entered
      PROVE  Served'
  <2>1. cycle' = Idle /\ member' = member
    BY <1>4 DEF CommitPayment, SerialOK, Alone
  <2>2. QED
    BY <1>1, <1>4, <2>1, ServedAfterWrite
<1>5. CASE CommitCycle /\ entered' = entered
  BY <1>1, <1>5, ServedAfterWrite DEF CommitCycle
<1>6. ASSUME NEW i \in cycle.todo, RemoveMember(i), entered' = entered
      PROVE  Served'
  BY <1>6, ServedAfterRemoval
<1>7. ASSUME NEW i \in cycle.todo, FailRemoval(i), entered' = entered
      PROVE  Served'
  <2>1. subs' = subs /\ cycle'.revoked \subseteq cycle.revoked
    BY <1>7 DEF FailRemoval, IInv, TypeOK, Cycle
  <2>2. \A u \in Users : member'[u] = "member" => member[u] = "member"
    BY <1>7 DEF FailRemoval, IInv, TypeOK
  <2>3. QED
    BY <1>7, <2>1, <2>2, StillServed
<1>8. CASE /\ entered' = entered
           /\ \/ UNCHANGED vars \/ Tick \/ FailCycle \/ Crash
              \/ \E c \in Charges : Pay(c)
              \/ \E h \in Handlers, c \in Charges : BeginPayment(h, c)
              \/ \E s \in sessions : RollbackPayment(s)
  <2>1. subs' = subs /\ (cycle' = cycle \/ cycle' = Idle) /\ member' = member
    BY <1>8 DEF vars, Tick, Pay, BeginPayment, RollbackPayment, FailCycle, Crash
  <2>2. cycle'.revoked \subseteq cycle.revoked
    BY <2>1 DEF Idle
  <2>3. QED
    BY <1>2, <1>8, <2>1, <2>2
<1>9. CASE /\ entered' = entered
           /\ StartCycle \/ SendWarnings1 \/ SendNotices \/ ListRevocations
  <2>1. subs' = subs /\ member' = member
    BY <1>9 DEF StartCycle, SendWarnings1, SendNotices, ListRevocations, cycleOnly
  <2>2. cycle'.revoked \subseteq cycle.revoked
    BY <1>9 DEF StartCycle, SendWarnings1, SendNotices, ListRevocations, Idle, IInv,
                TypeOK, Cycle
  <2>3. QED
    BY <1>2, <1>9, <2>1, <2>2
<1>10. CASE UNCHANGED <<vars, entered>> \/ Elsewhere \/ Expirer \/ Restart
  <2>1. entered' = entered
    BY <1>10 DEF Elsewhere, Expirer, Restart, linkVars
  <2>2. QED
    BY <1>4, <1>5, <1>6, <1>7, <1>8, <1>9, <1>10, <2>1 DEF Elsewhere, Expirer, Restart, Worker
<1>11. QED
  BY <1>3, <1>10 DEF LinkNext, allVars, linkVars, RequestLink, GrantLink, RefuseLink

\* overlap is never withdrawn.
LEMMA OverlapStays == ASSUME [Next]_vars, ~overlap' PROVE ~overlap
  BY DEF Next, Worker, vars, Tick, Pay, BeginPayment, CommitPayment, RollbackPayment,
     Join, StartCycle, SendWarnings1, SendNotices, ListRevocations, RemoveMember,
     FailRemoval, CommitCycle, FailCycle, Crash, cycleOnly

\* Every step keeps what holds of members.
LEMMA MemberStep ==
  ASSUME IInv, SInv, LinkInv, MInv, [LinkNext]_allVars
  PROVE  MInv'
<1>1. SUFFICES ASSUME ~overlap' PROVE LinksInTime' /\ Served'
  BY DEF MInv
<1>2. ~overlap
  BY <1>1, LinkStepMaps, OverlapStays DEF LinkInv
<1>3. ClockOK /\ SerialOK /\ LinksInTime /\ Served
  BY <1>2 DEF SInv, MInv
<1>4. QED
  BY <1>3, LinksInTimeStep, ServedStep

-----------------------------------------------------------------------------
(* Theorems *)

\* Subscriptions with invite links behave as module Access says: whoever joins, and
\* however links are issued, no other behaviour of the rest comes about.
THEOREM ImplementsAccess == LinkSpec => Spec
<1>1. LinkInit => Init /\ IInv /\ LinkInv
  BY InitOK, LinkInitOK DEF LinkInit
<1>2. IInv /\ LinkInv /\ [LinkNext]_allVars => [Next]_vars
  BY LinkStepMaps DEF LinkInv
<1>3. IInv /\ LinkInv /\ [LinkNext]_allVars => IInv' /\ LinkInv'
  BY <1>2, StepOK, LinkStepOK
<1>4. QED
  BY <1>1, <1>2, <1>3, PTL DEF LinkSpec, Spec

\* The invariant of links and waiting handlers holds in every reachable state.
THEOREM LinkInvariant == LinkSpec => []LinkInv
<1>1. LinkInit => IInv /\ LinkInv
  BY InitOK, LinkInitOK DEF LinkInit
<1>2. IInv /\ LinkInv /\ [LinkNext]_allVars => IInv' /\ LinkInv'
  BY LinkStepMaps, StepOK, LinkStepOK DEF LinkInv
<1>3. QED
  BY <1>1, <1>2, PTL DEF LinkSpec

\* Links and requests have their types, and their subscriptions exist.
THEOREM LinkTypes == LinkSpec => []LinksTypeOK
<1>1. LinkInv => LinksTypeOK
  BY DEF LinkInv
<1>2. QED
  BY <1>1, LinkInvariant, PTL

\* issue_subscription_invite_link never creates a link beside a valid one, but for
\* handlers that wait for Telegram at once.
THEOREM LinksNeedHandlers == LinkSpec => []OneLinkPerHandler
<1>1. LinkInv => OneLinkPerHandler
  BY DEF LinkInv
<1>2. QED
  BY <1>1, LinkInvariant, PTL

\* While sessions do not overlap, nobody is a member after
\* process_expired_subscriptions has revoked his subscriptions, except with a link of
\* issue_subscription_invite_link that outlives the grace period, or when Telegram
\* denies that he is there.
THEOREM MembersAreServed == LinkSpec => []SerialMembersServed
<1>1. LinkInit => IInv /\ SInv /\ LinkInv /\ MInv
  <2>1. LinkInit => MInv
    BY DEF LinkInit, Init, MInv, LinksInTime, Served
  <2>2. QED
    BY <2>1, InitOK, SerialInit, LinkInitOK DEF LinkInit
<1>2. IInv /\ SInv /\ LinkInv /\ MInv /\ [LinkNext]_allVars
        => (IInv /\ SInv /\ LinkInv /\ MInv)'
  BY LinkStepMaps, StepOK, SerialStep, LinkStepOK, MemberStep DEF LinkInv
<1>3. MInv => SerialMembersServed
  BY DEF MInv, Served, SerialMembersServed
<1>4. QED
  BY <1>1, <1>2, <1>3, PTL DEF LinkSpec
=============================================================================
