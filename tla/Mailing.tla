------------------------------ MODULE Mailing ------------------------------
(***************************************************************************)
(* What the broadcast feature promises, without batches, retries, sessions *)
(* or restarts: a mailing has a fixed set of recipients from the moment it *)
(* is queued; one mailing is under way at a time and runs to its end; every*)
(* recipient is settled exactly once, as reached only when a message was   *)
(* really sent to him; a mailing closes when nobody is owed an answer.     *)
(***************************************************************************)
EXTENDS Integers

CONSTANTS
  Users,    \* possible recipients
  Mailings  \* ids, ordered

VARIABLES
  mailings, \* mailings[i]: the state of every mailing that was queued
  reached   \* pairs <<i, u>>: Telegram showed mailing i to user u

mailingVars == <<mailings, reached>>

Ids == DOMAIN mailings
Phases == {"waiting", "under_way", "closed"}

Waiting == {i \in Ids : mailings[i].phase = "waiting"}
UnderWay == {i \in Ids : mailings[i].phase = "under_way"}

MailingTypeOK ==
  /\ Ids \subseteq Mailings
  /\ \A i \in Ids : /\ mailings[i].phase \in Phases
                    /\ mailings[i].owed \subseteq Users
                    /\ mailings[i].reached \subseteq Users
  /\ reached \subseteq Mailings \X Users

-----------------------------------------------------------------------------
MailingInit ==
  /\ mailings = [i \in {} |-> {}]
  /\ reached = {}

Queue(i, S) ==
  /\ i \notin Ids
  /\ S # {}
  /\ mailings' = [j \in Ids \cup {i} |->
                    IF j = i THEN [phase |-> "waiting", owed |-> S, reached |-> {}]
                             ELSE mailings[j]]
  /\ UNCHANGED reached

\* The oldest waiting mailing starts, when none is under way.
Start(i) ==
  /\ UnderWay = {}
  /\ i \in Waiting
  /\ \A j \in Waiting : i <= j
  /\ mailings' = [mailings EXCEPT ![i].phase = "under_way"]
  /\ UNCHANGED reached

Reach(i, u) ==
  /\ i \in UnderWay
  /\ u \in mailings[i].owed
  /\ reached' = reached \cup {<<i, u>>}
  /\ UNCHANGED mailings

\* The recipients S get their final answer; those of them in good as reached.
Settle(i, S, good) ==
  /\ i \in UnderWay
  /\ S # {}
  /\ S \subseteq mailings[i].owed
  /\ good \subseteq S
  /\ {i} \X good \subseteq reached
  /\ mailings' = [mailings EXCEPT ![i].owed = @ \ S, ![i].reached = @ \cup good]
  /\ UNCHANGED reached

Close(i) ==
  /\ i \in UnderWay
  /\ mailings[i].owed = {}
  /\ mailings' = [mailings EXCEPT ![i].phase = "closed"]
  /\ UNCHANGED reached

MailingNext ==
  \/ \E i \in Mailings \ Ids, S \in SUBSET Users : Queue(i, S)
  \/ \E i \in Waiting : Start(i)
  \/ \E i \in UnderWay :
       \/ \E u \in mailings[i].owed : Reach(i, u)
       \/ \E S \in SUBSET mailings[i].owed : \E good \in SUBSET S : Settle(i, S, good)
       \/ Close(i)

MailingSpec == MailingInit /\ [][MailingNext]_mailingVars
=============================================================================
