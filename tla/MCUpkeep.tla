------------------------------ MODULE MCUpkeep ------------------------------
\* Upkeep with one user and two admins, days of two units and weeks of one day.
EXTENDS Upkeep, TLC

CONSTANTS a1, a2, u1, bot

MCAdmins == {a1, a2}
MCUsers == {u1}
MCIssues == {bot}
MCWindow == [s \in Segments |-> IF s = "pending_join" THEN 0 ELSE 1]

\* Backups, messages to admins and messages to users share nothing but the clock and
\* the turns, so a behaviour has only one of: backups by hand and failed ones; alerts
\* and reports that arrive; users who do something.
MCOnlyDaily ==
  /\ jobs["admin"].step = "idle"
  /\ \A i \in DOMAIN records : records[i].label = "daily" /\ records[i].status # "send_failed"
  /\ DOMAIN files \subseteq DOMAIN records \cup {jobs["worker"].id}
MCBackups == told = {} /\ ~notice.open /\ changes = 0
MCAdminMessages == MCOnlyDaily /\ \A u \in Users : life[u].count = 0 /\ ~life[u].skipped
MCUserMessages ==
  /\ MCOnlyDaily
  /\ broken = {} /\ online
  /\ \A r \in told : r.to \in Users
MCBound == MCBackups \/ MCAdminMessages \/ MCUserMessages
MCSymmetry == Permutations(MCAdmins)
=============================================================================
