------------------------------- MODULE Upkeep -------------------------------
(***************************************************************************)
(* The scheduler's housekeeping: the daily backup, the channel guard, the  *)
(* admin reports and the retention messages, which take turns in one loop, *)
(* and the admin's backups by hand, which run beside it.                   *)
(*                                                                         *)
(* A pass has a session of its own.  What it does outside the database,    *)
(* messages and files, cannot be rolled back and comes before its commit;  *)
(* an audit row is how it remembers, and the guard's memory is a variable  *)
(* of the process.                                                         *)
(*                                                                         *)
(* Abstractions: the channels are the set of issues the guard would find;  *)
(* audit rows are scanned in the order of their insertion; BACKUP_ENABLED  *)
(* and BACKUP_SEND_TO_ADMIN are set; texts, offers, report contents and    *)
(* the passes of other modules are left out.                               *)
(***************************************************************************)
EXTENDS Integers, FiniteSets

CONSTANTS
  Admins,      \* ADMIN_IDS
  Users,       \* users that retention writes to
  Issues,      \* what can be wrong with the channels
  Day, Week,   \* a day in units of the clock, a week in days
  BackupAt,    \* BACKUP_TIME, in units since midnight, and
  ReportAt,    \* REPORT_DISPATCH_HOUR
  KeepFor,     \* BACKUP_RETENTION_DAYS, in units
  Window,      \* SEGMENT_DEDUPE_WINDOWS
  FirstMax, JoinMax, RecentMin, RecentMax, InactiveMin, InactiveMax, TrialMax,
               \* FIRST_PAYMENT_LOOKBACK and the other limits of the segments
  Length,      \* how long a subscription runs
  MaxTime, MaxChanges, MaxFiles, MaxMishaps  \* bounds

Segments == {"first_payment", "pending_join", "expired_recently", "inactive_paid",
             "lost_after_trial"}

ASSUME UpkeepAssumption ==
  /\ {Day, Week, Length} \subseteq Nat \ {0}
  /\ Window \in [Segments -> Nat]
  /\ {BackupAt, ReportAt} \subseteq 0..(Day - 1)
  /\ {KeepFor, FirstMax, JoinMax, RecentMin, RecentMax, InactiveMin, InactiveMax,
      TrialMax, MaxTime, MaxChanges, MaxFiles, MaxMishaps} \subseteq Nat

VARIABLES
  now,
  broken,   \* issues the channels have
  online,   \* getMe answers
  life,     \* what tables users, payments, subscriptions and invite_links say
  records,  \* table backup_records: records[i] of archive i
  files,    \* times of the archives that exist: files[i] of archive i
  audit,    \* table audit_logs: what was sent, with the time of its pass
  alerted,  \* _last_alert_fingerprint, {} for None
  turn,     \* the worker of the loop that runs or is next
  notice,   \* its session when it sends messages
  jobs,     \* the backups of the worker and of the admin
  told,     \* history: the last time a message reached someone, and its repeats
  changes,
  mishaps

worldVars == <<broken, online, life, changes>>
backupVars == <<records, files, jobs>>
noticeVars == <<audit, alerted, notice, told>>
vars == <<now, worldVars, backupVars, noticeVars, turn, mishaps>>

-----------------------------------------------------------------------------
Never == -1
Turns == {"backup", "guard", "daily", "weekly", "retention"}
Actors == {"worker", "admin"}
Archives == 1..MaxFiles

\* count: payments; ends and trial: the subscription that ends last.
Life == [count : 0..2, paid : Nat, ends : Nat \cup {Never}, trial : BOOLEAN,
         link : BOOLEAN, skipped : BOOLEAN]

Record == [label : {"daily", "manual"}, at : Nat,
           status : {"created", "sent", "send_failed", "pruned"}]

Job == [step : {"idle", "prune", "commit", "deliver", "mark"}, id : Archives \cup {0},
        at : Nat, pruned : SUBSET Archives, delivered : BOOLEAN]
NoJob == [step |-> "idle", id |-> 0, at |-> 0, pruned |-> {}, delivered |-> FALSE]

\* What is told: a segment, a report of a period or an alert with its fingerprint.
Key == Segments \X {0} \cup {"daily", "weekly"} \X Nat \cup {"alert"} \X SUBSET Issues
Message == [to : Admins \cup Users, key : Key]
Sent == [to : Admins \cup Users, key : Key, at : Nat]
Notice == [open : BOOLEAN, at : Nat, todo : SUBSET Message, done : SUBSET Sent,
           seen : SUBSET Issues]
NoNotice == [open |-> FALSE, at |-> 0, todo |-> {}, done |-> {}, seen |-> {}]

TypeOK ==
  /\ now \in Nat
  /\ broken \subseteq Issues /\ online \in BOOLEAN
  /\ life \in [Users -> Life]
  /\ DOMAIN records \subseteq Archives /\ records \in [DOMAIN records -> Record]
  /\ DOMAIN files \subseteq Archives /\ files \in [DOMAIN files -> Nat]
  /\ audit \subseteq Sent
  /\ alerted \subseteq Issues
  /\ turn \in Turns
  /\ notice \in Notice
  /\ jobs \in [Actors -> Job]
  /\ told \subseteq [to : Admins \cup Users, key : Key, at : Nat, again : Nat]
  /\ {changes, mishaps} \subseteq Nat

Init ==
  /\ now = 0
  /\ broken = {} /\ online = TRUE
  /\ life = [u \in Users |-> [count |-> 0, paid |-> 0, ends |-> Never, trial |-> FALSE,
                              link |-> FALSE, skipped |-> FALSE]]
  /\ records = [i \in {} |-> 0] /\ files = [i \in {} |-> 0]
  /\ audit = {} /\ alerted = {}
  /\ turn = "backup"
  /\ notice = NoNotice
  /\ jobs = [a \in Actors |-> NoJob]
  /\ told = {}
  /\ changes = 0 /\ mishaps = 0

-----------------------------------------------------------------------------
(* Time, users and channels *)

Tick ==
  /\ now < MaxTime
  /\ now' = now + 1
  /\ UNCHANGED <<worldVars, backupVars, noticeVars, turn, mishaps>>

Active(l, t) == l.ends # Never /\ l.ends > t

Bought(l, trial) ==
  [l EXCEPT !.count = IF @ = 2 THEN 2 ELSE @ + 1, !.paid = now, !.link = TRUE,
            !.ends = IF Active(l, now) THEN @ + Length ELSE now + Length, !.trial = trial]

WorldChanges ==
  /\ changes < MaxChanges
  /\ changes' = changes + 1
  /\ \/ \E S \in SUBSET Issues : S # broken /\ broken' = S /\ UNCHANGED life
     \/ \E u \in Users :
          /\ \/ \E trial \in BOOLEAN : life' = [life EXCEPT ![u] = Bought(@, trial)]
             \/ life[u].link /\ life' = [life EXCEPT ![u].link = FALSE]
             \/ life' = [life EXCEPT ![u].skipped = ~@]  \* blocked, or an admin
          /\ UNCHANGED broken
  /\ UNCHANGED <<now, online, backupVars, noticeVars, turn, mishaps>>

-----------------------------------------------------------------------------
(* Backups *)

\* Mutant of Expired: the last moment to keep is already too old.
ExpiredEarly(f, t) == {i \in DOMAIN f : f[i] <= t - KeepFor}

\* list_older_than and the orphans of the directory: strictly before the cutoff.
Expired(f, t) == {i \in DOMAIN f : f[i] < t - KeepFor}

DailyOf(day) == {i \in DOMAIN records : records[i].label = "daily" /\ records[i].at \div Day = day}

Free == Archives \ (DOMAIN files \cup DOMAIN records \cup {jobs[a].id : a \in Actors})

Without(f, S) == [i \in DOMAIN f \ S |-> f[i]]
Plus(f, i, x) == [j \in DOMAIN f \cup {i} |-> IF j = i THEN x ELSE f[j]]

\* create_backup_archive: the file is written, the record only flushed.
Archive(a) ==
  \E i \in Free :
    /\ \A j \in Free : i <= j
    /\ files' = Plus(files, i, now)
    /\ jobs' = [jobs EXCEPT ![a] = [NoJob EXCEPT !.step = "prune", !.id = i, !.at = now]]

\* run_scheduled_backup_cycle: due, and no daily backup of today.
BackupDue == now % Day >= BackupAt /\ DailyOf(now \div Day) = {}

BeginDaily ==
  /\ turn = "backup"
  /\ jobs["worker"].step = "idle"
  /\ BackupDue
  /\ Archive("worker")
  /\ UNCHANGED <<now, worldVars, records, noticeVars, turn, mishaps>>

SkipDaily ==
  /\ turn = "backup"
  /\ jobs["worker"].step = "idle"
  /\ ~BackupDue
  /\ turn' = "guard"
  /\ UNCHANGED <<now, worldVars, backupVars, noticeVars, mishaps>>

\* create_backup_now
BeginManual ==
  /\ jobs["admin"].step = "idle"
  /\ Archive("admin")
  /\ UNCHANGED <<now, worldVars, records, noticeVars, turn, mishaps>>

\* apply_backup_retention: files are unlinked at once, statuses wait for the commit.
\* The worker counts from the time of its pass.
Prune(a) ==
  LET t == IF a = "worker" THEN jobs[a].at ELSE now
      live == {i \in DOMAIN records : records[i].status # "pruned"}
      old == Expired([i \in live |-> records[i].at], t)
  IN /\ jobs[a].step = "prune"
     /\ files' = Without(files, old \cup Expired(files, t))
     /\ jobs' = [jobs EXCEPT ![a].step = "commit", ![a].pruned = old]
     /\ UNCHANGED <<now, worldVars, records, noticeVars, turn, mishaps>>

LabelOf(a) == IF a = "worker" THEN "daily" ELSE "manual"

CommitBackup(a) ==
  /\ jobs[a].step = "commit"
  /\ records' = Plus([i \in DOMAIN records |->
                        IF i \in jobs[a].pruned THEN [records[i] EXCEPT !.status = "pruned"]
                        ELSE records[i]],
                     jobs[a].id,
                     [label |-> LabelOf(a), at |-> jobs[a].at, status |-> "created"])
  /\ jobs' = [jobs EXCEPT ![a].step = "deliver"]
  /\ UNCHANGED <<now, worldVars, files, noticeVars, turn, mishaps>>

\* send_backup_to_admins, send_backup_to_message: fails without the file.
Deliver(a) ==
  /\ jobs[a].step = "deliver"
  /\ \E delivered \in BOOLEAN :
       /\ delivered => jobs[a].id \in DOMAIN files
       /\ jobs' = [jobs EXCEPT ![a].step = "mark", ![a].delivered = delivered]
  /\ UNCHANGED <<now, worldVars, records, files, noticeVars, turn, mishaps>>

\* mark_backup_delivery
Mark(a) ==
  /\ jobs[a].step = "mark"
  /\ records' = [records EXCEPT ![jobs[a].id].status =
                   IF jobs[a].delivered THEN "sent" ELSE "send_failed"]
  /\ jobs' = [jobs EXCEPT ![a] = NoJob]
  /\ turn' = IF a = "worker" THEN "guard" ELSE turn
  /\ UNCHANGED <<now, worldVars, files, noticeVars, mishaps>>

Backup ==
  \/ BeginDaily \/ SkipDaily \/ BeginManual
  \/ \E a \in Actors : Prune(a) \/ CommitBackup(a) \/ Deliver(a) \/ Mark(a)

-----------------------------------------------------------------------------
(* Messages *)

Open(t, todo, seen) ==
  notice' = [open |-> TRUE, at |-> t, todo |-> todo, done |-> {}, seen |-> seen]

ToAdmins(key) == [to : Admins, key : {key}]

\* build_channel_diagnostics_report: without getMe it has no results.
Found == IF online THEN broken ELSE {}

\* run_channel_guard up to its messages: without issues, also when getMe does not
\* answer, the fingerprint is cleared.  The history forgets the alerts of issues that
\* are no longer there.
BeginGuard ==
  /\ turn = "guard"
  /\ ~notice.open
  /\ told' = {r \in told : online /\ r.key[1] = "alert" => r.key[2] = Found}
  /\ alerted' = IF Found = {} THEN {} ELSE alerted
  /\ IF Found \in {{}, alerted}
     THEN turn' = "daily" /\ UNCHANGED notice
     ELSE Open(now, ToAdmins(<<"alert", Found>>), Found) /\ UNCHANGED turn
  /\ UNCHANGED <<now, worldVars, backupVars, audit, mishaps>>

\* dispatch_scheduled_admin_reports reads the clock once; Monday is day 0 of a week.
PeriodKey(t) == <<turn, IF turn = "daily" THEN t \div Day ELSE t \div (Day * Week)>>
ReportTime == IF turn = "daily" THEN now ELSE notice.at
ReportDue ==
  /\ turn = "daily" => now % Day = ReportAt
  /\ turn = "weekly" => (notice.at \div Day) % Week = 0
  /\ \A r \in audit : r.key # PeriodKey(ReportTime)

AfterDaily == IF turn = "daily" /\ now % Day = ReportAt THEN "weekly" ELSE "retention"

BeginReport ==
  /\ turn \in {"daily", "weekly"}
  /\ ~notice.open
  /\ IF ReportDue
     THEN Open(ReportTime, ToAdmins(PeriodKey(ReportTime)), {}) /\ UNCHANGED turn
     ELSE /\ turn' = AfterDaily
          /\ notice' = [NoNotice EXCEPT !.at = IF AfterDaily = "weekly" THEN now ELSE 0]
  /\ UNCHANGED <<now, worldVars, backupVars, audit, alerted, told, mishaps>>

\* _is_deduped
Deduped(u, s) ==
  \E r \in audit : r.to = u /\ r.key = <<s, 0>> /\ r.at >= now - Window[s]

\* The segments of a user without a current subscription.  After a trial only
\* lost_after_trial counts until its limit; expired_recently goes before inactive_paid.
Lapsed(u) ==
  LET l == life[u]
      ago == now - l.ends
      recent == ago <= RecentMax /\ ~Deduped(u, "expired_recently")
  IN IF l.ends = Never \/ ago < RecentMin THEN {}
     ELSE IF l.trial /\ ago <= TrialMax THEN {"lost_after_trial"}
     ELSE IF recent THEN {"expired_recently"}
     ELSE {s \in {"inactive_paid"} : l.count > 0 /\ ago \in InactiveMin..InactiveMax}

\* _collect_candidates
Candidates(u) ==
  LET l == life[u]
      current == Active(l, now)
      wanted == {s \in {"first_payment"} : l.count = 1 /\ l.paid >= now - FirstMax}
           \cup {s \in {"pending_join"} : current /\ l.count > 0 /\ l.link
                                            /\ l.paid >= now - JoinMax}
           \cup (IF current THEN {} ELSE Lapsed(u))
  IN {s \in wanted : ~l.skipped /\ ~Deduped(u, s)}

BeginRetention ==
  /\ turn = "retention"
  /\ ~notice.open
  /\ Open(now, UNION {[to : {u}, key : Candidates(u) \X {0}] : u \in Users}, {})
  /\ UNCHANGED <<now, worldVars, backupVars, audit, alerted, told, turn, mishaps>>

\* created_at of a row is the time its transaction began; it matters to segments alone.
Stamp(m) ==
  [to |-> m.to, key |-> m.key, at |-> IF m.key[1] \in Segments THEN notice.at ELSE 0]

\* The history: m reaches its receiver, again if the last of its kind was the same
\* and still counts.
Receive(m) ==
  LET last == {r \in told : r.to = m.to /\ r.key[1] = m.key[1]}
      again == {r \in last : /\ r.key = m.key
                             /\ m.key[1] \in Segments => r.at >= notice.at - Window[m.key[1]]}
      n == IF again = {} THEN 0 ELSE 1 + (CHOOSE r \in again : TRUE).again
  IN told' = (told \ last) \cup {[to |-> m.to, key |-> m.key, at |-> Stamp(m).at, again |-> n]}

\* send_message: it succeeds, fails, or arrives without its answer.
Tell ==
  /\ notice.open
  /\ \E m \in notice.todo :
       \/ /\ Receive(m)
          /\ notice' = [notice EXCEPT !.todo = @ \ {m}, !.done = @ \cup {Stamp(m)}]
          /\ UNCHANGED mishaps
       \/ /\ notice' = [notice EXCEPT !.todo = @ \ {m}]
          /\ UNCHANGED <<told, mishaps>>
       \/ /\ mishaps < MaxMishaps /\ mishaps' = mishaps + 1
          /\ Receive(m)
          /\ notice' = [notice EXCEPT !.todo = @ \ {m}]
  /\ UNCHANGED <<now, worldVars, backupVars, audit, alerted, turn>>

After(t) == CASE t = "backup" -> "guard" [] t = "guard" -> "daily" [] t = "daily" -> "weekly"
              [] t = "weekly" -> "retention" [] t = "retention" -> "backup"

\* Mutant of Finish: the pass remembers only what it could tell everyone.
FinishWhenAllTold ==
  /\ notice.open
  /\ notice.todo = {}
  /\ LET all == {m.to : m \in notice.done} = Admins
     IN IF turn = "guard"
        THEN alerted' = (IF all THEN notice.seen ELSE alerted) /\ UNCHANGED audit
        ELSE /\ audit' = IF turn = "retention" \/ all THEN audit \cup notice.done ELSE audit
             /\ UNCHANGED alerted
  /\ notice' = [NoNotice EXCEPT !.at = IF turn = "daily" THEN notice.at ELSE 0]
  /\ turn' = After(turn)
  /\ UNCHANGED <<now, worldVars, backupVars, told, mishaps>>

\* After the last message: one receiver is enough for the guard to remember its
\* fingerprint; the others commit the rows of what was sent.
Finish ==
  /\ notice.open
  /\ notice.todo = {}
  /\ IF turn = "guard"
     THEN alerted' = (IF notice.done # {} THEN notice.seen ELSE alerted) /\ UNCHANGED audit
     ELSE audit' = audit \cup notice.done /\ UNCHANGED alerted
  /\ notice' = [NoNotice EXCEPT !.at = IF turn = "daily" THEN notice.at ELSE 0]
  /\ turn' = After(turn)
  /\ UNCHANGED <<now, worldVars, backupVars, told, mishaps>>

Notices == BeginGuard \/ BeginReport \/ BeginRetention \/ Tell \/ Finish

-----------------------------------------------------------------------------
(* Failures *)

\* The database refuses something: the pass is rolled back, the loop goes on after
\* it.  The daily and the weekly report share a session; a backup whose delivery
\* cannot be marked stays as it is.
FailPass ==
  /\ mishaps < MaxMishaps /\ mishaps' = mishaps + 1
  /\ \/ /\ notice.open \/ jobs["worker"].step \in {"prune", "commit", "mark"}
        /\ jobs' = [jobs EXCEPT !["worker"] = NoJob]
        /\ notice' = NoNotice
        /\ turn' = IF turn = "daily" THEN "retention" ELSE After(turn)
     \/ /\ jobs["admin"].step \in {"prune", "commit", "mark"}
        /\ jobs' = [jobs EXCEPT !["admin"] = NoJob]
        /\ UNCHANGED <<notice, turn>>
  /\ UNCHANGED <<now, worldVars, records, files, audit, alerted, told>>

\* The process restarts: files and committed rows stay.
Crash ==
  /\ mishaps < MaxMishaps /\ mishaps' = mishaps + 1
  /\ jobs' = [a \in Actors |-> NoJob]
  /\ notice' = NoNotice
  /\ alerted' = {}
  /\ turn' = "backup"
  /\ UNCHANGED <<now, worldVars, records, files, audit, told>>

\* getMe does not answer, and answers again.
Outage ==
  /\ online
  /\ mishaps < MaxMishaps /\ mishaps' = mishaps + 1
  /\ online' = FALSE
  /\ UNCHANGED <<now, broken, life, changes, backupVars, noticeVars, turn>>

Recover ==
  /\ ~online
  /\ online' = TRUE
  /\ UNCHANGED <<now, broken, life, changes, backupVars, noticeVars, turn, mishaps>>

Next ==
  \/ Tick \/ WorldChanges
  \/ Backup \/ Notices
  \/ FailPass \/ Crash \/ Outage \/ Recover

Spec == Init /\ [][Next]_vars

-----------------------------------------------------------------------------
(* Properties *)

\* Backups are kept as long as promised, whoever prunes: a record of the last KeepFor
\* has its archive although files go before the commit that marks their records and
\* passes fail in between; one that says pruned has none; no day has two daily records.
BackupsKept ==
  /\ \A i \in DOMAIN records :
       /\ records[i].at >= now - KeepFor => i \in DOMAIN files
       /\ records[i].status = "pruned" => i \notin DOMAIN files
  /\ \A day \in 0..(now \div Day) : Cardinality(DailyOf(day)) <= 1

\* An admin gets an alert or a report, and a user a segment's message, again only for
\* a failed pass, a restart, a lost answer or an outage of getMe, one for each time,
\* although rows are committed and fingerprints remembered only after the messages.
RepeatsNeedMishaps == \A r \in told : r.again <= mishaps

=============================================================================
