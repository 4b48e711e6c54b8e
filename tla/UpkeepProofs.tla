---------------------------- MODULE UpkeepProofs ----------------------------
(***************************************************************************)
(* Theorems about Upkeep for every set of admins, users and issues, every  *)
(* schedule and limit, and any number of archives, changes and mishaps.    *)
(*                                                                         *)
(* The argument for backups.  An archive and its record have one time; a   *)
(* pass unlinks what is too old at a time that is never after the clock,   *)
(* and what it will mark as pruned has no file and gets none, for the name *)
(* of an archive with a record is never used again.                        *)
(*                                                                         *)
(* The argument for repeats.  A message is remembered by a row, by the     *)
(* fingerprint or by the pass that sent it.  One that is not was forgotten *)
(* by a mishap that its count does not include yet.  While getMe does not  *)
(* answer every guard pass clears the fingerprint, so no alert counts the  *)
(* outage yet, nor would the one that an open pass still sends.            *)
(***************************************************************************)
EXTENDS Upkeep, FiniteSetTheorems, TLAPS

JobsInv ==
  /\ \A a \in Actors : jobs[a].step # "idle" => jobs[a].id \in Archives
  /\ \A a, b \in Actors :
       a # b /\ jobs[a].step # "idle" /\ jobs[b].step # "idle" => jobs[a].id # jobs[b].id
  /\ jobs["worker"].step # "idle" => turn = "backup"

\* An archive is as old as its record and not from the future.
Archived ==
  /\ \A i \in DOMAIN files : files[i] <= now
  /\ \A i \in DOMAIN records :
       /\ records[i].at <= now
       /\ i \in DOMAIN files => files[i] = records[i].at

\* The archive of a job whose record is not committed.
Unrecorded ==
  \A a \in Actors :
    jobs[a].step \in {"prune", "commit"} =>
      /\ jobs[a].id \notin DOMAIN records
      /\ jobs[a].at <= now
      /\ jobs[a].id \in DOMAIN files => files[jobs[a].id] = jobs[a].at
      /\ jobs[a].at >= now - KeepFor => jobs[a].id \in DOMAIN files

Recorded ==
  \A a \in Actors :
    /\ jobs[a].step = "commit" => jobs[a].pruned \subseteq DOMAIN records \ DOMAIN files
    /\ jobs[a].step \in {"deliver", "mark"} => jobs[a].id \in DOMAIN records

Kept ==
  \A i \in DOMAIN records :
    /\ records[i].at >= now - KeepFor => i \in DOMAIN files
    /\ records[i].status = "pruned" => i \notin DOMAIN files

IsDaily(i, day) == records[i].label = "daily" /\ records[i].at \div Day = day

OneDaily ==
  /\ \A i, j \in DOMAIN records :
       /\ records[i].label = "daily"
       /\ IsDaily(j, records[i].at \div Day)
       => i = j
  /\ jobs["worker"].step \in {"prune", "commit"} =>
       \A i \in DOMAIN records : ~ IsDaily(i, jobs["worker"].at \div Day)

BackupInv == JobsInv /\ Archived /\ Unrecorded /\ Recorded /\ Kept /\ OneDaily

Row(r) == [to |-> r.to, key |-> r.key, at |-> r.at]

Remembered(r) ==
  IF r.key[1] = "alert"
  THEN r.key[2] = alerted \/ (notice.done # {} /\ r.key[2] = notice.seen)
  ELSE Row(r) \in audit \cup notice.done

NoticeInv ==
  /\ ~notice.open => notice.todo = {} /\ notice.done = {}
  /\ notice.open => turn # "backup"
  /\ \A m \in notice.todo : m.key[1] = "alert" => turn = "guard" /\ m.key[2] = notice.seen
  /\ notice.open /\ turn = "guard" =>
       /\ notice.seen # {}
       /\ \A m \in notice.todo \cup notice.done : m.key[1] = "alert"
       /\ \A r \in told : r.key[1] = "alert" => r.key[2] = notice.seen
  /\ notice.open /\ turn # "guard" => notice.seen = {}
  /\ \A r \in told : r.key[1] = "alert" => r.key[2] # {}

Counts(r, m) ==
  /\ r.to = m.to /\ r.key = m.key
  /\ m.key[1] \in Segments => r.at >= notice.at - Window[m.key[1]]

RepeatInv ==
  /\ \A r \in told : r.again <= mishaps
  /\ \A r \in told : ~ Remembered(r) => r.again < mishaps
  /\ \A m \in notice.todo : \A r \in told : Counts(r, m) => r.again < mishaps

OutageInv ==
  ~online =>
    /\ mishaps > 0
    /\ \A r \in told : r.key[1] = "alert" => r.again < mishaps
    /\ \A m \in notice.todo : \A r \in told :
         m.key[1] = "alert" /\ Counts(r, m) => r.again + 1 < mishaps

IInv == TypeOK /\ BackupInv /\ NoticeInv /\ RepeatInv /\ OutageInv

-----------------------------------------------------------------------------
(* Types *)

LEMMA Quotient ==
  ASSUME NEW a \in Nat, NEW b \in Nat \ {0}
  PROVE  a \div b \in Nat /\ a \div b <= a
  BY SMT

LEMMA NoJobType == NoJob \in Job
  BY DEF NoJob, Job, Archives

LEMMA NoNoticeType == NoNotice \in Notice
  BY DEF NoNotice, Notice

LEMMA PlusType ==
  ASSUME NEW S, NEW f, f \in [DOMAIN f -> S], NEW i, NEW x \in S
  PROVE  /\ DOMAIN Plus(f, i, x) = DOMAIN f \cup {i}
         /\ Plus(f, i, x) \in [DOMAIN Plus(f, i, x) -> S]
         /\ Plus(f, i, x)[i] = x
         /\ \A j \in DOMAIN f \ {i} : Plus(f, i, x)[j] = f[j]
  BY DEF Plus

LEMMA WithoutType ==
  ASSUME NEW S, NEW f, f \in [DOMAIN f -> S], NEW T
  PROVE  /\ DOMAIN Without(f, T) = DOMAIN f \ T
         /\ Without(f, T) \in [DOMAIN Without(f, T) -> S]
         /\ \A j \in DOMAIN f \ T : Without(f, T)[j] = f[j]
  BY DEF Without

LEMMA BackupTypes ==
  ASSUME TypeOK, UNCHANGED <<now, broken, online, life, audit, alerted, notice, told, changes, mishaps>>,
         turn' \in Turns, jobs' \in [Actors -> Job],
         DOMAIN records' \subseteq Archives, records' \in [DOMAIN records' -> Record],
         DOMAIN files' \subseteq Archives, files' \in [DOMAIN files' -> Nat]
  PROVE  TypeOK'
  BY DEF TypeOK

LEMMA ArchiveFacts ==
  ASSUME TypeOK, NEW a \in Actors, Archive(a)
  PROVE  \E i \in Free :
           /\ i \in Archives
           /\ jobs' \in [Actors -> Job]
           /\ jobs'[a].step = "prune" /\ jobs'[a].id = i /\ jobs'[a].at = now
           /\ \A b \in Actors \ {a} : jobs'[b] = jobs[b]
           /\ DOMAIN files' = DOMAIN files \cup {i}
           /\ files' \in [DOMAIN files' -> Nat]
           /\ files'[i] = now
           /\ \A j \in DOMAIN files \ {i} : files'[j] = files[j]
<1>1. PICK i \in Free :
        /\ files' = Plus(files, i, now)
        /\ jobs' = [jobs EXCEPT ![a] = [NoJob EXCEPT !.step = "prune", !.id = i, !.at = now]]
  BY DEF Archive
<1>2. i \in Archives /\ i \in Nat
  BY DEF Free, Archives
<1>3. now \in Nat /\ files \in [DOMAIN files -> Nat] /\ jobs \in [Actors -> Job]
  BY DEF TypeOK
<1> DEFINE J == [NoJob EXCEPT !.step = "prune", !.id = i, !.at = now]
<1>4. NoJob \in Job
  BY NoJobType
<1>5. /\ J \in Job
      /\ J.step = "prune" /\ J.id = i /\ J.at = now
  BY <1>2, <1>3, <1>4 DEF Job
<1> HIDE DEF J
<1>6. jobs' \in [Actors -> Job] /\ jobs'[a] = J /\ \A b \in Actors \ {a} : jobs'[b] = jobs[b]
  BY <1>1, <1>3, <1>5 DEF J
<1> DEFINE F == Plus(files, i, now)
<1>7. /\ DOMAIN F = DOMAIN files \cup {i}
      /\ F \in [DOMAIN F -> Nat]
      /\ F[i] = now
      /\ \A j \in DOMAIN files \ {i} : F[j] = files[j]
  BY <1>3 DEF Plus
<1> HIDE DEF F
<1>8. files' = F
  BY <1>1 DEF F
<1> QED
  BY <1>2, <1>5, <1>6, <1>7, <1>8

PruneTime(a) == IF a = "worker" THEN jobs[a].at ELSE now

LEMMA PruneFacts ==
  ASSUME TypeOK, NEW a \in Actors, Prune(a)
  PROVE  \E old \in SUBSET DOMAIN records, gone \in SUBSET DOMAIN files :
           /\ jobs[a].step = "prune"
           /\ \A i \in old : records[i].at < PruneTime(a) - KeepFor /\ records[i].status # "pruned"
           /\ \A i \in gone : files[i] < PruneTime(a) - KeepFor
           /\ DOMAIN files' = DOMAIN files \ (old \cup gone)
           /\ files' \in [DOMAIN files' -> Nat]
           /\ \A j \in DOMAIN files' : files'[j] = files[j]
           /\ jobs' \in [Actors -> Job]
           /\ jobs'[a].step = "commit" /\ jobs'[a].pruned = old
           /\ jobs'[a].id = jobs[a].id /\ jobs'[a].at = jobs[a].at
           /\ \A b \in Actors \ {a} : jobs'[b] = jobs[b]
<1> DEFINE t == PruneTime(a)
           live == {i \in DOMAIN records : records[i].status # "pruned"}
           f == [i \in live |-> records[i].at]
           old == Expired(f, t)
           gone == Expired(files, t)
<1>1. /\ jobs[a].step = "prune"
      /\ files' = Without(files, old \cup gone)
      /\ jobs' = [jobs EXCEPT ![a].step = "commit", ![a].pruned = old]
  BY DEF Prune, PruneTime
<1>2. old \subseteq live /\ \A i \in old : records[i].at < PruneTime(a) - KeepFor
  BY DEF Expired
<1>3. gone \subseteq DOMAIN files /\ \A i \in gone : files[i] < PruneTime(a) - KeepFor
  BY DEF Expired
<1>4. old \subseteq Archives
  BY <1>2 DEF TypeOK
<1> HIDE DEF old, gone
<1>5. files \in [DOMAIN files -> Nat] /\ jobs \in [Actors -> Job]
  BY DEF TypeOK
<1> DEFINE F == Without(files, old \cup gone)
<1>6. /\ DOMAIN F = DOMAIN files \ (old \cup gone)
      /\ F \in [DOMAIN F -> Nat]
      /\ \A j \in DOMAIN files \ (old \cup gone) : F[j] = files[j]
  BY <1>5, WithoutType
<1> HIDE DEF F
<1>11. files' = F
  BY <1>1 DEF F
<1>7. jobs[a] \in Job
  BY <1>5
<1>8. /\ jobs'[a] = [jobs[a] EXCEPT !.step = "commit", !.pruned = old]
      /\ \A b \in Actors \ {a} : jobs'[b] = jobs[b]
      /\ DOMAIN jobs' = Actors
      /\ jobs' = [b \in Actors |-> jobs'[b]]
  BY <1>1, <1>5
<1>9. /\ jobs'[a] \in Job
      /\ jobs'[a].step = "commit" /\ jobs'[a].pruned = old
      /\ jobs'[a].id = jobs[a].id /\ jobs'[a].at = jobs[a].at
  BY <1>4, <1>7, <1>8 DEF Job
<1>10. jobs' \in [Actors -> Job]
  BY <1>5, <1>8, <1>9
<1> old \in SUBSET DOMAIN records /\ gone \in SUBSET DOMAIN files
  BY <1>2, <1>3
<1> WITNESS old \in SUBSET DOMAIN records, gone \in SUBSET DOMAIN files
<1> QED
  BY <1>1, <1>2, <1>3, <1>6, <1>8, <1>9, <1>10, <1>11

LEMMA CommitFacts ==
  ASSUME TypeOK, JobsInv, NEW a \in Actors, CommitBackup(a)
  PROVE  /\ jobs[a].step = "commit"
         /\ jobs[a].id \in Archives
         /\ DOMAIN records' = DOMAIN records \cup {jobs[a].id}
         /\ records' \in [DOMAIN records' -> Record]
         /\ records'[jobs[a].id].label = LabelOf(a)
         /\ records'[jobs[a].id].at = jobs[a].at
         /\ records'[jobs[a].id].status = "created"
         /\ \A j \in DOMAIN records \ {jobs[a].id} :
              /\ records'[j].label = records[j].label
              /\ records'[j].at = records[j].at
              /\ records'[j].status =
                   IF j \in jobs[a].pruned THEN "pruned" ELSE records[j].status
         /\ jobs' \in [Actors -> Job]
         /\ jobs'[a].step = "deliver"
         /\ jobs'[a].id = jobs[a].id
         /\ \A b \in Actors \ {a} : jobs'[b] = jobs[b]
<1> DEFINE G == [i \in DOMAIN records |->
                   IF i \in jobs[a].pruned THEN [records[i] EXCEPT !.status = "pruned"]
                   ELSE records[i]]
           i == jobs[a].id
           R == [label |-> LabelOf(a), at |-> jobs[a].at, status |-> "created"]
<1>1. /\ jobs[a].step = "commit"
      /\ records' = Plus(G, i, R)
      /\ jobs' = [jobs EXCEPT ![a].step = "deliver"]
  BY DEF CommitBackup
<1>2. records \in [DOMAIN records -> Record] /\ jobs \in [Actors -> Job] /\ jobs[a] \in Job
  BY DEF TypeOK
<1>3. i \in Archives
  BY <1>1 DEF JobsInv
<1>4. R \in Record
  BY <1>2 DEF Record, Job, LabelOf
<1>5. /\ DOMAIN G = DOMAIN records
      /\ G \in [DOMAIN records -> Record]
      /\ \A j \in DOMAIN records :
           /\ G[j].label = records[j].label
           /\ G[j].at = records[j].at
           /\ G[j].status = IF j \in jobs[a].pruned THEN "pruned" ELSE records[j].status
  BY <1>2 DEF Record
<1> HIDE DEF G, R
<1>6. /\ DOMAIN Plus(G, i, R) = DOMAIN records \cup {i}
      /\ Plus(G, i, R) \in [DOMAIN Plus(G, i, R) -> Record]
      /\ Plus(G, i, R)[i] = R
      /\ \A j \in DOMAIN records \ {i} : Plus(G, i, R)[j] = G[j]
  BY <1>4, <1>5 DEF Plus
<1>7. /\ jobs'[a] = [jobs[a] EXCEPT !.step = "deliver"]
      /\ \A b \in Actors \ {a} : jobs'[b] = jobs[b]
      /\ jobs' = [b \in Actors |-> jobs'[b]]
  BY <1>1, <1>2
<1>8. jobs'[a] \in Job /\ jobs'[a].step = "deliver" /\ jobs'[a].id = jobs[a].id
  BY <1>2, <1>7 DEF Job
<1>9. jobs' \in [Actors -> Job]
  BY <1>2, <1>7, <1>8
<1>10. /\ DOMAIN records' = DOMAIN records \cup {i}
       /\ records' \in [DOMAIN records' -> Record]
       /\ records'[i] = R
       /\ \A j \in DOMAIN records \ {i} : records'[j] = G[j]
  BY <1>1, <1>6
<1> QED
  BY <1>1, <1>3, <1>5, <1>7, <1>8, <1>9, <1>10 DEF R

LEMMA DeliverFacts ==
  ASSUME TypeOK, NEW a \in Actors, Deliver(a)
  PROVE  /\ jobs[a].step = "deliver"
         /\ jobs' \in [Actors -> Job]
         /\ jobs'[a].step = "mark"
         /\ jobs'[a].id = jobs[a].id
         /\ \A b \in Actors \ {a} : jobs'[b] = jobs[b]
<1>1. PICK d \in BOOLEAN :
        jobs' = [jobs EXCEPT ![a].step = "mark", ![a].delivered = d]
  BY DEF Deliver
<1>2. jobs \in [Actors -> Job] /\ jobs[a] \in Job
  BY DEF TypeOK
<1>3. /\ jobs'[a] = [jobs[a] EXCEPT !.step = "mark", !.delivered = d]
      /\ \A b \in Actors \ {a} : jobs'[b] = jobs[b]
      /\ jobs' = [b \in Actors |-> jobs'[b]]
  BY <1>1, <1>2
<1>4. jobs'[a] \in Job /\ jobs'[a].step = "mark" /\ jobs'[a].id = jobs[a].id
  BY <1>2, <1>3 DEF Job
<1>5. jobs' \in [Actors -> Job]
  BY <1>2, <1>3, <1>4
<1> QED
  BY <1>3, <1>4, <1>5 DEF Deliver

LEMMA MarkFacts ==
  ASSUME TypeOK, NEW a \in Actors, Mark(a)
  PROVE  /\ jobs[a].step = "mark"
         /\ DOMAIN records' = DOMAIN records
         /\ records' \in [DOMAIN records -> Record]
         /\ \A j \in DOMAIN records :
              /\ records'[j].label = records[j].label
              /\ records'[j].at = records[j].at
              /\ records'[j].status \in {"sent", "send_failed", records[j].status}
         /\ jobs' \in [Actors -> Job]
         /\ jobs'[a].step = "idle"
         /\ \A b \in Actors \ {a} : jobs'[b] = jobs[b]
<1> DEFINE x == IF jobs[a].delivered THEN "sent" ELSE "send_failed"
           i == jobs[a].id
<1>1. /\ jobs[a].step = "mark"
      /\ records' = [records EXCEPT ![i].status = x]
      /\ jobs' = [jobs EXCEPT ![a] = NoJob]
  BY DEF Mark
<1>2. records \in [DOMAIN records -> Record] /\ jobs \in [Actors -> Job]
  BY DEF TypeOK
<1>3. x \in {"sent", "send_failed"}
  OBVIOUS
<1> HIDE DEF x, i
<1>4. /\ DOMAIN records' = DOMAIN records
      /\ \A j \in DOMAIN records :
           records'[j] = IF j = i THEN [records[i] EXCEPT !.status = x] ELSE records[j]
      /\ records' = [j \in DOMAIN records |-> records'[j]]
  BY <1>1, <1>2
<1>5. ASSUME NEW j \in DOMAIN records
      PROVE  /\ records'[j] \in Record
             /\ records'[j].label = records[j].label
             /\ records'[j].at = records[j].at
             /\ records'[j].status \in {"sent", "send_failed", records[j].status}
  BY <1>2, <1>3, <1>4 DEF Record
<1>6. records' \in [DOMAIN records -> Record]
  BY <1>4, <1>5
<1>7. NoJob \in Job /\ NoJob.step = "idle"
  BY NoJobType DEF NoJob
<1>8. jobs' \in [Actors -> Job] /\ jobs'[a].step = "idle" /\ \A b \in Actors \ {a} : jobs'[b] = jobs[b]
  BY <1>1, <1>2, <1>7
<1> QED
  BY <1>1, <1>4, <1>5, <1>6, <1>8

LEMMA BackupKeepsTypes ==
  ASSUME TypeOK, JobsInv, Backup
  PROVE  TypeOK'
<1>1. CASE \E a \in Actors : Archive(a) /\ UNCHANGED <<now, worldVars, records, noticeVars, turn, mishaps>>
  <2>1. PICK a \in Actors :
          Archive(a) /\ UNCHANGED <<now, worldVars, records, noticeVars, turn, mishaps>>
    BY <1>1
  <2>2. PICK i \in Free :
          /\ i \in Archives
          /\ jobs' \in [Actors -> Job]
          /\ DOMAIN files' = DOMAIN files \cup {i}
          /\ files' \in [DOMAIN files' -> Nat]
    BY <2>1, ArchiveFacts
  <2> QED
    BY <2>1, <2>2, BackupTypes DEF TypeOK, worldVars, noticeVars
<1>2. CASE SkipDaily
  BY <1>2, BackupTypes DEF TypeOK, SkipDaily, worldVars, noticeVars, backupVars, Turns
<1>3. ASSUME NEW a \in Actors, Prune(a)
      PROVE  TypeOK'
  <2>1. /\ jobs' \in [Actors -> Job]
        /\ DOMAIN files' \subseteq DOMAIN files
        /\ files' \in [DOMAIN files' -> Nat]
    BY <1>3, PruneFacts
  <2> QED
    BY <1>3, <2>1, BackupTypes DEF TypeOK, Prune, worldVars, noticeVars
<1>4. ASSUME NEW a \in Actors, CommitBackup(a)
      PROVE  TypeOK'
  <2>1. /\ jobs' \in [Actors -> Job]
        /\ DOMAIN records' \subseteq Archives
        /\ records' \in [DOMAIN records' -> Record]
    <3>1. /\ jobs' \in [Actors -> Job]
          /\ jobs[a].id \in Archives
          /\ DOMAIN records' = DOMAIN records \cup {jobs[a].id}
          /\ records' \in [DOMAIN records' -> Record]
      BY <1>4, CommitFacts
    <3> QED
      BY <3>1 DEF TypeOK
  <2> QED
    BY <1>4, <2>1, BackupTypes DEF TypeOK, CommitBackup, worldVars, noticeVars
<1>5. ASSUME NEW a \in Actors, Deliver(a)
      PROVE  TypeOK'
  BY <1>5, DeliverFacts, BackupTypes DEF TypeOK, Deliver, worldVars, noticeVars
<1>6. ASSUME NEW a \in Actors, Mark(a)
      PROVE  TypeOK'
  <2>1. /\ jobs' \in [Actors -> Job]
        /\ DOMAIN records' \subseteq Archives
        /\ records' \in [DOMAIN records' -> Record]
    BY <1>6, MarkFacts DEF TypeOK
  <2>2. turn' \in Turns
    BY <1>6 DEF TypeOK, Mark, Turns
  <2> QED
    BY <1>6, <2>1, <2>2, BackupTypes DEF TypeOK, Mark, worldVars, noticeVars
<1> QED
  BY <1>1, <1>2, <1>3, <1>4, <1>5, <1>6 DEF Backup, BeginDaily, BeginManual, Actors

LEMMA AfterType ==
  ASSUME NEW t \in Turns
  PROVE  After(t) \in Turns
  BY DEF After, Turns

LEMMA OpenFacts ==
  ASSUME NEW t \in Nat, NEW todo \in SUBSET Message, NEW seen \in SUBSET Issues,
         Open(t, todo, seen)
  PROVE  /\ notice' \in Notice
         /\ notice'.open
         /\ notice'.at = t /\ notice'.todo = todo /\ notice'.done = {} /\ notice'.seen = seen
  BY DEF Open, Notice

LEMMA KeyType ==
  /\ \A s \in Segments : <<s, 0>> \in Key
  /\ \A p \in {"daily", "weekly"}, n \in Nat : <<p, n>> \in Key
  /\ \A S \in SUBSET Issues : <<"alert", S>> \in Key
  BY DEF Key

LEMMA ToAdminsType ==
  ASSUME NEW k \in Key
  PROVE  ToAdmins(k) \in SUBSET Message /\ \A m \in ToAdmins(k) : m.key = k
  BY DEF ToAdmins, Message

LEMMA NoticeTypes ==
  ASSUME TypeOK, UNCHANGED <<now, worldVars, backupVars>>,
         notice' \in Notice, turn' \in Turns, audit' \subseteq Sent, alerted' \subseteq Issues,
         told' \subseteq [to : Admins \cup Users, key : Key, at : Nat, again : Nat],
         mishaps' \in Nat
  PROVE  TypeOK'
  BY DEF TypeOK, worldVars, backupVars

LEMMA PeriodKeyType ==
  ASSUME turn \in {"daily", "weekly"}, NEW t \in Nat
  PROVE  PeriodKey(t) \in Key /\ PeriodKey(t)[1] = turn
<1>1. Day \in Nat \ {0} /\ Week \in Nat \ {0}
  BY UpkeepAssumption
<1>2. Day * Week \in Nat \ {0}
  BY <1>1
<1>3. t \div Day \in Nat /\ t \div (Day * Week) \in Nat
  BY <1>1, <1>2, Quotient
<1> DEFINE n == IF turn = "daily" THEN t \div Day ELSE t \div (Day * Week)
<1>4. n \in Nat
  BY <1>3
<1>5. PeriodKey(t) = <<turn, n>>
  BY DEF PeriodKey
<1> HIDE DEF n
<1> QED
  BY <1>4, <1>5, KeyType

LEMMA CandidatesType ==
  ASSUME NEW u \in Users
  PROVE  Candidates(u) \subseteq Segments /\ \A s \in Candidates(u) : ~ Deduped(u, s)
<1>1. Lapsed(u) \subseteq Segments
  BY DEF Lapsed, Segments
<1> QED
  BY <1>1 DEF Candidates, Segments

\* What retention is about to send: no row of its window says it has.
LEMMA RetentionFacts ==
  ASSUME TypeOK, BeginRetention
  PROVE  /\ notice' \in Notice /\ notice'.open /\ notice'.at = now /\ notice'.done = {} /\ notice'.seen = {}
         /\ \A m \in notice'.todo :
              \E s \in Segments : m.key = <<s, 0>> /\ ~ Deduped(m.to, s)
<1> DEFINE todo == UNION {[to : {u}, key : Candidates(u) \X {0}] : u \in Users}
<1>1. ASSUME NEW m \in todo
      PROVE  m \in Message /\ \E s \in Segments : m.key = <<s, 0>> /\ ~ Deduped(m.to, s)
  <2>1. PICK u \in Users : m \in [to : {u}, key : Candidates(u) \X {0}]
    BY <1>1
  <2>2. m.to = u /\ m.key \in Candidates(u) \X {0}
    BY <2>1
  <2>3. PICK s \in Candidates(u) : m.key = <<s, 0>>
    BY <2>2
  <2>4. s \in Segments /\ ~ Deduped(u, s)
    BY <2>3, CandidatesType
  <2>5. m.key \in Key
    BY <2>3, <2>4, KeyType
  <2>6. m \in Message
    BY <2>1, <2>2, <2>5 DEF Message
  <2> QED
    BY <2>2, <2>3, <2>4, <2>6
<1>2. now \in Nat /\ todo \in SUBSET Message /\ Open(now, todo, {})
  BY <1>1 DEF BeginRetention, TypeOK
<1> HIDE DEF todo
<1>3. {} \in SUBSET Issues
  OBVIOUS
<1>4. /\ notice' \in Notice
      /\ notice'.open
      /\ notice'.at = now /\ notice'.todo = todo /\ notice'.done = {} /\ notice'.seen = {}
  BY ONLY <1>2, <1>3, OpenFacts
<1> QED
  BY <1>1, <1>4

Told == [to : Admins \cup Users, key : Key, at : Nat, again : Nat]

LEMMA StampType ==
  ASSUME TypeOK, NEW m \in notice.todo
  PROVE  /\ m \in Message
         /\ Stamp(m) \in Sent
         /\ Stamp(m).to = m.to /\ Stamp(m).key = m.key
         /\ m.key[1] \in Segments => Stamp(m).at = notice.at
<1>1. notice \in Notice
  BY DEF TypeOK
<1>2. m \in Message /\ notice.at \in Nat
  BY <1>1 DEF Notice
<1>3. m.to \in Admins \cup Users /\ m.key \in Key
  BY <1>2 DEF Message
<1> QED
  BY <1>2, <1>3 DEF Stamp, Sent

LEMMA ReceiveFacts ==
  ASSUME TypeOK, NEW m \in notice.todo, Receive(m)
  PROVE  \E x \in Told :
           /\ x.to = m.to /\ x.key = m.key /\ x.at = Stamp(m).at
           /\ x.again = 0 \/ \E r \in told : Counts(r, m) /\ x.again = 1 + r.again
           /\ \A r \in told' : r = x \/ r \in told
           /\ told' \subseteq Told
<1> DEFINE last == {r \in told : r.to = m.to /\ r.key[1] = m.key[1]}
           again == {r \in last :
                       /\ r.key = m.key
                       /\ m.key[1] \in Segments => r.at >= notice.at - Window[m.key[1]]}
           n == IF again = {} THEN 0 ELSE 1 + (CHOOSE r \in again : TRUE).again
           x == [to |-> m.to, key |-> m.key, at |-> Stamp(m).at, again |-> n]
<1>1. told' = (told \ last) \cup {x}
  BY DEF Receive
<1>2. told \subseteq Told
  BY DEF TypeOK, Told
<1>3. n \in Nat /\ (n = 0 \/ \E r \in told : Counts(r, m) /\ n = 1 + r.again)
  <2>1. CASE again = {}
    BY <2>1
  <2>2. CASE again # {}
    <3>1. PICK r \in again : r = CHOOSE q \in again : TRUE
      BY <2>2
    <3>2. n = 1 + r.again
      BY <2>2, <3>1
    <3>3. r \in told /\ Counts(r, m)
      BY DEF Counts
    <3>4. r.again \in Nat
      BY <1>2, <3>3 DEF Told
    <3> HIDE DEF n
    <3> QED
      BY <3>2, <3>3, <3>4
  <2> QED
    BY <2>1, <2>2
<1>4. m \in Message /\ Stamp(m) \in Sent
  BY StampType
<1>5. m.to \in Admins \cup Users /\ m.key \in Key /\ Stamp(m).at \in Nat
  BY <1>4 DEF Message, Sent
<1> HIDE DEF n, last
<1>6. x \in Told /\ x.to = m.to /\ x.key = m.key /\ x.at = Stamp(m).at /\ x.again = n
  BY <1>3, <1>5 DEF Told
<1> HIDE DEF x
<1> QED
  BY <1>1, <1>2, <1>3, <1>6

LEMMA NoticeKeepsTypes ==
  ASSUME TypeOK, Notices
  PROVE  TypeOK'
<1> USE DEF worldVars, backupVars
<1>1. /\ now \in Nat /\ broken \subseteq Issues /\ audit \subseteq Sent /\ alerted \subseteq Issues
      /\ turn \in Turns /\ notice \in Notice /\ told \subseteq Told /\ mishaps \in Nat
  BY DEF TypeOK, Told
<1>2. NoNotice \in Notice
  BY NoNoticeType
<1>3. CASE BeginGuard
  <2>1. Found \in SUBSET Issues
    BY <1>1 DEF Found
  <2>2. told' \subseteq Told /\ alerted' \subseteq Issues
    BY <1>1, <1>3 DEF BeginGuard
  <2>3. turn' \in Turns
    BY <1>1, <1>3 DEF BeginGuard, Turns
  <2>4. notice' \in Notice
    <3>1. CASE UNCHANGED notice
      BY <1>1, <3>1
    <3>2. CASE Open(now, ToAdmins(<<"alert", Found>>), Found)
      <4>1. ToAdmins(<<"alert", Found>>) \in SUBSET Message
        BY <2>1, KeyType, ToAdminsType
      <4> QED
        BY <1>1, <2>1, <3>2, <4>1, OpenFacts
    <3> QED
      BY <1>3, <3>1, <3>2 DEF BeginGuard
  <2> QED
    BY <1>1, <1>3, <2>2, <2>3, <2>4, NoticeTypes DEF BeginGuard, Told
<1>4. CASE BeginReport
  <2>1. ReportTime \in Nat
    BY <1>1 DEF ReportTime, Notice
  <2>2. turn' \in Turns
    BY <1>1, <1>4 DEF BeginReport, Turns, AfterDaily
  <2>3. notice' \in Notice
    <3>1. CASE Open(ReportTime, ToAdmins(PeriodKey(ReportTime)), {})
      <4>1. ToAdmins(PeriodKey(ReportTime)) \in SUBSET Message /\ {} \in SUBSET Issues
        BY <1>4, <2>1, PeriodKeyType, ToAdminsType DEF BeginReport
      <4> QED
        BY <2>1, <3>1, <4>1, OpenFacts
    <3>2. CASE notice' = [NoNotice EXCEPT !.at = IF AfterDaily = "weekly" THEN now ELSE 0]
      BY <1>1, <1>2, <3>2 DEF Notice
    <3> QED
      BY <1>4, <3>1, <3>2 DEF BeginReport
  <2> QED
    BY <1>1, <1>4, <2>2, <2>3, NoticeTypes DEF BeginReport, Told
<1>5. CASE BeginRetention
  BY <1>1, <1>5, RetentionFacts, NoticeTypes DEF BeginRetention, Told
<1>6. CASE Tell
  <2>1. PICK m \in notice.todo :
          \/ /\ Receive(m)
             /\ notice' = [notice EXCEPT !.todo = @ \ {m}, !.done = @ \cup {Stamp(m)}]
             /\ UNCHANGED mishaps
          \/ /\ notice' = [notice EXCEPT !.todo = @ \ {m}]
             /\ UNCHANGED <<told, mishaps>>
          \/ /\ mishaps < MaxMishaps /\ mishaps' = mishaps + 1
             /\ Receive(m)
             /\ notice' = [notice EXCEPT !.todo = @ \ {m}]
    BY <1>6 DEF Tell
  <2>2. told' \subseteq Told
    BY <1>1, <2>1, ReceiveFacts
  <2>3. Stamp(m) \in Sent
    BY StampType
  <2>4. notice' \in Notice
    BY <1>1, <2>1, <2>3 DEF Notice
  <2>5. mishaps' \in Nat
    BY <1>1, <2>1
  <2> QED
    BY <1>1, <1>6, <2>2, <2>4, <2>5, NoticeTypes DEF Tell, Told
<1>7. CASE Finish
  <2>1. audit' \subseteq Sent /\ alerted' \subseteq Issues
    BY <1>1, <1>7 DEF Finish, Notice
  <2>2. notice' \in Notice
    BY <1>1, <1>2, <1>7 DEF Finish, Notice
  <2>3. turn' \in Turns
    BY <1>1, <1>7, AfterType DEF Finish
  <2> QED
    BY <1>1, <1>7, <2>1, <2>2, <2>3, NoticeTypes DEF Finish, Told
<1> QED
  BY <1>3, <1>4, <1>5, <1>6, <1>7 DEF Notices

\* A failed pass and a crash take jobs and the open session, and nothing that is stored.
LEMMA MishapFacts ==
  ASSUME TypeOK, FailPass \/ Crash
  PROVE  /\ jobs' \in [Actors -> Job]
         /\ \A a \in Actors : jobs'[a].step = "idle" \/ jobs'[a] = jobs[a]
         /\ notice' = NoNotice \/ UNCHANGED <<notice, turn>>
         /\ turn' # turn => jobs'["worker"].step = "idle"
         /\ turn' \in Turns
         /\ alerted' \in {{}, alerted}
         /\ mishaps' = mishaps + 1
         /\ UNCHANGED <<now, worldVars, records, files, audit, told>>
<1>1. jobs \in [Actors -> Job] /\ turn \in Turns /\ Actors = {"worker", "admin"}
  BY DEF TypeOK, Actors
<1>2. NoJob \in Job /\ NoJob.step = "idle"
  BY NoJobType DEF NoJob
<1>3. CASE Crash
  BY <1>1, <1>2, <1>3 DEF Crash, Turns
<1>4. CASE FailPass
  <2>1. CASE /\ jobs' = [jobs EXCEPT !["worker"] = NoJob]
             /\ notice' = NoNotice
             /\ turn' = IF turn = "daily" THEN "retention" ELSE After(turn)
    <3>1. turn' \in Turns
      BY <1>1, <2>1, AfterType DEF Turns
    <3> QED
      BY <1>1, <1>2, <1>4, <2>1, <3>1 DEF FailPass
  <2>2. CASE /\ jobs' = [jobs EXCEPT !["admin"] = NoJob]
             /\ UNCHANGED <<notice, turn>>
    BY <1>1, <1>2, <1>4, <2>2 DEF FailPass
  <2> QED
    BY <1>4, <2>1, <2>2 DEF FailPass
<1> QED
  BY <1>3, <1>4

LEMMA WorldKeepsTypes ==
  ASSUME TypeOK, WorldChanges
  PROVE  TypeOK'
<1> USE DEF backupVars, noticeVars
<1>1. changes' \in Nat
  BY DEF TypeOK, WorldChanges
<1>2. broken' \subseteq Issues /\ online' \in BOOLEAN
  BY DEF TypeOK, WorldChanges
<1>3. life' \in [Users -> Life]
  <2>1. life \in [Users -> Life] /\ now \in Nat /\ Length \in Nat
    BY UpkeepAssumption DEF TypeOK
  <2>2. ASSUME NEW l \in Life, NEW trial \in BOOLEAN
        PROVE  Bought(l, trial) \in Life
    <3>1. l.count \in 0..2 /\ l.ends \in Nat \cup {Never}
      BY <2>2 DEF Life
    <3>2. (IF l.count = 2 THEN 2 ELSE l.count + 1) \in 0..2
      BY <3>1
    <3>3. (IF Active(l, now) THEN l.ends + Length ELSE now + Length) \in Nat
      BY <2>1, <3>1 DEF Active, Never
    <3> QED
      BY <2>1, <2>2, <3>2, <3>3 DEF Bought, Life
  <2>3. CASE UNCHANGED life
    BY <2>1, <2>3
  <2>4. CASE \E u \in Users :
               \/ \E trial \in BOOLEAN : life' = [life EXCEPT ![u] = Bought(@, trial)]
               \/ life' = [life EXCEPT ![u].link = FALSE]
               \/ life' = [life EXCEPT ![u].skipped = ~@]
    <3>1. PICK u \in Users :
               \/ \E trial \in BOOLEAN : life' = [life EXCEPT ![u] = Bought(@, trial)]
               \/ life' = [life EXCEPT ![u].link = FALSE]
               \/ life' = [life EXCEPT ![u].skipped = ~@]
      BY <2>4
    <3>2. life[u] \in Life
      BY <2>1
    <3>3. CASE \E trial \in BOOLEAN : life' = [life EXCEPT ![u] = Bought(@, trial)]
      BY <2>1, <2>2, <3>2, <3>3
    <3>4. CASE life' = [life EXCEPT ![u].link = FALSE]
      <4>1. [life[u] EXCEPT !.link = FALSE] \in Life
        BY <3>2 DEF Life
      <4> QED
        BY <2>1, <3>4, <4>1
    <3>5. CASE life' = [life EXCEPT ![u].skipped = ~@]
      <4>1. [life[u] EXCEPT !.skipped = ~@] \in Life
        BY <3>2 DEF Life
      <4> QED
        BY <2>1, <3>5, <4>1
    <3> QED
      BY <3>1, <3>3, <3>4, <3>5
  <2> QED
    BY <2>3, <2>4 DEF WorldChanges
<1> QED
  BY <1>1, <1>2, <1>3 DEF TypeOK, WorldChanges

LEMMA TypesStep ==
  ASSUME TypeOK, JobsInv, [Next]_vars
  PROVE  TypeOK'
<1>1. CASE Tick
  BY <1>1 DEF Tick, TypeOK, worldVars, backupVars, noticeVars
<1>2. CASE WorldChanges
  BY <1>2, WorldKeepsTypes
<1>3. CASE Backup
  BY <1>3, BackupKeepsTypes
<1>4. CASE Notices
  BY <1>4, NoticeKeepsTypes
<1>5. CASE FailPass \/ Crash
  <2>1. notice' \in Notice /\ alerted' \subseteq Issues /\ mishaps' \in Nat
    BY <1>5, MishapFacts, NoNoticeType DEF TypeOK
  <2> QED
    BY <1>5, <2>1, MishapFacts DEF TypeOK, worldVars
<1>6. CASE UNCHANGED vars
  BY <1>6 DEF vars, TypeOK, worldVars, backupVars, noticeVars
<1>7. CASE Outage \/ Recover
  <2>1. online' \in BOOLEAN
    BY <1>7 DEF Outage, Recover
  <2>2. mishaps \in Nat /\ mishaps' \in {mishaps, mishaps + 1}
    BY <1>7 DEF Outage, Recover, TypeOK
  <2>3. mishaps' \in Nat
    BY <2>2
  <2>4. /\ UNCHANGED <<now, broken, life, changes, turn>>
        /\ UNCHANGED backupVars /\ UNCHANGED noticeVars
    BY <1>7 DEF Outage, Recover
  <2> QED
    BY <2>1, <2>3, <2>4 DEF TypeOK, backupVars, noticeVars
<1> QED
  BY <1>1, <1>2, <1>3, <1>4, <1>5, <1>6, <1>7 DEF Next

-----------------------------------------------------------------------------
(* Backups *)

\* Clock, records, files and jobs alone matter, and time only makes records older.
LEMMA BackupFrame ==
  ASSUME TypeOK, BackupInv, now' \in Nat, now' >= now, UNCHANGED <<records, files, jobs>>,
         turn' = turn \/ jobs["worker"].step = "idle"
  PROVE  BackupInv'
<1>1. /\ now \in Nat /\ records \in [DOMAIN records -> Record]
      /\ files \in [DOMAIN files -> Nat] /\ jobs \in [Actors -> Job] /\ KeepFor \in Nat
  BY UpkeepAssumption DEF TypeOK
<1>2. \A i \in DOMAIN records : records[i].at \in Nat
  BY <1>1 DEF Record
<1>3. \A a \in Actors : jobs[a].at \in Nat
  BY <1>1 DEF Job
<1>4. JobsInv'
  BY DEF BackupInv, JobsInv
<1>5. Archived'
  BY <1>1, <1>2 DEF BackupInv, Archived
<1>6. Unrecorded'
  BY <1>1, <1>3 DEF BackupInv, Unrecorded
<1>7. Recorded' /\ OneDaily'
  BY DEF BackupInv, Recorded, OneDaily, IsDaily
<1>8. Kept'
  BY <1>1, <1>2 DEF BackupInv, Kept
<1> QED
  BY <1>4, <1>5, <1>6, <1>7, <1>8 DEF BackupInv

LEMMA ArchiveStep ==
  ASSUME TypeOK, BackupInv, NEW a \in Actors, Archive(a), jobs[a].step = "idle",
         UNCHANGED <<now, records, turn>>,
         a = "worker" => turn = "backup" /\ DailyOf(now \div Day) = {}
  PROVE  BackupInv'
<1>1. /\ now \in Nat /\ records \in [DOMAIN records -> Record]
      /\ files \in [DOMAIN files -> Nat] /\ jobs \in [Actors -> Job] /\ KeepFor \in Nat
  BY UpkeepAssumption DEF TypeOK
<1>2. PICK n \in Free :
        /\ n \in Archives
        /\ jobs' \in [Actors -> Job]
        /\ jobs'[a].step = "prune" /\ jobs'[a].id = n /\ jobs'[a].at = now
        /\ \A b \in Actors \ {a} : jobs'[b] = jobs[b]
        /\ DOMAIN files' = DOMAIN files \cup {n}
        /\ files'[n] = now
        /\ \A j \in DOMAIN files \ {n} : files'[j] = files[j]
  BY ArchiveFacts
<1>3. n \notin DOMAIN files /\ n \notin DOMAIN records /\ \A b \in Actors : n # jobs[b].id
  BY <1>2 DEF Free
<1>4. JobsInv'
  BY <1>2, <1>3 DEF BackupInv, JobsInv, Actors
<1>5. Archived'
  BY <1>1, <1>2, <1>3 DEF BackupInv, Archived
<1>6. Unrecorded'
  BY <1>1, <1>2, <1>3 DEF BackupInv, Unrecorded
<1>7. Recorded'
  BY <1>2, <1>3 DEF BackupInv, Recorded
<1>8. Kept'
  BY <1>2, <1>3 DEF BackupInv, Kept
<1>9. OneDaily'
  <2>1. CASE a = "worker"
    BY <1>2, <2>1 DEF BackupInv, OneDaily, IsDaily, DailyOf, Actors
  <2>2. CASE a # "worker"
    BY <1>2, <2>2 DEF BackupInv, OneDaily, IsDaily, Actors
  <2> QED
    BY <2>1, <2>2
<1> QED
  BY <1>4, <1>5, <1>6, <1>7, <1>8, <1>9 DEF BackupInv

LEMMA PruneStep ==
  ASSUME TypeOK, BackupInv, NEW a \in Actors, Prune(a)
  PROVE  BackupInv'
<1> DEFINE t == PruneTime(a)
<1>1. /\ now \in Nat /\ records \in [DOMAIN records -> Record]
      /\ files \in [DOMAIN files -> Nat] /\ jobs \in [Actors -> Job] /\ KeepFor \in Nat
      /\ UNCHANGED <<now, records, turn>>
  BY UpkeepAssumption DEF TypeOK, Prune
<1>2. /\ \A i \in DOMAIN records : records[i].at \in Nat
      /\ \A b \in Actors : jobs[b].at \in Nat
  BY <1>1 DEF Record, Job
<1>3. PICK old \in SUBSET DOMAIN records, gone \in SUBSET DOMAIN files :
        /\ jobs[a].step = "prune"
        /\ \A i \in old : records[i].at < t - KeepFor /\ records[i].status # "pruned"
        /\ \A i \in gone : files[i] < t - KeepFor
        /\ DOMAIN files' = DOMAIN files \ (old \cup gone)
        /\ files' \in [DOMAIN files' -> Nat]
        /\ \A j \in DOMAIN files' : files'[j] = files[j]
        /\ jobs' \in [Actors -> Job]
        /\ jobs'[a].step = "commit" /\ jobs'[a].pruned = old
        /\ jobs'[a].id = jobs[a].id /\ jobs'[a].at = jobs[a].at
        /\ \A b \in Actors \ {a} : jobs'[b] = jobs[b]
  BY PruneFacts
<1>4. t \in Nat /\ t <= now
  BY <1>1, <1>2, <1>3 DEF BackupInv, Unrecorded, PruneTime
<1> HIDE DEF t
<1>5. /\ \A i \in old : records[i].at < now - KeepFor
      /\ \A i \in gone : files[i] < now - KeepFor
  BY <1>1, <1>2, <1>3, <1>4
<1>6. JobsInv'
  BY <1>1, <1>3 DEF BackupInv, JobsInv, Actors
<1>7. Archived'
  BY <1>1, <1>3 DEF BackupInv, Archived
<1>8. Unrecorded'
  <2> SUFFICES ASSUME NEW b \in Actors, jobs'[b].step \in {"prune", "commit"}
               PROVE  /\ jobs'[b].id \notin DOMAIN records
                      /\ jobs'[b].at <= now
                      /\ jobs'[b].id \in DOMAIN files' => files'[jobs'[b].id] = jobs'[b].at
                      /\ jobs'[b].at >= now - KeepFor => jobs'[b].id \in DOMAIN files'
    BY <1>1 DEF Unrecorded
  <2>1. jobs[b].step \in {"prune", "commit"} /\ jobs'[b].id = jobs[b].id /\ jobs'[b].at = jobs[b].at
    BY <1>3
  <2>2. /\ jobs[b].id \notin DOMAIN records
        /\ jobs[b].at <= now
        /\ jobs[b].id \in DOMAIN files => files[jobs[b].id] = jobs[b].at
        /\ jobs[b].at >= now - KeepFor => jobs[b].id \in DOMAIN files
    BY <2>1 DEF BackupInv, Unrecorded
  <2>3. ASSUME jobs[b].at >= now - KeepFor
        PROVE  jobs[b].id \in DOMAIN files'
    <3>1. jobs[b].id \notin old
      BY <2>2
    <3>2. jobs[b].id \notin gone
      BY <1>1, <1>2, <1>5, <2>2, <2>3
    <3> QED
      BY <1>3, <2>2, <2>3, <3>1, <3>2
  <2> QED
    BY <1>3, <2>1, <2>2, <2>3
<1>9. Recorded'
  BY <1>1, <1>3 DEF BackupInv, Recorded
<1>10. Kept'
  <2> SUFFICES ASSUME NEW i \in DOMAIN records
               PROVE  /\ records[i].at >= now - KeepFor => i \in DOMAIN files'
                      /\ records[i].status = "pruned" => i \notin DOMAIN files'
    BY <1>1 DEF Kept
  <2>1. /\ records[i].at >= now - KeepFor => i \in DOMAIN files
        /\ records[i].status = "pruned" => i \notin DOMAIN files
        /\ i \in DOMAIN files => files[i] = records[i].at
    BY DEF BackupInv, Kept, Archived
  <2> QED
    BY <1>1, <1>2, <1>3, <1>5, <2>1
<1>11. OneDaily'
  BY <1>1, <1>3 DEF BackupInv, OneDaily, IsDaily, Actors
<1> QED
  BY <1>6, <1>7, <1>8, <1>9, <1>10, <1>11 DEF BackupInv

LEMMA CommitBackupStep ==
  ASSUME TypeOK, BackupInv, NEW a \in Actors, CommitBackup(a)
  PROVE  BackupInv'
<1> DEFINE n == jobs[a].id
<1>1. /\ now \in Nat /\ records \in [DOMAIN records -> Record]
      /\ files \in [DOMAIN files -> Nat] /\ jobs \in [Actors -> Job] /\ KeepFor \in Nat
      /\ UNCHANGED <<now, files, turn>>
  BY UpkeepAssumption DEF TypeOK, CommitBackup
<1>2. /\ jobs[a].step = "commit"
      /\ DOMAIN records' = DOMAIN records \cup {n}
      /\ records'[n].label = LabelOf(a) /\ records'[n].at = jobs[a].at
      /\ records'[n].status = "created"
      /\ \A j \in DOMAIN records \ {n} :
           /\ records'[j].label = records[j].label
           /\ records'[j].at = records[j].at
           /\ records'[j].status = IF j \in jobs[a].pruned THEN "pruned" ELSE records[j].status
      /\ jobs' \in [Actors -> Job]
      /\ jobs'[a].step = "deliver"
      /\ jobs'[a].id = n
      /\ \A b \in Actors \ {a} : jobs'[b] = jobs[b]
  BY CommitFacts DEF BackupInv
<1>3. /\ n \notin DOMAIN records
      /\ jobs[a].at <= now
      /\ n \in DOMAIN files => files[n] = jobs[a].at
      /\ jobs[a].at >= now - KeepFor => n \in DOMAIN files
  BY <1>2 DEF BackupInv, Unrecorded
<1>4. jobs[a].pruned \subseteq DOMAIN records \ DOMAIN files
  BY <1>2 DEF BackupInv, Recorded
<1>5. JobsInv'
  BY <1>1, <1>2 DEF BackupInv, JobsInv, Actors
<1>6. \A b \in Actors \ {a} : jobs[b].step # "idle" => jobs[b].id # n
  BY <1>2 DEF BackupInv, JobsInv, Actors
<1> HIDE DEF n
<1>7. Archived'
  BY <1>1, <1>2, <1>3 DEF BackupInv, Archived
<1>8. Unrecorded'
  BY <1>1, <1>2, <1>6 DEF BackupInv, Unrecorded
<1>9. Recorded'
  BY <1>1, <1>2 DEF BackupInv, Recorded
<1>10. Kept'
  BY <1>1, <1>2, <1>3, <1>4 DEF BackupInv, Kept
<1>11. OneDaily'
  <2>1. CASE a = "worker"
    <3>1. \A i \in DOMAIN records : ~ IsDaily(i, jobs[a].at \div Day)
      BY <1>2, <2>1 DEF BackupInv, OneDaily
    <3>2. \A i, j \in DOMAIN records :
            records[i].label = "daily" /\ IsDaily(j, records[i].at \div Day) => i = j
      BY DEF BackupInv, OneDaily
    <3>3. jobs'["worker"].step \notin {"prune", "commit"}
      BY <1>2, <2>1
    <3> QED
      BY <1>2, <1>3, <3>1, <3>2, <3>3 DEF OneDaily, IsDaily
  <2>2. CASE a = "admin"
    <3>1. records'[n].label = "manual"
      BY <1>2, <2>2 DEF LabelOf
    <3>2. jobs'["worker"] = jobs["worker"]
      BY <1>2, <2>2 DEF Actors
    <3> QED
      BY <1>2, <1>3, <3>1, <3>2 DEF BackupInv, OneDaily, IsDaily, Actors
  <2> QED
    BY <2>1, <2>2 DEF Actors
<1> QED
  BY <1>5, <1>7, <1>8, <1>9, <1>10, <1>11 DEF BackupInv

LEMMA DeliverStep ==
  ASSUME TypeOK, BackupInv, NEW a \in Actors, Deliver(a)
  PROVE  BackupInv'
<1>1. UNCHANGED <<now, records, files, turn>>
  BY DEF Deliver
<1>2. /\ jobs[a].step = "deliver"
      /\ jobs'[a].step = "mark"
      /\ jobs'[a].id = jobs[a].id
      /\ \A b \in Actors \ {a} : jobs'[b] = jobs[b]
  BY DeliverFacts
<1>3. JobsInv'
  BY <1>1, <1>2 DEF BackupInv, JobsInv, Actors
<1>4. Archived' /\ Kept'
  BY <1>1 DEF BackupInv, Archived, Kept
<1>5. Unrecorded'
  BY <1>1, <1>2 DEF BackupInv, Unrecorded
<1>6. Recorded'
  BY <1>1, <1>2 DEF BackupInv, Recorded
<1>7. OneDaily'
  BY <1>1, <1>2 DEF BackupInv, OneDaily, IsDaily, Actors
<1> QED
  BY <1>3, <1>4, <1>5, <1>6, <1>7 DEF BackupInv

LEMMA MarkStep ==
  ASSUME TypeOK, BackupInv, NEW a \in Actors, Mark(a)
  PROVE  BackupInv'
<1>1. UNCHANGED <<now, files>>
  BY DEF Mark
<1>2. /\ jobs[a].step = "mark"
      /\ DOMAIN records' = DOMAIN records
      /\ \A j \in DOMAIN records :
           /\ records'[j].label = records[j].label
           /\ records'[j].at = records[j].at
           /\ records'[j].status \in {"sent", "send_failed", records[j].status}
      /\ jobs'[a].step = "idle"
      /\ \A b \in Actors \ {a} : jobs'[b] = jobs[b]
  BY MarkFacts
<1>3. JobsInv'
  <2>1. jobs'["worker"].step # "idle" => turn' = turn
    BY <1>2 DEF Mark
  <2> QED
    BY <1>2, <2>1 DEF BackupInv, JobsInv, Actors
<1>4. Archived'
  BY <1>1, <1>2 DEF BackupInv, Archived
<1>5. Unrecorded'
  BY <1>1, <1>2 DEF BackupInv, Unrecorded
<1>6. Recorded'
  BY <1>1, <1>2 DEF BackupInv, Recorded
<1>7. Kept'
  BY <1>1, <1>2 DEF BackupInv, Kept
<1>8. OneDaily'
  BY <1>1, <1>2 DEF BackupInv, OneDaily, IsDaily, Actors
<1> QED
  BY <1>3, <1>4, <1>5, <1>6, <1>7, <1>8 DEF BackupInv

\* A job that is taken away leaves an archive without a record, or a record as it is.
LEMMA MishapBackupStep ==
  ASSUME TypeOK, BackupInv, FailPass \/ Crash
  PROVE  BackupInv'
<1>1. /\ \A a \in Actors : jobs'[a].step = "idle" \/ jobs'[a] = jobs[a]
      /\ turn' # turn => jobs'["worker"].step = "idle"
      /\ UNCHANGED <<now, records, files>>
  BY MishapFacts
<1>2. JobsInv'
  BY <1>1 DEF BackupInv, JobsInv, Actors
<1>3. Archived' /\ Kept'
  BY <1>1 DEF BackupInv, Archived, Kept
<1>4. Unrecorded'
  BY <1>1 DEF BackupInv, Unrecorded
<1>5. Recorded'
  BY <1>1 DEF BackupInv, Recorded
<1>6. OneDaily'
  BY <1>1 DEF BackupInv, OneDaily, IsDaily, Actors
<1> QED
  BY <1>2, <1>3, <1>4, <1>5, <1>6 DEF BackupInv

\* The worker's job and a session that sends messages exclude each other.
LEMMA BackupStep ==
  ASSUME TypeOK, BackupInv, NoticeInv, [Next]_vars
  PROVE  BackupInv'
<1>1. now \in Nat
  BY DEF TypeOK
<1>2. CASE Tick
  BY <1>1, <1>2, BackupFrame DEF Tick, backupVars
<1>3. CASE WorldChanges \/ UNCHANGED vars
  BY <1>1, <1>3, BackupFrame DEF WorldChanges, vars, backupVars
<1>4. CASE BeginDaily
  BY <1>4, ArchiveStep DEF BeginDaily, BackupDue, Actors
<1>5. CASE SkipDaily
  BY <1>1, <1>5, BackupFrame DEF SkipDaily, backupVars
<1>6. CASE BeginManual
  BY <1>6, ArchiveStep DEF BeginManual, Actors
<1>7. CASE \E a \in Actors : Prune(a) \/ CommitBackup(a) \/ Deliver(a) \/ Mark(a)
  BY <1>7, PruneStep, CommitBackupStep, DeliverStep, MarkStep
<1>8. CASE Notices
  <2>1. turn # "backup" \/ UNCHANGED turn
    BY <1>8 DEF Notices, BeginGuard, BeginReport, BeginRetention, Tell, Finish, NoticeInv
  <2>2. turn' = turn \/ jobs["worker"].step = "idle"
    BY <2>1 DEF BackupInv, JobsInv, Actors
  <2>3. UNCHANGED <<now, records, files, jobs>>
    BY <1>8 DEF Notices, BeginGuard, BeginReport, BeginRetention, Tell, Finish, backupVars
  <2> QED
    BY <1>1, <2>2, <2>3, BackupFrame
<1>9. CASE FailPass \/ Crash
  BY <1>9, MishapBackupStep
<1>10. CASE Outage \/ Recover
  BY <1>1, <1>10, BackupFrame DEF Outage, Recover, backupVars
<1> QED
  BY <1>2, <1>3, <1>4, <1>5, <1>6, <1>7, <1>8, <1>9, <1>10 DEF Next, Backup

-----------------------------------------------------------------------------
(* Messages *)

LEMMA TellFacts ==
  ASSUME TypeOK, Tell
  PROVE  \E m \in notice.todo :
           /\ notice.open
           /\ notice'.open /\ notice'.at = notice.at /\ notice'.seen = notice.seen
           /\ notice'.todo = notice.todo \ {m}
           /\ \/ /\ Receive(m) /\ mishaps' = mishaps
                 /\ notice'.done = notice.done \cup {Stamp(m)}
              \/ /\ notice'.done = notice.done
                 /\ UNCHANGED <<told, mishaps>>
              \/ /\ Receive(m) /\ mishaps' = mishaps + 1
                 /\ notice'.done = notice.done
           /\ UNCHANGED <<audit, alerted, turn>>
<1>1. PICK m \in notice.todo :
        \/ /\ Receive(m)
           /\ notice' = [notice EXCEPT !.todo = @ \ {m}, !.done = @ \cup {Stamp(m)}]
           /\ UNCHANGED mishaps
        \/ /\ notice' = [notice EXCEPT !.todo = @ \ {m}]
           /\ UNCHANGED <<told, mishaps>>
        \/ /\ mishaps < MaxMishaps /\ mishaps' = mishaps + 1
           /\ Receive(m)
           /\ notice' = [notice EXCEPT !.todo = @ \ {m}]
  BY DEF Tell
<1>2. notice \in Notice
  BY DEF TypeOK
<1>3. /\ notice'.open = notice.open /\ notice'.at = notice.at /\ notice'.seen = notice.seen
      /\ notice'.todo = notice.todo \ {m}
      /\ \/ notice'.done = notice.done \cup {Stamp(m)} /\ Receive(m) /\ UNCHANGED mishaps
         \/ notice'.done = notice.done /\ UNCHANGED <<told, mishaps>>
         \/ notice'.done = notice.done /\ Receive(m) /\ mishaps' = mishaps + 1
  BY <1>1, <1>2 DEF Notice
<1> QED
  BY <1>3 DEF Tell

LEMMA FinishFacts ==
  ASSUME TypeOK, Finish
  PROVE  /\ notice.open /\ notice.todo = {}
         /\ ~ notice'.open /\ notice'.todo = {} /\ notice'.done = {}
         /\ IF turn = "guard"
            THEN /\ alerted' = IF notice.done # {} THEN notice.seen ELSE alerted
                 /\ audit' = audit
            ELSE audit' = audit \cup notice.done /\ alerted' = alerted
         /\ UNCHANGED <<told, mishaps>>
<1>1. NoNotice \in Notice /\ NoNotice.open = FALSE /\ NoNotice.todo = {} /\ NoNotice.done = {}
  BY NoNoticeType DEF NoNotice
<1> QED
  BY <1>1 DEF Finish, Notice

\* How a session that will send messages begins.
LEMMA BeginFacts ==
  ASSUME TypeOK, NoticeInv, BeginGuard \/ BeginReport \/ BeginRetention
  PROVE  /\ ~notice.open /\ notice.done = {} /\ notice'.done = {}
         /\ told' \subseteq told
         /\ UNCHANGED <<audit, mishaps>>
         /\ ~notice'.open => notice'.todo = {}
         /\ notice'.open => UNCHANGED turn
<1>1. ~notice.open /\ notice.todo = {} /\ notice.done = {}
  BY DEF NoticeInv, BeginGuard, BeginReport, BeginRetention
<1>2. NoNotice \in Notice /\ NoNotice.open = FALSE /\ NoNotice.todo = {} /\ NoNotice.done = {}
  BY NoNoticeType DEF NoNotice
<1>3. CASE BeginGuard
  BY <1>1, <1>3 DEF BeginGuard, Open
<1>4. CASE BeginReport
  BY <1>1, <1>2, <1>4 DEF BeginReport, Open, Notice
<1>5. CASE BeginRetention
  BY <1>1, <1>5 DEF BeginRetention, Open
<1> QED
  BY <1>3, <1>4, <1>5

\* An alert is about what the guard has found and not yet told.
LEMMA GuardFacts ==
  ASSUME TypeOK, NoticeInv, BeginGuard, notice'.open
  PROVE  /\ turn = "guard" /\ UNCHANGED <<turn, alerted>>
         /\ notice'.seen \notin {{}, alerted}
         /\ \A m \in notice'.todo : m.key = <<"alert", notice'.seen>>
         /\ \A r \in told' : r.key[1] = "alert" => r.key[2] = notice'.seen
         /\ online
<1>1. ~notice.open
  BY DEF BeginGuard
<1>2. Open(now, ToAdmins(<<"alert", Found>>), Found) /\ Found \notin {{}, alerted}
  BY <1>1 DEF BeginGuard
<1>3. notice'.todo = ToAdmins(<<"alert", Found>>) /\ notice'.seen = Found
  BY <1>2 DEF Open
<1>4. <<"alert", Found>> \in Key
  BY KeyType DEF Found, TypeOK
<1>5. \A m \in notice'.todo : m.key = <<"alert", Found>>
  BY <1>3, <1>4, ToAdminsType
<1>6. online
  BY <1>2 DEF Found
<1> QED
  BY <1>2, <1>3, <1>5, <1>6 DEF BeginGuard

\* A report is about a period that no row names.
LEMMA ReportFacts ==
  ASSUME TypeOK, NoticeInv, BeginReport, notice'.open
  PROVE  /\ turn \in {"daily", "weekly"} /\ UNCHANGED alerted
         /\ notice'.seen = {}
         /\ \A m \in notice'.todo : m.key[1] = turn /\ \A a \in audit : a.key # m.key
<1>1. notice \in Notice /\ now \in Nat
  BY DEF TypeOK
<1>2. NoNotice \in Notice /\ NoNotice.open = FALSE
  BY NoNoticeType DEF NoNotice
<1>3. Open(ReportTime, ToAdmins(PeriodKey(ReportTime)), {}) /\ ReportDue
  BY <1>2 DEF BeginReport, Notice
<1>4. ReportTime \in Nat
  BY <1>1 DEF ReportTime, Notice
<1>5. PeriodKey(ReportTime) \in Key /\ PeriodKey(ReportTime)[1] = turn
  BY <1>4, PeriodKeyType DEF BeginReport
<1>6. \A m \in notice'.todo : m.key = PeriodKey(ReportTime)
  BY <1>3, <1>5, ToAdminsType DEF Open
<1>7. notice'.seen = {}
  BY <1>3 DEF Open
<1> QED
  BY <1>3, <1>5, <1>6, <1>7 DEF BeginReport, ReportDue

LEMMA NoticeFrame ==
  ASSUME NoticeInv, notice' = notice, told' \subseteq told,
         turn' = turn \/ ~notice.open
  PROVE  NoticeInv'
  BY DEF NoticeInv

LEMMA NoticeStep ==
  ASSUME TypeOK, JobsInv, NoticeInv, [Next]_vars
  PROVE  NoticeInv'
<1>1. CASE Tick \/ WorldChanges \/ Outage \/ Recover \/ UNCHANGED vars
  BY <1>1, NoticeFrame DEF Tick, WorldChanges, Outage, Recover, vars, noticeVars
<1>2. CASE Backup
  <2>1. turn = "backup" \/ UNCHANGED turn
    <3>1. ASSUME NEW a \in Actors, Mark(a)
          PROVE  turn = "backup" \/ UNCHANGED turn
      BY <3>1, MarkFacts DEF Mark, JobsInv
    <3> QED
      BY <1>2, <3>1 DEF Backup, BeginDaily, SkipDaily, BeginManual, Prune, CommitBackup, Deliver
  <2>2. UNCHANGED <<notice, told>>
    BY <1>2 DEF Backup, BeginDaily, SkipDaily, BeginManual, Prune, CommitBackup, Deliver, Mark,
                noticeVars
  <2>3. turn' = turn \/ ~notice.open
    BY <2>1 DEF NoticeInv
  <2> QED
    BY <2>2, <2>3, NoticeFrame
<1>3. CASE BeginGuard
  <2>1. /\ ~notice.open /\ notice.done = {} /\ notice'.done = {}
        /\ told' \subseteq told
        /\ ~notice'.open => notice'.todo = {}
    BY <1>3, BeginFacts
  <2>2. CASE notice'.open
    BY <1>3, <2>1, <2>2, GuardFacts DEF NoticeInv
  <2>3. CASE ~notice'.open
    BY <2>1, <2>3 DEF NoticeInv
  <2> QED
    BY <2>2, <2>3
<1>4. CASE BeginReport
  <2>1. /\ ~notice.open /\ notice.done = {} /\ notice'.done = {}
        /\ told' \subseteq told
        /\ ~notice'.open => notice'.todo = {}
        /\ notice'.open => UNCHANGED turn
    BY <1>4, BeginFacts
  <2>2. CASE notice'.open
    BY <1>4, <2>1, <2>2, ReportFacts DEF NoticeInv
  <2>3. CASE ~notice'.open
    BY <2>1, <2>3 DEF NoticeInv
  <2> QED
    BY <2>2, <2>3
<1>5. CASE BeginRetention
  <2>1. /\ ~notice.open /\ notice'.done = {}
        /\ told' \subseteq told
        /\ turn' = "retention"
    BY <1>5, BeginFacts DEF BeginRetention
  <2>2. /\ notice'.open /\ notice'.seen = {}
        /\ \A m \in notice'.todo : m.key[1] \in Segments
    BY <1>5, RetentionFacts
  <2> QED
    BY <2>1, <2>2 DEF NoticeInv, Segments
<1>6. CASE Tell
  <2>1. PICK m \in notice.todo :
          /\ notice.open
          /\ notice'.open /\ notice'.seen = notice.seen
          /\ notice'.todo = notice.todo \ {m}
          /\ notice'.done = notice.done \/ notice'.done = notice.done \cup {Stamp(m)}
          /\ Receive(m) \/ told' = told
          /\ UNCHANGED turn
    BY <1>6, TellFacts
  <2>2. Stamp(m).key = m.key
    BY StampType
  <2>3. \A r \in told' : r \in told \/ r.key = m.key
    BY <2>1, ReceiveFacts
  <2> QED
    BY <2>1, <2>2, <2>3 DEF NoticeInv
<1>7. CASE Finish
  BY <1>7, FinishFacts DEF NoticeInv
<1>8. CASE FailPass \/ Crash
  <2>1. notice' = NoNotice \/ UNCHANGED <<notice, turn>>
    BY <1>8, MishapFacts
  <2>2. UNCHANGED told
    BY <1>8, MishapFacts
  <2>3. CASE notice' = NoNotice
    BY <2>2, <2>3 DEF NoticeInv, NoNotice
  <2> QED
    BY <2>1, <2>2, <2>3, NoticeFrame
<1> QED
  BY <1>1, <1>2, <1>3, <1>4, <1>5, <1>6, <1>7, <1>8 DEF Next, Notices

\* A session begins with messages that nothing remembers.
LEMMA BeginRepeat ==
  ASSUME TypeOK, NoticeInv, RepeatInv, OutageInv, BeginGuard \/ BeginReport \/ BeginRetention
  PROVE  RepeatInv'
<1>1. /\ ~notice.open /\ notice.done = {} /\ notice'.done = {}
      /\ told' \subseteq told
      /\ UNCHANGED <<audit, mishaps>>
      /\ ~notice'.open => notice'.todo = {}
  BY BeginFacts
<1>2. \A r \in told' : r.key[1] = "alert" /\ online => (r.key[2] = alerted => r.key[2] = alerted')
  BY <1>1 DEF BeginGuard, BeginReport, BeginRetention, NoticeInv
<1>3. ASSUME NEW r \in told', ~ Remembered(r)'
      PROVE  r.again < mishaps
  <2>1. r \in told
    BY <1>1, <1>3
  <2>2. CASE r.key[1] = "alert" /\ ~online
    BY <2>1, <2>2 DEF OutageInv
  <2>3. CASE ~(r.key[1] = "alert" /\ ~online)
    <3>1. ~ Remembered(r)
      BY <1>1, <1>2, <1>3, <2>3 DEF Remembered, Row
    <3> QED
      BY <2>1, <3>1 DEF RepeatInv
  <2> QED
    BY <2>2, <2>3
<1>4. ASSUME NEW m \in notice'.todo, NEW r \in told', Counts(r, m)'
      PROVE  ~ Remembered(r)
  <2>1. r \in told /\ r.to = m.to /\ r.key = m.key /\ notice'.open
    BY <1>1, <1>4 DEF Counts
  <2>2. CASE BeginGuard
    <3>1. m.key = <<"alert", notice'.seen>> /\ notice'.seen # alerted
      BY <2>1, <2>2, <1>4, GuardFacts
    <3> QED
      BY <1>1, <2>1, <3>1 DEF Remembered
  <2>3. CASE BeginReport
    <3>1. m.key[1] \in {"daily", "weekly"} /\ \A a \in audit : a.key # m.key
      BY <2>1, <2>3, <1>4, ReportFacts
    <3>2. Row(r).key = m.key
      BY <2>1 DEF Row
    <3> QED
      BY <1>1, <2>1, <3>1, <3>2 DEF Remembered
  <2>4. CASE BeginRetention
    <3>1. PICK s \in Segments : m.key = <<s, 0>> /\ ~ Deduped(m.to, s)
      BY <2>4, <1>4, RetentionFacts
    <3>2. notice'.at = now
      BY <2>4, RetentionFacts
    <3>3. m.key[1] = s /\ s # "alert"
      BY <3>1 DEF Segments
    <3>4. r.at >= now - Window[s]
      BY <1>4, <3>1, <3>2, <3>3 DEF Counts
    <3>5. Row(r).to = m.to /\ Row(r).key = <<s, 0>> /\ Row(r).at = r.at
      BY <2>1, <3>1 DEF Row
    <3>6. Row(r) \notin audit
      BY <3>1, <3>4, <3>5 DEF Deduped
    <3> QED
      BY <1>1, <2>1, <3>3, <3>6 DEF Remembered
  <2> QED
    BY <2>2, <2>3, <2>4
<1> QED
  BY <1>1, <1>3, <1>4 DEF RepeatInv

LEMMA TellRepeat ==
  ASSUME TypeOK, NoticeInv, RepeatInv, Tell
  PROVE  RepeatInv'
<1>1. PICK m \in notice.todo :
        /\ notice.open
        /\ notice'.open /\ notice'.at = notice.at /\ notice'.seen = notice.seen
        /\ notice'.todo = notice.todo \ {m}
        /\ \/ /\ Receive(m) /\ mishaps' = mishaps
              /\ notice'.done = notice.done \cup {Stamp(m)}
           \/ /\ notice'.done = notice.done
              /\ UNCHANGED <<told, mishaps>>
           \/ /\ Receive(m) /\ mishaps' = mishaps + 1
              /\ notice'.done = notice.done
        /\ UNCHANGED <<audit, alerted, turn>>
  BY TellFacts
<1>2. told \subseteq Told /\ mishaps \in Nat
  BY DEF TypeOK, Told
<1>3. \A r \in told : r.again \in Nat
  BY <1>2 DEF Told
<1>4. notice.done \subseteq notice'.done
  BY <1>1
<1>5. ASSUME NEW r \in told, Remembered(r)
      PROVE  Remembered(r)'
  BY <1>1, <1>4, <1>5 DEF Remembered, Row
<1>6. mishaps' \in Nat /\ mishaps <= mishaps'
  BY <1>1, <1>2
<1>7. ASSUME NEW r \in told
      PROVE  /\ r.again <= mishaps'
             /\ ~ Remembered(r)' => r.again < mishaps'
             /\ \A n \in notice'.todo : Counts(r, n)' => r.again < mishaps'
  <2>1. /\ r.again <= mishaps
        /\ ~ Remembered(r)' => r.again < mishaps
        /\ \A n \in notice.todo : Counts(r, n) => r.again < mishaps
    BY <1>5 DEF RepeatInv
  <2>2. \A n \in notice'.todo : n \in notice.todo /\ (Counts(r, n)' => Counts(r, n))
    BY <1>1 DEF Counts
  <2> QED
    BY <1>2, <1>3, <1>6, <2>1, <2>2
<1>8. CASE UNCHANGED told
  BY <1>7, <1>8 DEF RepeatInv
<1>9. CASE /\ Receive(m)
           /\ mishaps' = mishaps + 1 \/ notice'.done = notice.done \cup {Stamp(m)}
  <2>1. PICK x \in Told :
          /\ x.to = m.to /\ x.key = m.key /\ x.at = Stamp(m).at
          /\ x.again = 0 \/ \E r \in told : Counts(r, m) /\ x.again = 1 + r.again
          /\ \A r \in told' : r = x \/ r \in told
    BY <1>9, ReceiveFacts
  <2>2. x.again <= mishaps
    BY <1>2, <1>3, <2>1 DEF RepeatInv
  <2>3. x.again \in Nat
    BY <2>1 DEF Told
  <2>4. \A n \in notice'.todo : ~ Counts(x, n)'
    <3> SUFFICES ASSUME NEW n \in notice'.todo, x.to = n.to, x.key = n.key
                 PROVE  FALSE
      BY DEF Counts
    <3>1. n \in Message /\ m \in Message /\ n # m
      BY <1>1 DEF TypeOK, Notice
    <3>2. n.to = m.to /\ n.key = m.key
      BY <2>1
    <3> QED
      BY <3>1, <3>2 DEF Message
  <2>5. ~ Remembered(x)' => x.again < mishaps'
    <3>1. CASE mishaps' = mishaps + 1
      BY <1>2, <2>2, <2>3, <3>1
    <3>2. CASE Stamp(m) \in notice'.done
      <4>1. CASE x.key[1] = "alert"
        <5>1. x.key[2] = notice.seen
          BY <2>1, <4>1 DEF NoticeInv
        <5>2. x.key[2] = notice'.seen
          BY <1>1, <5>1
        <5> QED
          BY <3>2, <4>1, <5>2 DEF Remembered
      <4>2. CASE x.key[1] # "alert"
        <5>1. Stamp(m) = [to |-> x.to, key |-> x.key, at |-> x.at]
          BY <2>1 DEF Stamp
        <5>2. Row(x)' \in audit' \cup notice'.done
          BY <3>2, <5>1 DEF Row
        <5>3. Remembered(x)'
          BY <4>2, <5>2 DEF Remembered
        <5> QED
          BY <5>3
      <4> QED
        BY <4>1, <4>2
    <3> QED
      BY <1>9, <3>1, <3>2
  <2>6. x.again <= mishaps'
    BY <1>2, <1>6, <2>2, <2>3
  <2> QED
    BY <1>7, <2>1, <2>4, <2>5, <2>6 DEF RepeatInv
<1> QED
  BY <1>1, <1>8, <1>9

LEMMA FinishRepeat ==
  ASSUME TypeOK, NoticeInv, RepeatInv, Finish
  PROVE  RepeatInv'
<1>1. /\ notice.open
      /\ notice'.todo = {} /\ notice'.done = {}
      /\ IF turn = "guard"
         THEN /\ alerted' = IF notice.done # {} THEN notice.seen ELSE alerted
              /\ audit' = audit
         ELSE audit' = audit \cup notice.done /\ alerted' = alerted
      /\ UNCHANGED <<told, mishaps>>
  BY FinishFacts
<1>2. ASSUME NEW r \in told, Remembered(r)
      PROVE  Remembered(r)'
  <2>1. CASE r.key[1] = "alert"
    <3>1. CASE turn = "guard"
      <4>1. r.key[2] = notice.seen
        BY <1>1, <2>1, <3>1 DEF NoticeInv
      <4>2. r.key[2] = alerted'
        BY <1>1, <1>2, <2>1, <3>1, <4>1 DEF Remembered
      <4> QED
        BY <2>1, <4>2 DEF Remembered
    <3>2. CASE turn # "guard"
      <4>1. notice.seen = {} /\ r.key[2] # {}
        BY <1>1, <2>1, <3>2 DEF NoticeInv
      <4>2. r.key[2] = alerted'
        BY <1>1, <1>2, <2>1, <3>2, <4>1 DEF Remembered
      <4> QED
        BY <2>1, <4>2 DEF Remembered
    <3> QED
      BY <3>1, <3>2
  <2>2. CASE r.key[1] # "alert"
    <3>1. Row(r).key = r.key /\ Row(r) \in audit \cup notice.done
      BY <1>2, <2>2 DEF Remembered, Row
    <3>2. CASE turn = "guard"
      <4>1. Row(r) \notin notice.done
        BY <1>1, <2>2, <3>1, <3>2 DEF NoticeInv
      <4> QED
        BY <1>1, <2>2, <3>1, <3>2, <4>1 DEF Remembered, Row
    <3>3. CASE turn # "guard"
      BY <1>1, <2>2, <3>1, <3>3 DEF Remembered, Row
    <3> QED
      BY <3>2, <3>3
  <2> QED
    BY <2>1, <2>2
<1> QED
  BY <1>1, <1>2 DEF RepeatInv

\* What a mishap forgets is counted by it.
LEMMA MishapRepeat ==
  ASSUME TypeOK, RepeatInv, UNCHANGED told, mishaps' = mishaps + 1
  PROVE  RepeatInv'
<1>1. mishaps \in Nat /\ \A r \in told : r.again \in Nat
  BY DEF TypeOK
<1>2. \A r \in told : r.again < mishaps'
  BY <1>1 DEF RepeatInv
<1>3. \A r \in told : r.again <= mishaps'
  BY <1>1 DEF RepeatInv
<1> QED
  BY <1>2, <1>3 DEF RepeatInv

LEMMA RepeatFrame ==
  ASSUME RepeatInv, UNCHANGED <<audit, alerted, notice, told, mishaps>>
  PROVE  RepeatInv'
  BY DEF RepeatInv, Remembered, Row, Counts

LEMMA RepeatStep ==
  ASSUME TypeOK, NoticeInv, RepeatInv, OutageInv, [Next]_vars
  PROVE  RepeatInv'
<1>1. CASE Tick \/ WorldChanges \/ Recover \/ UNCHANGED vars
  BY <1>1, RepeatFrame DEF Tick, WorldChanges, Recover, vars, noticeVars
<1>2. CASE Backup
  BY <1>2, RepeatFrame
     DEF Backup, BeginDaily, SkipDaily, BeginManual, Prune, CommitBackup, Deliver, Mark, noticeVars
<1>3. CASE Notices
  BY <1>3, BeginRepeat, TellRepeat, FinishRepeat DEF Notices
<1>4. CASE FailPass \/ Crash
  BY <1>4, MishapFacts, MishapRepeat
<1>5. CASE Outage
  BY <1>5, MishapRepeat DEF Outage, noticeVars
<1> QED
  BY <1>1, <1>2, <1>3, <1>4, <1>5 DEF Next

\* What an open pass tells during an outage leaves the outage uncounted.
LEMMA TellOutage ==
  ASSUME TypeOK, OutageInv, Tell
  PROVE  OutageInv'
<1>1. PICK m \in notice.todo :
        /\ notice'.at = notice.at
        /\ notice'.todo = notice.todo \ {m}
        /\ \/ Receive(m) /\ mishaps' \in {mishaps, mishaps + 1}
           \/ UNCHANGED <<told, mishaps>>
  BY TellFacts
<1>2. told \subseteq Told /\ mishaps \in Nat /\ online' = online
  BY DEF TypeOK, Told, Tell, worldVars
<1>3. \A r \in told : r.again \in Nat
  BY <1>2 DEF Told
<1> SUFFICES ASSUME ~online PROVE OutageInv'
  BY <1>2 DEF OutageInv
<1>4. mishaps' \in Nat /\ mishaps <= mishaps' /\ mishaps' > 0
  BY <1>1, <1>2 DEF OutageInv
<1>5. ASSUME NEW r \in told
      PROVE  /\ r.key[1] = "alert" => r.again < mishaps'
             /\ \A n \in notice'.todo : n.key[1] = "alert" /\ Counts(r, n)' => r.again + 1 < mishaps'
  <2>1. /\ r.key[1] = "alert" => r.again < mishaps
        /\ \A n \in notice.todo : n.key[1] = "alert" /\ Counts(r, n) => r.again + 1 < mishaps
    BY DEF OutageInv
  <2>2. \A n \in notice'.todo : n \in notice.todo /\ (Counts(r, n)' => Counts(r, n))
    BY <1>1 DEF Counts
  <2> QED
    BY <1>2, <1>3, <1>4, <2>1, <2>2
<1>6. CASE UNCHANGED told
  BY <1>2, <1>4, <1>5, <1>6 DEF OutageInv
<1>7. CASE Receive(m)
  <2>1. PICK x \in Told :
          /\ x.to = m.to /\ x.key = m.key /\ x.at = Stamp(m).at
          /\ x.again = 0 \/ \E r \in told : Counts(r, m) /\ x.again = 1 + r.again
          /\ \A r \in told' : r = x \/ r \in told
    BY <1>7, ReceiveFacts
  <2>2. \A n \in notice'.todo : ~ Counts(x, n)'
    <3> SUFFICES ASSUME NEW n \in notice'.todo, x.to = n.to, x.key = n.key
                 PROVE  FALSE
      BY DEF Counts
    <3>1. n \in Message /\ m \in Message /\ n # m
      BY <1>1 DEF TypeOK, Notice
    <3>2. n.to = m.to /\ n.key = m.key
      BY <2>1
    <3> QED
      BY <3>1, <3>2 DEF Message
  <2>3. x.key[1] = "alert" => x.again < mishaps'
    <3>1. CASE x.again = 0
      BY <1>4, <3>1
    <3>2. CASE x.key[1] = "alert" /\ \E r \in told : Counts(r, m) /\ x.again = 1 + r.again
      <4>1. PICK r \in told : Counts(r, m) /\ x.again = 1 + r.again
        BY <3>2
      <4>2. m.key[1] = "alert"
        BY <2>1, <3>2
      <4>3. r.again + 1 < mishaps
        BY <4>1, <4>2 DEF OutageInv
      <4> QED
        BY <1>2, <1>3, <1>4, <4>1, <4>3
    <3> QED
      BY <2>1, <3>1, <3>2
  <2> QED
    BY <1>2, <1>4, <1>5, <2>1, <2>2, <2>3 DEF OutageInv
<1> QED
  BY <1>1, <1>6, <1>7

\* An outage is a mishap that no alert has counted, and no alert is begun during it.
LEMMA OutageStep ==
  ASSUME TypeOK, NoticeInv, RepeatInv, OutageInv, [Next]_vars
  PROVE  OutageInv'
<1>1. mishaps \in Nat /\ \A r \in told : r.again \in Nat
  BY DEF TypeOK
<1>2. CASE Tick \/ WorldChanges \/ Backup \/ UNCHANGED vars
  <2>1. UNCHANGED <<online, notice, told, mishaps>>
    BY <1>2 DEF Tick, WorldChanges, Backup, BeginDaily, SkipDaily, BeginManual, Prune,
                CommitBackup, Deliver, Mark, vars, worldVars, noticeVars
  <2> QED
    BY <2>1 DEF OutageInv, Counts
<1>3. CASE BeginGuard \/ BeginReport \/ BeginRetention
  <2>1. told' \subseteq told /\ UNCHANGED <<online, mishaps>>
    BY <1>3, BeginFacts DEF BeginGuard, BeginReport, BeginRetention, worldVars
  <2>2. CASE ~online
    <3>1. \A m \in notice'.todo : m.key[1] # "alert"
      <4>1. CASE ~notice'.open
        BY <1>3, <4>1, BeginFacts
      <4>2. CASE notice'.open /\ BeginGuard
        BY <2>2, <4>2, GuardFacts
      <4>3. CASE notice'.open /\ BeginReport
        BY <4>3, ReportFacts
      <4>4. CASE BeginRetention
        BY <4>4, RetentionFacts DEF Segments
      <4> QED
        BY <1>3, <4>1, <4>2, <4>3, <4>4
    <3> QED
      BY <2>1, <2>2, <3>1 DEF OutageInv
  <2> QED
    BY <2>1, <2>2 DEF OutageInv
<1>4. CASE Tell
  BY <1>4, TellOutage
<1>5. CASE Finish
  <2>1. notice'.todo = {} /\ UNCHANGED <<online, told, mishaps>>
    BY <1>5, FinishFacts DEF Finish, worldVars
  <2> QED
    BY <2>1 DEF OutageInv
<1>6. CASE FailPass \/ Crash \/ Outage
  <2>1. /\ mishaps' = mishaps + 1 /\ told' = told
        /\ notice' = notice \/ notice'.todo = {}
    <3>1. NoNotice.todo = {}
      BY DEF NoNotice
    <3> QED
      BY <1>6, <3>1, MishapFacts DEF Outage, noticeVars
  <2>2. mishaps' > 0 /\ \A r \in told' : r.again < mishaps'
    BY <1>1, <2>1 DEF RepeatInv
  <2>3. \A m \in notice'.todo : \A r \in told' : Counts(r, m)' => r.again + 1 < mishaps'
    <3> SUFFICES ASSUME NEW m \in notice'.todo, NEW r \in told', Counts(r, m)'
                 PROVE  r.again + 1 < mishaps'
      OBVIOUS
    <3>1. m \in notice.todo /\ r \in told /\ Counts(r, m)
      BY <2>1 DEF Counts
    <3>2. r.again < mishaps
      BY <3>1 DEF RepeatInv
    <3> QED
      BY <1>1, <2>1, <3>1, <3>2
  <2> QED
    BY <2>2, <2>3 DEF OutageInv
<1>7. CASE Recover
  BY <1>7 DEF Recover, OutageInv
<1> QED
  BY <1>2, <1>3, <1>4, <1>5, <1>6, <1>7 DEF Next, Notices

-----------------------------------------------------------------------------
(* The theorems *)

LEMMA InitInv == Init => IInv
<1> SUFFICES ASSUME Init PROVE IInv
  OBVIOUS
<1>1. jobs = [a \in Actors |-> NoJob] /\ \A a \in Actors : jobs[a].step = "idle"
  BY DEF Init, NoJob
<1>2. notice.open = FALSE /\ notice.todo = {} /\ notice.done = {}
  BY DEF Init, NoNotice
<1>3. TypeOK
  <2>1. life \in [Users -> Life]
    BY DEF Init, Life, Never
  <2>2. notice \in Notice /\ jobs \in [Actors -> Job]
    BY NoNoticeType, NoJobType DEF Init
  <2>3. /\ DOMAIN records \subseteq Archives /\ records \in [DOMAIN records -> Record]
        /\ DOMAIN files \subseteq Archives /\ files \in [DOMAIN files -> Nat]
    BY DEF Init
  <2>4. /\ now \in Nat /\ {changes, mishaps} \subseteq Nat
        /\ broken \subseteq Issues /\ online \in BOOLEAN /\ turn \in Turns
        /\ audit \subseteq Sent /\ alerted \subseteq Issues
        /\ told \subseteq [to : Admins \cup Users, key : Key, at : Nat, again : Nat]
    BY DEF Init, Turns
  <2> QED
    BY <2>1, <2>2, <2>3, <2>4 DEF TypeOK
<1>4. BackupInv
  BY <1>1 DEF BackupInv, Init, JobsInv, Archived, Unrecorded, Recorded, Kept, OneDaily, Actors
<1>5. NoticeInv
  BY <1>2 DEF NoticeInv, Init
<1>6. RepeatInv
  BY <1>2 DEF RepeatInv, Init
<1>7. OutageInv
  BY DEF OutageInv, Init
<1> QED
  BY <1>3, <1>4, <1>5, <1>6, <1>7 DEF IInv

\* The invariant is inductive, for every schedule of the worker, the admin, the users
\* and the mishaps.
THEOREM UpkeepInvariant == Spec => []IInv
<1>1. IInv /\ [Next]_vars => IInv'
  BY TypesStep, BackupStep, NoticeStep, RepeatStep, OutageStep DEF IInv, BackupInv
<1> QED
  BY InitInv, <1>1, PTL DEF Spec

\* Clock, tables, files, jobs and messages keep the types of the code's columns.
THEOREM UpkeepTypes == Spec => []TypeOK
  BY UpkeepInvariant, PTL DEF IInv

\* apply_backup_retention unlinks files before its session commits: a record of the
\* last KeepFor has its archive all the same, one that says pruned has none, and
\* run_scheduled_backup_cycle makes one daily backup of a day, whatever passes fail.
THEOREM BackupsAreKept == Spec => []BackupsKept
<1>1. IInv => BackupsKept
  <2> SUFFICES ASSUME IInv PROVE BackupsKept
    OBVIOUS
  <2>1. \A i \in DOMAIN records :
          /\ records[i].at >= now - KeepFor => i \in DOMAIN files
          /\ records[i].status = "pruned" => i \notin DOMAIN files
    BY DEF IInv, BackupInv, Kept
  <2>2. ASSUME NEW day \in 0..(now \div Day)
        PROVE  Cardinality(DailyOf(day)) <= 1
    <3>1. \A i, j \in DailyOf(day) : i = j
      BY DEF IInv, BackupInv, OneDaily, IsDaily, DailyOf
    <3>2. CASE DailyOf(day) = {}
      BY <3>2, FS_EmptySet
    <3>3. CASE DailyOf(day) # {}
      <4>1. PICK i \in DailyOf(day) : DailyOf(day) = {i}
        BY <3>1, <3>3
      <4>2. Cardinality({i}) = 1
        BY ONLY FS_Singleton
      <4> QED
        BY <4>1, <4>2
    <3> QED
      BY <3>2, <3>3
  <2> QED
    BY <2>1, <2>2 DEF BackupsKept
<1> QED
  BY UpkeepInvariant, <1>1, PTL

\* An alert, a report or a segment's message comes again only for a pass that failed, a
\* restart, a lost answer or an outage of getMe, one for each: what was told is in a row,
\* in the guard's fingerprint or in the pass that will commit it.
THEOREM RepeatsOnlyForMishaps == Spec => []RepeatsNeedMishaps
<1>1. IInv => RepeatsNeedMishaps
  BY DEF IInv, RepeatInv, RepeatsNeedMishaps
<1> QED
  BY UpkeepInvariant, <1>1, PTL

=============================================================================
