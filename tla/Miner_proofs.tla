------------------------------ MODULE Miner_proofs ------------------------------
(***************************************************************************)
(* Theorems about one miner's connection, for any number of jobs, tracked  *)
(* jobs, retargets and mining.configure messages, any buffer of the        *)
(* broadcast and any set of difficulties.                                  *)
(***************************************************************************)
EXTENDS Miner, SequenceTheorems, TLAPS

-----------------------------------------------------------------------------
(* Types *)

Job == 0 .. MaxJob
V1s == MaxJob + 1 .. MaxJob + issues  \* the ids drawn so far
JobEntry == [id : Nat, job : Job]
Message == [v1 : Nat, job : Job, calm : BOOLEAN]

BridgeTypes ==
    /\ sentJob \in Job /\ lastNotify \in Job
    /\ phase \in {"away", "opened", "running", "closing", "closed"}
    /\ feed \in Seq(Job)
    /\ firstJob \in JobEntry
    /\ configures \in Nat
    /\ diff \in Diffs

\* RecentJobs: every id in the maps was issued.
IssuedTypes(issued) ==
    /\ issued = [v1 \in DOMAIN issued |-> issued[v1]]
    /\ \A v1 \in DOMAIN issued :
          /\ v1 \in V1s
          /\ issued[v1] \in [v2 : Nat, job : Job, diff : Diffs]

RecentTypes ==
    /\ issues \in Nat
    /\ recent = [issued |-> recent.issued, lastV2s |-> recent.lastV2s, jobs |-> recent.jobs]
    /\ IssuedTypes(recent.issued)
    /\ recent.lastV2s \in Seq(Nat)
    /\ recent.jobs \in Seq(JobEntry)

\* The messages on their way to the miner: a task holds one from its issue to its
\* sending.
Sending == {"seeded", "difficulty", "sending"}

NotifierTypes ==
    /\ notifier \in [pc : {"none", "auth", "listening", "over", "ended"} \cup Sending,
                     held : Message]
    /\ notifier.pc \in Sending => notifier.held.v1 \in V1s
    /\ notifier.pc \notin Sending => notifier.held = NoHeld

Task == [pc : {"off", "idle", "decided", "announced", "reissued"},
         diff : Diffs \cup {0}, held : Message]

UpdateTypes ==
    /\ update \in [Updaters -> Task]
    /\ \A x \in Updaters :
          /\ update[x].pc = "reissued" => update[x].held.v1 \in V1s
          /\ update[x].pc # "reissued" => update[x].held = NoHeld
          /\ Busy(x) => update[x].diff \in Diffs

\* Who retargets: the update task once the first job is out, the rate-limit task once
\* the first difficulty is.
Started ==
    /\ notifier.pc \in {"none", "auth", "seeded"} => update["limit"].pc = "off"
    /\ notifier.pc \in {"none", "auth", "seeded", "difficulty"} => update["update"].pc = "off"

ToldTypes ==
    /\ told = [v1 \in DOMAIN told |-> told[v1]]
    /\ DOMAIN told \subseteq V1s

MinerTypes ==
    BridgeTypes /\ RecentTypes /\ NotifierTypes /\ UpdateTypes /\ Started /\ ToldTypes

-----------------------------------------------------------------------------
(* What RecentJobs makes of one more id *)

Known(r, n) == \E v1 \in DOMAIN r.issued : r.issued[v1].v2 = n.id

\* s is r with job n issued as v1, under difficulty d.
Issued(r, s, n, d, v1) ==
    /\ v1 \in DOMAIN s.issued
    /\ s.issued[v1] = [v2 |-> n.id, job |-> n.job, diff |-> d]
    /\ \A v \in DOMAIN s.issued \ {v1} : v \in DOMAIN r.issued /\ s.issued[v] = r.issued[v]
    /\ \A v \in DOMAIN r.issued \ DOMAIN s.issued :
          ~Known(r, n) /\ Len(r.lastV2s) = Tracked /\ r.issued[v].v2 = Head(r.lastV2s)
    /\ s.lastV2s = CASE Known(r, n) -> r.lastV2s
                     [] ~Known(r, n) /\ Len(r.lastV2s) = Tracked ->
                           Append(Tail(r.lastV2s), n.id)
                     [] OTHER -> Append(r.lastV2s, n.id)

LEMMA NewV1Issues ==
    ASSUME RecentTypes, NEW v \in FreshV1s, NEW n \in JobEntry, NEW d \in Diffs
    PROVE  /\ Issued(recent, NewV1(recent, v, n, d), n, d, v)
           /\ NewV1(recent, v, n, d).jobs = recent.jobs
           /\ NewV1(recent, v, n, d) = [issued |-> NewV1(recent, v, n, d).issued,
                                        lastV2s |-> NewV1(recent, v, n, d).lastV2s,
                                        jobs |-> recent.jobs]
           /\ NewV1(recent, v, n, d).issued =
                 [v1 \in DOMAIN NewV1(recent, v, n, d).issued |-> NewV1(recent, v, n, d).issued[v1]]
<1> DEFINE full == ~Known(recent, n) /\ Len(recent.lastV2s) = Tracked
           kept == IF full THEN WithoutV2(recent.issued, Head(recent.lastV2s)) ELSE recent.issued
           entry == [v2 |-> n.id, job |-> n.job, diff |-> d]
           ids == CASE Known(recent, n) -> recent.lastV2s
                    [] full -> Append(Tail(recent.lastV2s), n.id)
                    [] OTHER -> Append(recent.lastV2s, n.id)
           s == NewV1(recent, v, n, d)
<1>1. s = [issued |-> Put(kept, v, entry), lastV2s |-> ids, jobs |-> recent.jobs]
  <2>1. s = [recent EXCEPT !.issued = Put(kept, v, entry), !.lastV2s = ids]
    BY Zenon DEF NewV1, Known
  <2>2. ASSUME NEW a, NEW b
        PROVE  [recent EXCEPT !.issued = a, !.lastV2s = b]
                  = [issued |-> a, lastV2s |-> b, jobs |-> recent.jobs]
    <3>1. [recent EXCEPT !.issued = a]
             = [issued |-> a, lastV2s |-> recent.lastV2s, jobs |-> recent.jobs]
      BY DEF RecentTypes
    <3>2. [[issued |-> a, lastV2s |-> recent.lastV2s, jobs |-> recent.jobs] EXCEPT !.lastV2s = b]
             = [issued |-> a, lastV2s |-> b, jobs |-> recent.jobs]
      OBVIOUS
    <3> QED
      BY <3>1, <3>2
  <2> QED
    BY <2>1, <2>2, Zenon
<1>2. v \notin DOMAIN recent.issued
  BY DEF FreshV1s
<1>3. /\ DOMAIN kept \subseteq DOMAIN recent.issued
      /\ \A u \in DOMAIN kept : kept[u] = recent.issued[u]
      /\ \A u \in DOMAIN recent.issued \ DOMAIN kept :
            full /\ recent.issued[u].v2 = Head(recent.lastV2s)
  BY DEF WithoutV2
<1> HIDE DEF kept, ids, entry
<1>4. /\ s.issued = Put(kept, v, entry) /\ s.lastV2s = ids /\ s.jobs = recent.jobs
  BY <1>1
<1> HIDE DEF s
<1>5. /\ DOMAIN s.issued = DOMAIN kept \cup {v}
      /\ s.issued[v] = entry
      /\ \A u \in DOMAIN kept : u # v => s.issued[u] = kept[u]
      /\ s.issued = [v1 \in DOMAIN s.issued |-> s.issued[v1]]
  BY <1>4 DEF Put
<1>6. /\ \A u \in DOMAIN s.issued \ {v} : u \in DOMAIN recent.issued /\ s.issued[u] = recent.issued[u]
      /\ \A u \in DOMAIN recent.issued \ DOMAIN s.issued : full /\ recent.issued[u].v2 = Head(recent.lastV2s)
  BY <1>3, <1>5
<1>7. Issued(recent, s, n, d, v)
  BY <1>4, <1>5, <1>6 DEF Issued, ids, entry
<1> QED
  BY <1>1, <1>4, <1>5, <1>7 DEF s

\* The id that a step draws: it joins the maps.
NewId == CHOOSE v \in FreshV1s : v \in DOMAIN recent'.issued

LEMMA NewIdIs ==
    ASSUME NEW v \in FreshV1s, NEW r, NEW n, NEW d, recent' = r, Issued(recent, r, n, d, v)
    PROVE  NewId = v
<1>1. \A u \in FreshV1s : u \in DOMAIN recent'.issued <=> u = v
  BY DEF Issued, FreshV1s
<1> QED
  BY <1>1 DEF NewId

LEMMA DrawnIds ==
    ASSUME RecentTypes, NEW v \in FreshV1s, Draw(v)
    PROVE  /\ issues' \in Nat /\ v \in Nat /\ v # 0 /\ v \in V1s'
           /\ V1s \subseteq V1s' /\ v \notin DOMAIN recent.issued
<1>1. issues \in Nat /\ MaxJob \in Nat /\ v \in MaxJob + 1 .. MaxJob + issues + 1
  BY MinerAssumption DEF RecentTypes, FreshV1s
<1>2. issues' = IF v > MaxJob + issues THEN issues + 1 ELSE issues
  BY DEF Draw
<1>3. v \notin DOMAIN recent.issued
  BY DEF FreshV1s
<1> QED
  BY <1>1, <1>2, <1>3 DEF V1s

\* Two steps of RecentJobs: a job is added, or the last one gets one more id.
IssueStep(n, d) ==
    /\ n \in JobEntry /\ d \in Diffs
    /\ NewId \in FreshV1s /\ Draw(NewId)
    /\ Issued(recent, recent', n, d, NewId)
    /\ recent' = [issued |-> recent'.issued, lastV2s |-> recent'.lastV2s, jobs |-> recent'.jobs]
    /\ recent'.issued = [v1 \in DOMAIN recent'.issued |-> recent'.issued[v1]]

AddStep(n, d) ==
    /\ IssueStep(n, d)
    /\ recent'.jobs \in Seq(JobEntry)
    /\ recent'.jobs # <<>>
    /\ LastJob(recent') = n
    /\ \A i \in DOMAIN recent'.jobs :
          recent'.jobs[i] = n \/ \E j \in DOMAIN recent.jobs : recent'.jobs[i] = recent.jobs[j]

CloneStep(n, d) ==
    /\ IssueStep(n, d)
    /\ recent.jobs # <<>>
    /\ recent'.jobs = recent.jobs
    /\ n = LastJob(recent)

LEMMA CloneLastIssues ==
    ASSUME RecentTypes, NEW v \in FreshV1s, NEW d \in Diffs, recent.jobs # <<>>,
           recent' = CloneLast(recent, v, d), Draw(v)
    PROVE  CloneStep(LastJob(recent), d) /\ NewId = v
<1>1. LastJob(recent) \in JobEntry
  BY DEF RecentTypes, LastJob
<1>2. recent' = NewV1(recent, v, LastJob(recent), d)
  BY DEF CloneLast
<1> DEFINE s == NewV1(recent, v, LastJob(recent), d)
<1>3. /\ Issued(recent, s, LastJob(recent), d, v) /\ s.jobs = recent.jobs
      /\ s = [issued |-> s.issued, lastV2s |-> s.lastV2s, jobs |-> recent.jobs]
      /\ s.issued = [v1 \in DOMAIN s.issued |-> s.issued[v1]]
  BY <1>1, NewV1Issues
<1> HIDE DEF s
<1>4. /\ Issued(recent, recent', LastJob(recent), d, v) /\ recent'.jobs = recent.jobs
      /\ recent' = [issued |-> recent'.issued, lastV2s |-> recent'.lastV2s, jobs |-> recent'.jobs]
      /\ recent'.issued = [v1 \in DOMAIN recent'.issued |-> recent'.issued[v1]]
  BY <1>2, <1>3, Zenon DEF s
<1>5. NewId = v
  BY <1>4, NewIdIs
<1> QED
  BY <1>1, <1>4, <1>5, Zenon DEF CloneStep, IssueStep

LEMMA AddJobIssues ==
    ASSUME RecentTypes, NEW v \in FreshV1s, NEW n \in JobEntry, NEW d \in Diffs,
           recent' = AddJob(recent, v, n, d), Draw(v)
    PROVE  AddStep(n, d) /\ NewId = v
<1> DEFINE s == NewV1(recent, v, n, d)
           added == Append(recent.jobs, n)
           jobs == IF Len(added) > Tracked THEN Tail(added) ELSE added
<1>1. /\ Issued(recent, s, n, d, v)
      /\ s = [issued |-> s.issued, lastV2s |-> s.lastV2s, jobs |-> recent.jobs]
      /\ s.issued = [v1 \in DOMAIN s.issued |-> s.issued[v1]]
      /\ s.jobs = recent.jobs
  BY NewV1Issues, Zenon
<1>2. recent' = [s EXCEPT !.jobs = jobs]
  BY <1>1, Zenon DEF AddJob
<1> HIDE DEF s
<1>3. /\ recent' = [issued |-> s.issued, lastV2s |-> s.lastV2s, jobs |-> jobs]
  <2>1. ASSUME NEW q PROVE [s EXCEPT !.jobs = q] = [issued |-> s.issued, lastV2s |-> s.lastV2s, jobs |-> q]
    BY <1>1
  <2> QED
    BY <1>2, <2>1, Zenon
<1>4. /\ added \in Seq(JobEntry) /\ Len(added) = Len(recent.jobs) + 1
      /\ added[Len(added)] = n
      /\ \A i \in 1 .. Len(recent.jobs) : added[i] = recent.jobs[i]
  BY AppendProperties DEF RecentTypes
<1>5. /\ jobs \in Seq(JobEntry) /\ jobs # <<>> /\ jobs[Len(jobs)] = n
      /\ \A i \in DOMAIN jobs : \E j \in DOMAIN added : jobs[i] = added[j]
  <2> HIDE DEF added
  <2>1. CASE Len(added) > Tracked
    <3>1. added # <<>> /\ Len(added) > 1
      BY <1>4, <2>1, MinerAssumption DEF RecentTypes
    <3>2. Tail(added) \in Seq(JobEntry) /\ Len(Tail(added)) = Len(added) - 1
          /\ \A i \in 1 .. Len(Tail(added)) : Tail(added)[i] = added[i + 1]
      BY <1>4, <3>1
    <3>3. jobs = Tail(added)
      BY <2>1
    <3> HIDE DEF jobs
    <3>4. /\ jobs # <<>> /\ Len(jobs) + 1 = Len(added) /\ Len(jobs) \in 1 .. Len(jobs)
          /\ DOMAIN jobs = 1 .. Len(jobs) /\ DOMAIN added = 1 .. Len(added)
      <4>1. added \in Seq(JobEntry) /\ jobs \in Seq(JobEntry)
        BY <1>4, <3>2, <3>3
      <4>2. Len(jobs) = Len(added) - 1 /\ Len(added) > 1
        BY <3>1, <3>2, <3>3
      <4>3. /\ Len(added) \in Nat /\ Len(jobs) \in Nat
            /\ DOMAIN jobs = 1 .. Len(jobs) /\ DOMAIN added = 1 .. Len(added)
        BY <4>1
      <4>4. Len(jobs) >= 1 /\ Len(jobs) + 1 = Len(added)
        BY <4>2, <4>3
      <4>5. Len(jobs) \in 1 .. Len(jobs)
        BY <4>3, <4>4
      <4>6. jobs # <<>>
        <5>1. Len(<<>>) = 0
          OBVIOUS
        <5> QED
          BY <4>4, <5>1
      <4> QED
        BY <4>3, <4>4, <4>5, <4>6, Zenon
    <3>5. \A i \in DOMAIN jobs : i + 1 \in DOMAIN added /\ jobs[i] = added[i + 1]
      BY <3>2, <3>3, <3>4
    <3> QED
      BY <1>4, <3>2, <3>3, <3>4, <3>5
  <2>2. CASE ~(Len(added) > Tracked)
    BY <1>4, <2>2 DEF RecentTypes
  <2> QED
    BY <2>1, <2>2
<1>6. \A i \in DOMAIN jobs : jobs[i] = n \/ \E j \in DOMAIN recent.jobs : jobs[i] = recent.jobs[j]
  <2> HIDE DEF jobs, added
  <2>1. ASSUME NEW j \in DOMAIN added
        PROVE  added[j] = n \/ (j \in DOMAIN recent.jobs /\ added[j] = recent.jobs[j])
    <3>1. /\ DOMAIN added = 1 .. Len(added) /\ Len(added) \in Nat
          /\ DOMAIN recent.jobs = 1 .. Len(recent.jobs) /\ Len(recent.jobs) \in Nat
      BY <1>4 DEF RecentTypes
    <3> QED
      BY <1>4, <3>1
  <2> QED
    BY <1>5, <2>1
<1> HIDE DEF jobs
<1>7. /\ recent'.jobs = jobs /\ recent'.issued = s.issued /\ recent'.lastV2s = s.lastV2s
      /\ recent' = [issued |-> recent'.issued, lastV2s |-> recent'.lastV2s, jobs |-> recent'.jobs]
  BY <1>3
<1>8. Issued(recent, recent', n, d, v)
  BY <1>1, <1>7, Zenon DEF Issued
<1>9. recent'.issued = [v1 \in DOMAIN recent'.issued |-> recent'.issued[v1]]
  BY <1>1, <1>7
<1>10. LastJob(recent') = n
  BY <1>5, <1>7 DEF LastJob
<1>11. NewId = v
  BY <1>8, NewIdIs
<1>12. IssueStep(n, d)
  BY <1>7, <1>8, <1>9, <1>11, Zenon DEF IssueStep
<1> QED
  BY <1>5, <1>6, <1>7, <1>10, <1>11, <1>12 DEF AddStep

LEMMA IssueKeepsTypes ==
    ASSUME RecentTypes, NEW n, NEW d, AddStep(n, d) \/ CloneStep(n, d)
    PROVE  RecentTypes'
<1>1. IssueStep(n, d) /\ recent'.jobs \in Seq(JobEntry)
  BY DEF AddStep, CloneStep, RecentTypes
<1>2. issues' \in Nat /\ NewId \in V1s' /\ V1s \subseteq V1s'
  BY <1>1, DrawnIds DEF IssueStep
<1>3. IssuedTypes(recent.issued)'
  <2>1. ASSUME NEW v \in DOMAIN recent'.issued
        PROVE  v \in V1s' /\ recent'.issued[v] \in [v2 : Nat, job : Job, diff : Diffs]
    <3>1. CASE v = NewId
      BY <1>1, <1>2, <3>1 DEF IssueStep, Issued, JobEntry
    <3>2. CASE v # NewId
      BY <1>1, <1>2, <3>2 DEF IssueStep, Issued, RecentTypes, IssuedTypes
    <3> QED
      BY <3>1, <3>2
  <2> QED
    BY <1>1, <2>1 DEF IssuedTypes, IssueStep
<1>4. recent'.lastV2s \in Seq(Nat)
  <2>1. /\ recent.lastV2s \in Seq(Nat) /\ n.id \in Nat /\ Tracked \in Nat \ {0}
        /\ Issued(recent, recent', n, d, NewId)
    BY <1>1, MinerAssumption DEF IssueStep, RecentTypes, JobEntry
  <2>2. Len(recent.lastV2s) = Tracked => Tail(recent.lastV2s) \in Seq(Nat)
    BY <2>1
  <2> QED
    BY <2>1, <2>2 DEF Issued
<1> QED
  BY <1>1, <1>2, <1>3, <1>4 DEF RecentTypes, IssueStep

-----------------------------------------------------------------------------
(* The steps *)

\* A step that issues no id.
NoIssue == UNCHANGED <<recent, issues, redrawn>>

LEMMA IssueIsOne == ASSUME NEW n, NEW d, IssueStep(n, d) PROVE ~NoIssue
BY DEF IssueStep, Issued, NoIssue, FreshV1s

LEMMA MoreIds ==
    ASSUME RecentTypes, NoIssue \/ \E n, d : AddStep(n, d) \/ CloneStep(n, d)
    PROVE  /\ RecentTypes'
           /\ V1s \subseteq V1s'
           /\ NoIssue \/ (NewId \in V1s' /\ NewId \in Nat)
<1>1. CASE NoIssue
  BY <1>1 DEF NoIssue, RecentTypes, IssuedTypes, V1s
<1>2. ASSUME NEW n, NEW d, AddStep(n, d) \/ CloneStep(n, d)
      PROVE  V1s \subseteq V1s' /\ NewId \in V1s' /\ NewId \in Nat
  BY <1>2, DrawnIds DEF IssueStep, AddStep, CloneStep
<1> QED
  BY <1>1, <1>2, IssueKeepsTypes

\* Which step issues which job.
LEMMA ConfigureIssues ==
    ASSUME MinerTypes, Configure
    PROVE  AddStep(firstJob, diff) /\ firstJob' = [firstJob EXCEPT !.id = NewId]
<1>1. firstJob \in JobEntry /\ diff \in Diffs /\ RecentTypes
  BY DEF MinerTypes, BridgeTypes
<1>2. PICK v \in FreshV1s : /\ recent' = AddJob(recent, v, firstJob, diff) /\ Draw(v)
                            /\ firstJob' = [firstJob EXCEPT !.id = v]
  BY DEF Configure
<1> QED
  BY <1>1, <1>2, AddJobIssues

LEMMA SeedIssues ==
    ASSUME MinerTypes, Seed
    PROVE  \/ /\ recent.jobs = <<>>
              /\ AddStep(firstJob, diff)
              /\ notifier' = [pc |-> "seeded", held |-> Held(NewId, firstJob.job, Calm)]
           \/ /\ CloneStep(LastJob(recent), diff)
              /\ notifier' = [pc |-> "seeded", held |-> Held(NewId, LastJob(recent).job, Calm)]
<1>1. firstJob \in JobEntry /\ diff \in Diffs /\ RecentTypes
  BY DEF MinerTypes, BridgeTypes
<1>2. CASE recent.jobs = <<>>
  <2>1. PICK v \in FreshV1s :
           /\ recent' = AddJob(recent, v, firstJob, diff) /\ Draw(v)
           /\ notifier' = [pc |-> "seeded", held |-> Held(v, firstJob.job, Calm)]
    BY <1>2, Zenon DEF Seed
  <2>2. AddStep(firstJob, diff) /\ NewId = v
    BY <1>1, <2>1, AddJobIssues
  <2> QED
    BY <1>2, <2>1, <2>2, Zenon
<1>3. CASE recent.jobs # <<>>
  <2>1. PICK v \in FreshV1s :
           /\ recent' = CloneLast(recent, v, diff) /\ Draw(v)
           /\ notifier' = [pc |-> "seeded", held |-> Held(v, LastJob(recent).job, Calm)]
    BY <1>3, Zenon DEF Seed
  <2>2. CloneStep(LastJob(recent), diff) /\ NewId = v
    BY <1>1, <1>3, <2>1, CloneLastIssues
  <2> QED
    BY <2>1, <2>2, Zenon
<1> QED
  BY <1>2, <1>3

LEMMA ReceiveIssues ==
    ASSUME MinerTypes, ReceiveNotify
    PROVE  /\ firstJob' \in JobEntry
           /\ Head(feed) \in Job /\ Tail(feed) \in Seq(Job)
           /\ firstJob' = [id |-> Head(feed), job |-> Head(feed)]
           /\ AddStep(firstJob', diff)
           /\ notifier' = [pc |-> "sending", held |-> Held(NewId, Head(feed), Calm)]
<1>1. diff \in Diffs /\ RecentTypes /\ feed \in Seq(Job) /\ feed # <<>>
  BY DEF MinerTypes, BridgeTypes, ReceiveNotify
<1>2. Head(feed) \in Job /\ Tail(feed) \in Seq(Job)
  BY <1>1
<1>3. firstJob' = [id |-> Head(feed), job |-> Head(feed)]
  BY DEF ReceiveNotify
<1>4. firstJob' \in JobEntry
  BY <1>2, <1>3, MinerAssumption DEF JobEntry, Job
<1>5. PICK v \in FreshV1s :
         /\ recent' = AddJob(recent, v, firstJob', diff) /\ Draw(v)
         /\ notifier' = [pc |-> "sending", held |-> Held(v, Head(feed), Calm)]
  BY DEF ReceiveNotify
<1>6. ASSUME NEW n \in JobEntry, recent' = AddJob(recent, v, n, diff)
      PROVE  AddStep(n, diff) /\ NewId = v
  BY <1>1, <1>5, <1>6, AddJobIssues
<1>7. AddStep(firstJob', diff) /\ NewId = v
  BY <1>4, <1>5, <1>6
<1> QED
  BY <1>2, <1>3, <1>4, <1>5, <1>7, Zenon

\* A task of a retarget, with a new stage and a new message.
LEMMA TwoFields ==
    ASSUME NEW u \in Task, NEW p \in {"reissued"}, NEW g
    PROVE  [u EXCEPT !.pc = p, !.held = g] = [pc |-> p, diff |-> u.diff, held |-> g]
<1> DEFINE w == [pc |-> p, diff |-> u.diff, held |-> u.held]
<1>1. [u EXCEPT !.pc = p] = w
  BY DEF Task
<1>2. w \in Task /\ w.pc = p /\ w.diff = u.diff
  BY DEF Task
<1>3. [w EXCEPT !.held = g] = [pc |-> w.pc, diff |-> w.diff, held |-> g]
  <2> HIDE DEF w
  <2> QED
    BY <1>2 DEF Task
<1> QED
  BY <1>1, <1>2, <1>3, Zenon

LEMMA ReissueIssues ==
    ASSUME MinerTypes, NEW x \in Updaters, Reissue(x)
    PROVE  /\ CloneStep(LastJob(recent), update[x].diff)
           /\ update' = [update EXCEPT ![x] =
                 [pc |-> "reissued", diff |-> update[x].diff,
                  held |-> Held(NewId, LastJob(recent).job, ~overlap)]]
           /\ update'[x].held = Held(NewId, LastJob(recent).job, ~overlap)
           /\ \A y \in Updaters \ {x} : update'[y] = update[y]
<1>1. update[x].diff \in Diffs /\ RecentTypes
  BY DEF MinerTypes, UpdateTypes, Reissue, Busy
<1>2. PICK v \in FreshV1s :
         /\ recent' = CloneLast(recent, v, update[x].diff) /\ Draw(v)
         /\ update' = [update EXCEPT ![x] =
               [@ EXCEPT !.pc = "reissued", !.held = Held(v, LastJob(recent).job, ~overlap)]]
  BY DEF Reissue
<1>3. recent.jobs # <<>>
  BY DEF Reissue
<1>4. CloneStep(LastJob(recent), update[x].diff) /\ NewId = v
  BY <1>1, <1>2, <1>3, CloneLastIssues
<1> DEFINE h == Held(NewId, LastJob(recent).job, ~overlap)
           u == [pc |-> "reissued", diff |-> update[x].diff, held |-> h]
<1>5. update' = [update EXCEPT ![x] = [update[x] EXCEPT !.pc = "reissued", !.held = h]]
  BY <1>2, <1>4, Zenon
<1>6. update \in [Updaters -> Task] /\ update[x] \in Task
  BY DEF MinerTypes, UpdateTypes
<1> HIDE DEF h
<1>7. [update[x] EXCEPT !.pc = "reissued", !.held = h] = u
  BY <1>6, TwoFields, Zenon
<1>8. u.held = h
  BY Zenon
<1> HIDE DEF u
<1>9. update' = [update EXCEPT ![x] = u]
  BY <1>5, <1>7
<1>10. update'[x] = u /\ \A y \in Updaters \ {x} : update'[y] = update[y]
  BY <1>6, <1>9
<1> QED
  BY <1>4, <1>8, <1>9, <1>10, Zenon DEF h, u

LEMMA IdsGrow ==
    ASSUME MinerTypes, [Next]_vars
    PROVE  /\ RecentTypes'
           /\ V1s \subseteq V1s'
           /\ NoIssue \/ (NewId \in V1s' /\ NewId \in Nat)
<1>1. RecentTypes
  BY DEF MinerTypes
<1>2. CASE Configure
  BY <1>1, <1>2, ConfigureIssues, MoreIds
<1>3. CASE Seed
  BY <1>1, <1>3, SeedIssues, MoreIds
<1>4. CASE ReceiveNotify
  BY <1>1, <1>4, ReceiveIssues, MoreIds
<1>5. ASSUME NEW x \in Updaters, Reissue(x) PROVE \E n, d : AddStep(n, d) \/ CloneStep(n, d)
  BY <1>5, ReissueIssues
<1>6. CASE \E x \in Updaters : Reissue(x)
  BY <1>1, <1>5, <1>6, MoreIds
<1>7. CASE /\ [Next]_vars
           /\ ~(Configure \/ Seed \/ ReceiveNotify \/ \E x \in Updaters : Reissue(x))
  <2>1. NoIssue
    BY <1>7 DEF Next, Notifier, Retarget, vars, jobVars, minerVars, NoIssue, Broadcast,
         StoreNotify, Open, NewDownstream, Disconnect, Kill, Authorize, Submit, Bootstrap,
         AuthTimeout, InitDifficulty, SendSeed, SendNotify, Decide, Announce, SkipReissue,
         Resend
  <2> QED
    BY <1>1, <2>1, MoreIds
<1> QED
  BY <1>2, <1>3, <1>4, <1>6, <1>7

LEMMA BridgeTypesStep ==
    ASSUME MinerTypes, [Next]_vars
    PROVE  BridgeTypes'
<1> USE DEF bridgeVars, jobVars, minerVars, retargetVars
<1>1. BridgeTypes /\ RecentTypes
  BY DEF MinerTypes
<1>2. CASE Broadcast
  <2>1. /\ sentJob + 1 \in Job /\ sentJob' = sentJob + 1
        /\ UNCHANGED <<lastNotify, phase, firstJob, configures, diff>>
    BY <1>1, <1>2, MinerAssumption DEF Broadcast, BridgeTypes, Job
  <2>2. feed' \in Seq(Job)
    <3>1. feed \in Seq(Job) /\ Buffer \in Nat \ {0}
      BY <1>1, MinerAssumption DEF BridgeTypes
    <3>2. Append(feed, sentJob + 1) \in Seq(Job)
      BY <2>1, <3>1
    <3>3. Len(feed) = Buffer => Append(Tail(feed), sentJob + 1) \in Seq(Job)
      BY <2>1, <3>1
    <3> QED
      BY <1>2, <3>1, <3>2, <3>3 DEF Broadcast
  <2> QED
    BY <1>1, <2>1, <2>2 DEF BridgeTypes
<1>3. CASE Open
  BY <1>1, <1>3, MinerAssumption DEF Open, OnNewSv1Connection, BridgeTypes, JobEntry, Job
<1>4. CASE StoreNotify \/ NewDownstream \/ Disconnect \/ Kill
  <2>1. CASE StoreNotify \/ NewDownstream
    BY <1>1, <2>1 DEF StoreNotify, NewDownstream, BridgeTypes
  <2>2. CASE Disconnect
    BY <1>1, <2>2 DEF Disconnect, BridgeTypes
  <2>3. CASE Kill
    BY <1>1, <2>3 DEF Kill, BridgeTypes
  <2> QED
    BY <1>4, <2>1, <2>2, <2>3
<1>5. CASE Configure
  <2>1. NewId \in Nat /\ firstJob' = [firstJob EXCEPT !.id = NewId]
    BY <1>1, <1>5, ConfigureIssues, DrawnIds DEF AddStep, IssueStep
  <2>2. firstJob' \in JobEntry
    BY <1>1, <2>1 DEF BridgeTypes, JobEntry
  <2> QED
    BY <1>1, <1>5, <2>2 DEF Configure, BridgeTypes
<1>6. CASE ReceiveNotify
  BY <1>1, <1>6, ReceiveIssues DEF ReceiveNotify, BridgeTypes
<1>7. ASSUME NEW x \in Updaters, Decide(x) PROVE BridgeTypes'
  BY <1>1, <1>7 DEF Decide, BridgeTypes
<1>8. CASE /\ [Next]_vars
           /\ ~(Broadcast \/ Open \/ StoreNotify \/ NewDownstream \/ Disconnect \/ Kill)
           /\ ~(Configure \/ ReceiveNotify \/ \E x \in Updaters : Decide(x))
  <2>1. UNCHANGED <<sentJob, lastNotify, phase, feed, firstJob, configures, diff>>
    BY <1>8 DEF Next, Notifier, Retarget, vars, Authorize, Submit, Bootstrap, AuthTimeout,
         Seed, InitDifficulty, SendSeed, SendNotify, Announce, Reissue, SkipReissue,
         Resend, SetTarget
  <2> QED
    BY <1>1, <2>1 DEF BridgeTypes
<1> QED
  BY <1>2, <1>3, <1>4, <1>5, <1>6, <1>7, <1>8

\* What a message says is carried unchanged: Decide only marks it as crossed.
LEMMA CrossedKeeps ==
    ASSUME NEW h \in Message
    PROVE  /\ Crossed(h) \in Message
           /\ Crossed(h).v1 = h.v1 /\ Crossed(h).job = h.job
           /\ Crossed(h).calm => h.calm /\ h.v1 = 0
           /\ h = NoHeld => Crossed(h) = NoHeld
<1> DEFINE c == h.calm /\ h.v1 = 0
<1>1. Crossed(h) = [v1 |-> h.v1, job |-> h.job, calm |-> c]
  BY DEF Message, Crossed
<1>2. /\ h = [v1 |-> h.v1, job |-> h.job, calm |-> h.calm]
      /\ h.v1 \in Nat /\ h.job \in Job /\ h.calm \in BOOLEAN
  BY DEF Message
<1>3. Crossed(h).v1 = h.v1 /\ Crossed(h).job = h.job /\ (Crossed(h).calm => h.calm /\ h.v1 = 0)
  <2>1. Crossed(h).v1 = h.v1 /\ Crossed(h).job = h.job
    BY <1>1
  <2>2. Crossed(h).calm = c
    <3> HIDE DEF c
    <3> QED
      BY <1>1
  <2> QED
    BY <2>1, <2>2, Zenon
<1>4. Crossed(h) \in Message
  <2>1. ASSUME NEW b \in BOOLEAN PROVE [v1 |-> h.v1, job |-> h.job, calm |-> b] \in Message
    BY <1>2 DEF Message
  <2>2. (h.calm /\ h.v1 = 0) \in BOOLEAN
    OBVIOUS
  <2> QED
    BY <1>1, <2>1, <2>2
<1>5. ASSUME h = NoHeld PROVE Crossed(h) = NoHeld
  BY <1>1, <1>5, Zenon DEF NoHeld
<1> QED
  BY <1>3, <1>4, <1>5

LEMMA HeldIsMessage ==
    ASSUME NEW v \in Nat, NEW job \in Job, NEW calm \in BOOLEAN
    PROVE  /\ Held(v, job, calm) \in Message
           /\ Held(v, job, calm).v1 = v /\ Held(v, job, calm).job = job
           /\ Held(v, job, calm).calm = calm
BY DEF Held, Message

LEMMA NoHeldIsMessage == NoHeld \in Message /\ NoHeld.v1 = 0 /\ NoHeld.calm
BY MinerAssumption DEF NoHeld, Message, Job

LEMMA NotifierTypesStep ==
    ASSUME MinerTypes, [Next]_vars
    PROVE  NotifierTypes'
<1> USE DEF bridgeVars, jobVars, minerVars, retargetVars
<1>1. NotifierTypes /\ RecentTypes /\ BridgeTypes
  BY DEF MinerTypes
<1>2. V1s \subseteq V1s' /\ (NoIssue \/ (NewId \in V1s' /\ NewId \in Nat))
  BY IdsGrow
<1>3. ASSUME NEW job \in Job, NEW calm \in BOOLEAN, NEW pc \in Sending, ~NoIssue,
             notifier' = [pc |-> pc, held |-> Held(NewId, job, calm)]
      PROVE  NotifierTypes'
  BY <1>1, <1>2, <1>3, HeldIsMessage DEF NotifierTypes, Sending
<1>4. ASSUME NEW pc \in {"listening", "ended"}, notifier' = [pc |-> pc, held |-> NoHeld]
      PROVE  NotifierTypes'
  BY <1>4, NoHeldIsMessage DEF NotifierTypes, Sending
<1>5. Calm \in BOOLEAN
  BY DEF Calm
<1>6. CASE Seed
  <2>1. ~NoIssue
    BY <1>6, SeedIssues, IssueIsOne DEF AddStep, CloneStep
  <2>2. firstJob.job \in Job /\ (CloneStep(LastJob(recent), diff) => LastJob(recent).job \in Job)
    BY <1>1 DEF BridgeTypes, JobEntry, CloneStep, IssueStep
  <2> QED
    BY <1>3, <1>5, <1>6, <2>1, <2>2, SeedIssues DEF Sending
<1>7. CASE ReceiveNotify
  <2>1. ~NoIssue /\ notifier' = [pc |-> "sending", held |-> Held(NewId, Head(feed), Calm)]
    BY <1>7, ReceiveIssues, IssueIsOne DEF AddStep
  <2> QED
    BY <1>3, <1>5, <1>7, <2>1, ReceiveIssues DEF Sending
<1>8. CASE Kill \/ SendSeed \/ SendNotify
  BY <1>4, <1>8 DEF Kill, SendSeed, SendNotify
<1>9. CASE Bootstrap \/ InitDifficulty \/ AuthTimeout
  <2>1. PICK pc \in {"auth", "difficulty", "over"} :
           /\ notifier' = [notifier EXCEPT !.pc = pc]
           /\ notifier.pc \in Sending <=> pc \in Sending
    BY <1>1, <1>9 DEF Bootstrap, InitDifficulty, AuthTimeout, Sending
  <2> QED
    BY <1>1, <1>2, <2>1 DEF NotifierTypes, Sending
<1>10. ASSUME NEW x \in Updaters, Decide(x) PROVE NotifierTypes'
  <2>1. notifier' = [notifier EXCEPT !.held = Crossed(notifier.held)]
    BY <1>10 DEF Decide
  <2>2. notifier.held \in Message
    BY <1>1 DEF NotifierTypes
  <2>3. notifier'.pc = notifier.pc /\ notifier'.held = Crossed(notifier.held)
        /\ notifier' = [pc |-> notifier.pc, held |-> Crossed(notifier.held)]
    BY <1>1, <2>1 DEF NotifierTypes
  <2> QED
    BY <1>1, <1>2, <2>2, <2>3, CrossedKeeps DEF NotifierTypes
<1>11. CASE /\ [Next]_vars
            /\ ~(Seed \/ ReceiveNotify \/ Kill \/ SendSeed \/ SendNotify \/ Bootstrap)
            /\ ~(InitDifficulty \/ AuthTimeout \/ \E x \in Updaters : Decide(x))
  <2>1. UNCHANGED notifier
    BY <1>11 DEF Next, Notifier, Retarget, vars, Broadcast, StoreNotify, Open, NewDownstream,
         Disconnect, Configure, Authorize, Submit, Announce, Reissue, SkipReissue, Resend
  <2> QED
    BY <1>1, <1>2, <2>1 DEF NotifierTypes
<1> QED
  BY <1>6, <1>7, <1>8, <1>9, <1>10, <1>11

LEMMA HeldField ==
    ASSUME NEW u \in Task, NEW g
    PROVE  [u EXCEPT !.held = g] = [pc |-> u.pc, diff |-> u.diff, held |-> g]
BY DEF Task

LEMMA UpdateTypesStep ==
    ASSUME MinerTypes, [Next]_vars
    PROVE  UpdateTypes'
<1> USE DEF bridgeVars, jobVars, minerVars, retargetVars
<1>1. UpdateTypes /\ RecentTypes /\ BridgeTypes /\ NotifierTypes /\ Started
  BY DEF MinerTypes
<1>2. V1s \subseteq V1s' /\ (NoIssue \/ (NewId \in V1s' /\ NewId \in Nat))
  BY IdsGrow
<1>3. /\ {"update", "limit"} = Updaters
      /\ \A x \in Updaters : /\ update[x].held \in Message
                             /\ update[x] = [pc |-> update[x].pc, diff |-> update[x].diff,
                                             held |-> update[x].held]
  BY <1>1 DEF UpdateTypes, Updaters, Task
<1> DEFINE Fine(u) == /\ u \in Task
                      /\ u.pc = "reissued" => u.held.v1 \in V1s'
                      /\ u.pc # "reissued" => u.held = NoHeld
                      /\ u.pc \notin {"off", "idle"} => u.diff \in Diffs
<1>4. \A x \in Updaters : Fine(update[x])
  BY <1>1, <1>2 DEF UpdateTypes, Busy
<1>5. ASSUME update' = [x \in Updaters |-> update'[x]], \A x \in Updaters : Fine(update'[x])
      PROVE  UpdateTypes'
  BY <1>5 DEF UpdateTypes, Busy
<1>6. ASSUME NEW x \in Updaters, NEW u, Fine(u), update' = [update EXCEPT ![x] = u]
      PROVE  UpdateTypes'
  <2> HIDE DEF Fine
  <2>1. update = [y \in Updaters |-> update[y]]
    BY <1>1 DEF UpdateTypes
  <2>2. update' = [y \in Updaters |-> IF y = x THEN u ELSE update[y]]
    BY <1>6, <2>1
  <2> QED
    BY <1>4, <1>5, <1>6, <2>2
<1>7. Fine(NoUpdate("off")) /\ Fine(NoUpdate("idle"))
  BY NoHeldIsMessage DEF NoUpdate, Task
<1>8. CASE Kill
  <2> HIDE DEF Fine
  <2> QED
    BY <1>3, <1>6, <1>7, <1>8 DEF Kill
<1>9. ASSUME NEW x \in Updaters, NEW pc \in {"idle", "announced"},
             update[x].pc # "reissued", pc # "idle" => update[x].diff \in Diffs,
             update' = [update EXCEPT ![x].pc = pc]
      PROVE  UpdateTypes'
  <2>1. Fine([update[x] EXCEPT !.pc = pc])
    BY <1>3, <1>4, <1>9 DEF Task
  <2>2. update' = [update EXCEPT ![x] = [update[x] EXCEPT !.pc = pc]]
    BY <1>1, <1>9 DEF UpdateTypes
  <2> HIDE DEF Fine
  <2> QED
    BY <1>6, <2>1, <2>2
<1>10. CASE InitDifficulty \/ SendSeed \/ AuthTimeout
  <2>1. PICK x \in Updaters : update' = [update EXCEPT ![x].pc = "idle"] /\ update[x].pc = "off"
    BY <1>1, <1>3, <1>10 DEF InitDifficulty, SendSeed, AuthTimeout, Started
  <2> QED
    BY <1>9, <2>1
<1>11. ASSUME NEW x \in Updaters, Announce(x) PROVE UpdateTypes'
  BY <1>1, <1>9, <1>11 DEF Announce, UpdateTypes, Busy
<1>12. ASSUME NEW x \in Updaters, SkipReissue(x) \/ Resend(x) PROVE UpdateTypes'
  <2> HIDE DEF Fine
  <2>1. update' = [update EXCEPT ![x] = NoUpdate("idle")]
    BY <1>12 DEF SkipReissue, Resend, SetTarget
  <2> QED
    BY <1>6, <1>7, <2>1
<1>13. ASSUME NEW x \in Updaters, Reissue(x) PROVE UpdateTypes'
  <2>1. LastJob(recent).job \in Job /\ ~NoIssue /\ update[x].diff \in Diffs
    <3>1. CloneStep(LastJob(recent), update[x].diff)
      BY <1>13, ReissueIssues
    <3> QED
      BY <3>1, IssueIsOne DEF CloneStep, IssueStep, JobEntry
  <2>2. (~overlap) \in BOOLEAN
    OBVIOUS
  <2> DEFINE u == [pc |-> "reissued", diff |-> update[x].diff,
                   held |-> Held(NewId, LastJob(recent).job, ~overlap)]
  <2>3. update' = [update EXCEPT ![x] = u]
    BY <1>13, ReissueIssues
  <2>4. Fine(u)
    <3>1. NewId \in V1s' /\ NewId \in Nat
      BY <1>2, <2>1
    <3> DEFINE h == Held(NewId, LastJob(recent).job, ~overlap)
    <3>2. h \in Message /\ h.v1 = NewId
      BY <2>1, <2>2, <3>1, HeldIsMessage
    <3> HIDE DEF h
    <3>3. ASSUME NEW w, w = [pc |-> "reissued", diff |-> update[x].diff, held |-> h] PROVE Fine(w)
      BY <2>1, <3>1, <3>2, <3>3 DEF Task
    <3> HIDE DEF Fine
    <3> QED
      BY <3>3 DEF h
  <2> HIDE DEF Fine, u
  <2> QED
    BY <1>6, <2>3, <2>4
<1>14. ASSUME NEW x \in Updaters, Decide(x) PROVE UpdateTypes'
  <2>1. PICK d \in Diffs : update' = [y \in Updaters |->
                IF y = x THEN [pc |-> "decided", diff |-> d, held |-> NoHeld]
                         ELSE [update[y] EXCEPT !.held = Crossed(@)]]
    BY <1>14 DEF Decide
  <2>2. Fine([pc |-> "decided", diff |-> d, held |-> NoHeld])
    BY NoHeldIsMessage DEF Task
  <2>3. ASSUME NEW y \in Updaters PROVE Fine([update[y] EXCEPT !.held = Crossed(@)])
    <3>1. [update[y] EXCEPT !.held = Crossed(@)]
             = [pc |-> update[y].pc, diff |-> update[y].diff, held |-> Crossed(update[y].held)]
      <4>1. update[y] \in Task
        BY <1>1 DEF UpdateTypes
      <4> QED
        BY <4>1, HeldField, Zenon
    <3> QED
      BY <1>3, <1>4, <3>1, CrossedKeeps DEF Task
  <2> HIDE DEF Fine
  <2> QED
    BY <1>5, <2>1, <2>2, <2>3
<1>15. CASE /\ [Next]_vars
            /\ ~(Kill \/ InitDifficulty \/ SendSeed \/ AuthTimeout)
            /\ ~(\E x \in Updaters : Decide(x) \/ Retarget(x))
  <2>1. UNCHANGED update
    BY <1>15 DEF Next, Notifier, vars, Broadcast, StoreNotify, Open, NewDownstream,
         Disconnect, Configure, Authorize, Submit, Bootstrap, Seed, ReceiveNotify, SendNotify
  <2> QED
    BY <1>1, <1>2, <2>1 DEF UpdateTypes, Busy
<1> QED
  BY <1>8, <1>10, <1>11, <1>12, <1>13, <1>14, <1>15 DEF Retarget

\* Every retarget is of a task that runs, and leaves the other one where it is.
LEMMA RetargetMoves ==
    ASSUME MinerTypes, NEW x \in Updaters, Decide(x) \/ Retarget(x)
    PROVE  /\ update[x].pc # "off"
           /\ \A y \in Updaters \ {x} : update'[y].pc = update[y].pc
           /\ notifier'.pc = notifier.pc
<1>1. update \in [Updaters -> Task] /\ notifier = [pc |-> notifier.pc, held |-> notifier.held]
  BY DEF MinerTypes, UpdateTypes, NotifierTypes
<1>2. CASE Decide(x)
  BY <1>1, <1>2 DEF Decide, Task
<1>3. CASE Retarget(x)
  <2>1. update[x].pc # "off" /\ UNCHANGED notifier
    BY <1>3 DEF Retarget, Announce, Reissue, SkipReissue, Resend
  <2>2. CASE Reissue(x)
    BY <1>1, <2>2 DEF Reissue
  <2>3. CASE Announce(x)
    BY <1>1, <2>3 DEF Announce
  <2>4. CASE SkipReissue(x) \/ Resend(x)
    BY <1>1, <2>4 DEF SkipReissue, Resend, SetTarget
  <2> QED
    BY <1>3, <2>1, <2>2, <2>3, <2>4 DEF Retarget
<1> QED
  BY <1>2, <1>3

LEMMA StartedStep ==
    ASSUME MinerTypes, [Next]_vars
    PROVE  Started'
<1>1. /\ Started /\ update \in [Updaters -> Task] /\ "update" \in Updaters /\ "limit" \in Updaters
      /\ notifier = [pc |-> notifier.pc, held |-> notifier.held]
  BY DEF MinerTypes, UpdateTypes, NotifierTypes, Updaters
<1>2. ASSUME NEW x \in Updaters, Decide(x) \/ Retarget(x) PROVE Started'
  <2>1. x = "update" \/ x = "limit"
    BY DEF Updaters
  <2> QED
    BY <1>1, <1>2, <2>1, RetargetMoves DEF Started
<1>3. CASE InitDifficulty \/ AuthTimeout
  BY <1>1, <1>3 DEF InitDifficulty, AuthTimeout, Started
<1>4. CASE Kill \/ SendSeed
  BY <1>4 DEF Kill, SendSeed, Started
<1>5. CASE Bootstrap \/ Seed \/ ReceiveNotify \/ SendNotify
  BY <1>1, <1>5 DEF Bootstrap, Seed, ReceiveNotify, SendNotify, Started
<1>6. CASE /\ [Next]_vars
           /\ ~(InitDifficulty \/ AuthTimeout \/ Kill \/ SendSeed)
           /\ ~(Bootstrap \/ Seed \/ ReceiveNotify \/ SendNotify)
           /\ ~(\E x \in Updaters : Decide(x) \/ Retarget(x))
  <2>1. UNCHANGED <<update, notifier>>
    BY <1>6 DEF Next, Notifier, vars, Broadcast, StoreNotify, Open, NewDownstream, Disconnect,
         Configure, Authorize, Submit
  <2> QED
    BY <1>1, <2>1 DEF Started
<1> QED
  BY <1>2, <1>3, <1>4, <1>5, <1>6

LEMMA ToldTypesStep ==
    ASSUME MinerTypes, [Next]_vars
    PROVE  ToldTypes'
<1> USE DEF minerVars
<1>1. ToldTypes /\ V1s \subseteq V1s'
  BY IdsGrow DEF MinerTypes
<1>2. ASSUME NEW h, h.v1 \in V1s, SendJob(h) PROVE ToldTypes'
  BY <1>1, <1>2 DEF SendJob, Gone, Put, ToldTypes
<1>3. CASE SendSeed \/ SendNotify
  BY <1>2, <1>3 DEF SendSeed, SendNotify, MinerTypes, NotifierTypes, Sending
<1>4. ASSUME NEW x \in Updaters, Resend(x) PROVE ToldTypes'
  BY <1>2, <1>4 DEF Resend, MinerTypes, UpdateTypes
<1>5. CASE Disconnect
  BY <1>5 DEF Disconnect, ToldTypes
<1>6. CASE /\ [Next]_vars
           /\ ~(SendSeed \/ SendNotify \/ Disconnect \/ \E x \in Updaters : Resend(x))
  <2>1. UNCHANGED told
    BY <1>6 DEF Next, Notifier, Retarget, vars, Broadcast, StoreNotify, Open, NewDownstream, Kill,
         Configure, Authorize, Submit, Bootstrap, AuthTimeout, Seed, InitDifficulty,
         ReceiveNotify, Decide, Announce, Reissue, SkipReissue, SendDifficulty, Gone
  <2> QED
    BY <1>1, <2>1 DEF ToldTypes
<1> QED
  BY <1>3, <1>4, <1>5, <1>6

LEMMA MinerTypesInit == Init => MinerTypes
<1> SUFFICES ASSUME Init PROVE MinerTypes
  OBVIOUS
<1>1. BridgeTypes
  BY MinerAssumption DEF Init, BridgeTypes, JobEntry, Job
<1>2. RecentTypes
  BY DEF Init, RecentTypes, IssuedTypes
<1>3. NotifierTypes
  BY NoHeldIsMessage DEF Init, NotifierTypes, Sending
<1>4. UpdateTypes /\ Started
  BY NoHeldIsMessage DEF Init, UpdateTypes, Started, NoUpdate, Task, Busy, Updaters
<1>5. ToldTypes
  BY DEF Init, ToldTypes
<1> QED
  BY <1>1, <1>2, <1>3, <1>4, <1>5 DEF MinerTypes

LEMMA MinerTypesHold == Spec => []MinerTypes
<1>1. MinerTypes /\ [Next]_vars => MinerTypes'
  BY IdsGrow, BridgeTypesStep, NotifierTypesStep, UpdateTypesStep, StartedStep, ToldTypesStep
     DEF MinerTypes
<1> QED
  BY <1>1, MinerTypesInit, PTL DEF Spec

-----------------------------------------------------------------------------
(* Shares resolve to their job *)

\* What was said of an id is what RecentJobs knows of it, unless it was drawn again.
NamesItsJob ==
    \A v1 \in DOMAIN recent.issued, job \in Job :
        Mentioned(v1, job) /\ <<v1, job>> \notin redrawn => recent.issued[v1].job = job

\* The id of a job is the pool's, until it is configured a second time as first_job.
Faithful ==
    /\ recent.jobs = <<>> => firstJob.id = firstJob.job
    /\ \A v1 \in DOMAIN recent.issued :
          recent.issued[v1].job \notin renamed => recent.issued[v1].v2 = recent.issued[v1].job
    /\ \A i \in DOMAIN recent.jobs :
          recent.jobs[i].job \notin renamed => recent.jobs[i].id = recent.jobs[i].job

\* What a step does to RecentJobs and to first_job.
Rests == NoIssue /\ UNCHANGED <<firstJob, renamed>>
Opens == NoIssue /\ OnNewSv1Connection /\ phase = "away" /\ UNCHANGED renamed
Configures ==
    /\ AddStep(firstJob, diff)
    /\ firstJob'.job = firstJob.job
    /\ renamed' = IF firstJob.id = firstJob.job THEN renamed ELSE renamed \cup {firstJob.job}
Seeds == recent.jobs = <<>> /\ AddStep(firstJob, diff) /\ UNCHANGED <<firstJob, renamed>>
Clones(d) == CloneStep(LastJob(recent), d) /\ UNCHANGED <<firstJob, renamed>>
Receives ==
    /\ AddStep(firstJob', diff)
    /\ feed # <<>> /\ Head(feed) \in Job
    /\ firstJob' = [id |-> Head(feed), job |-> Head(feed)]
    /\ UNCHANGED renamed

LEMMA JobMoves ==
    ASSUME MinerTypes, [Next]_vars
    PROVE  Rests \/ Opens \/ Configures \/ Seeds \/ (\E d : Clones(d)) \/ Receives
<1> USE DEF jobVars
<1>1. CASE Configure
  <2>1. /\ firstJob'.job = firstJob.job
        /\ renamed' = IF firstJob.id = firstJob.job THEN renamed ELSE renamed \cup {firstJob.job}
    BY <1>1, ConfigureIssues DEF Configure, MinerTypes, BridgeTypes, JobEntry
  <2> QED
    BY <1>1, <2>1, ConfigureIssues DEF Configures
<1>2. CASE Seed
  BY <1>2, SeedIssues DEF Seed, Seeds, Clones
<1>3. CASE ReceiveNotify
  BY <1>3, ReceiveIssues DEF ReceiveNotify, Receives
<1>4. ASSUME NEW x \in Updaters, Reissue(x) PROVE \E d : Clones(d)
  <2>1. UNCHANGED <<firstJob, renamed>>
    BY <1>4 DEF Reissue
  <2> QED
    BY <1>4, <2>1, ReissueIssues DEF Clones
<1>5. CASE Open
  BY <1>5 DEF Open, Opens, NoIssue
<1>6. CASE /\ [Next]_vars
           /\ ~(Configure \/ Seed \/ ReceiveNotify \/ Open \/ \E x \in Updaters : Reissue(x))
  BY <1>6 DEF Next, Notifier, Retarget, vars, minerVars, NoIssue, Rests, Broadcast,
       StoreNotify, NewDownstream, Disconnect, Kill, Authorize, Submit, Bootstrap,
       AuthTimeout, InitDifficulty, SendSeed, SendNotify, Decide, Announce, SkipReissue,
       Resend
<1> QED
  BY <1>1, <1>2, <1>3, <1>4, <1>5, <1>6

\* An entry that is there after a step was there before, or is the new one.
LEMMA EntriesStay ==
    ASSUME MinerTypes, [Next]_vars, NEW v1 \in DOMAIN recent'.issued
    PROVE  \/ v1 = NewId /\ \E n, d : IssueStep(n, d)
           \/ v1 \in DOMAIN recent.issued /\ recent'.issued[v1] = recent.issued[v1]
<1>1. NoIssue \/ \E n, d : IssueStep(n, d)
  BY JobMoves DEF Rests, Opens, Configures, Seeds, Clones, Receives, AddStep, CloneStep
<1>2. ASSUME NEW n, NEW d, IssueStep(n, d), v1 # NewId
      PROVE  v1 \in DOMAIN recent.issued /\ recent'.issued[v1] = recent.issued[v1]
  BY <1>2 DEF IssueStep, Issued
<1>3. CASE NoIssue
  BY <1>3 DEF NoIssue
<1> QED
  BY <1>1, <1>2, <1>3

LEMMA ZeroIsNoId == ASSUME MinerTypes PROVE 0 \notin V1s
BY MinerAssumption DEF MinerTypes, RecentTypes, V1s

\* Whatever was said of an id that is drawn again is recorded, ...
LEMMA DrawnAgain ==
    ASSUME NEW n, NEW d, IssueStep(n, d), NEW job \in Job, Mentioned(NewId, job)
    PROVE  <<NewId, job>> \in redrawn'
<1>1. NewId \notin DOMAIN recent.issued /\ Draw(NewId)
  BY DEF IssueStep, FreshV1s
<1>2. redrawn' = redrawn \cup {NewId} \X {j \in Job : Mentioned(NewId, j)}
  BY <1>1, Zenon DEF Draw, Job
<1>3. job \in {j \in Job : Mentioned(NewId, j)}
  BY Zenon
<1> HIDE DEF NewId
<1> QED
  BY <1>2, <1>3

\* ... and nothing else.
LEMMA RedrawnMoves ==
    ASSUME MinerTypes, [Next]_vars
    PROVE  /\ redrawn \subseteq redrawn'
           /\ \A p \in redrawn' \ redrawn :
                 \E v1 \in V1s', job \in Job :
                    p = <<v1, job>> /\ Mentioned(v1, job) /\ v1 \notin DOMAIN recent.issued
<1>1. NoIssue \/ \E n, d : IssueStep(n, d)
  BY JobMoves DEF Rests, Opens, Configures, Seeds, Clones, Receives, AddStep, CloneStep
<1>2. CASE NoIssue
  BY <1>2 DEF NoIssue
<1>3. ASSUME NEW n, NEW d, IssueStep(n, d)
      PROVE  /\ redrawn \subseteq redrawn'
             /\ \A p \in redrawn' \ redrawn :
                   \E v1 \in V1s', job \in Job :
                      p = <<v1, job>> /\ Mentioned(v1, job) /\ v1 \notin DOMAIN recent.issued
  <2>1. NewId \notin DOMAIN recent.issued /\ Draw(NewId) /\ NewId \in V1s'
    BY <1>3, DrawnIds DEF IssueStep, FreshV1s, MinerTypes
  <2>2. redrawn' = redrawn \cup {NewId} \X {j \in Job : Mentioned(NewId, j)}
    BY <2>1, Zenon DEF Draw, Job
  <2> HIDE DEF NewId
  <2>3. ASSUME NEW p \in redrawn' \ redrawn
        PROVE  \E job \in Job : p = <<NewId, job>> /\ Mentioned(NewId, job)
    BY <2>2
  <2> QED
    BY <2>1, <2>2, <2>3
<1> QED
  BY <1>1, <1>2, <1>3

LEMMA MentionedIsIssued ==
    ASSUME MinerTypes, NEW v1, NEW job, Mentioned(v1, job), v1 # 0
    PROVE  v1 \in V1s
BY NoHeldIsMessage DEF MinerTypes, NotifierTypes, UpdateTypes, ToldTypes, Mentioned, Says

\* What the miner knows after a job was sent.
LEMMA JobSent ==
    ASSUME NEW h, SendJob(h)
    PROVE  \/ phase # "running" /\ UNCHANGED <<told, minerJob, minerDiff>>
           \/ /\ phase = "running"
              /\ minerJob' = h.v1 /\ minerDiff' = minerDiff
              /\ DOMAIN told' = DOMAIN told \cup {h.v1}
              /\ told'[h.v1].job = h.job
              /\ told'[h.v1].diff = minerDiff
              /\ told'[h.v1].calm = h.calm
              /\ \A v1 \in DOMAIN told : v1 # h.v1 => told'[v1] = told[v1]
<1>1. CASE Gone
  BY <1>1 DEF Gone
<1>2. CASE ~Gone
  <2> DEFINE e == [job |-> h.job, diff |-> minerDiff, calm |-> h.calm]
  <2>1. /\ phase = "running" /\ minerJob' = h.v1 /\ minerDiff' = minerDiff
        /\ told' = Put(told, h.v1, e)
    BY <1>2, Zenon DEF SendJob
  <2>2. e.job = h.job /\ e.diff = minerDiff /\ e.calm = h.calm
    BY Zenon
  <2> HIDE DEF e
  <2>3. /\ DOMAIN told' = DOMAIN told \cup {h.v1} /\ told'[h.v1] = e
        /\ \A v1 \in DOMAIN told : v1 # h.v1 => told'[v1] = told[v1]
    BY <2>1 DEF Put
  <2> QED
    BY <2>1, <2>2, <2>3, Zenon
<1> QED
  BY <1>1, <1>2

\* A new message names the job that was issued with its id; all other steps hand on what
\* was said before.
LEMMA MentionsStep ==
    ASSUME MinerTypes, [Next]_vars, NEW v1, NEW job, v1 # 0, Mentioned(v1, job)'
    PROVE  \/ Mentioned(v1, job)
           \/ /\ v1 = NewId /\ v1 \in DOMAIN recent'.issued
              /\ recent'.issued[v1].job = job
<1> DEFINE New == /\ v1 = NewId /\ v1 \in DOMAIN recent'.issued
                  /\ recent'.issued[v1].job = job
<1>1. RecentTypes
  BY DEF MinerTypes
<1>2. ASSUME NEW h, NEW n, NEW d, NEW calm, IssueStep(n, d), h = Held(NewId, n.job, calm), Says(h, v1, job)
      PROVE  New
  BY <1>2 DEF IssueStep, Issued, Held, Says
<1>3. ASSUME v1 \in DOMAIN told', told'[v1].job = job PROVE Mentioned(v1, job)
  <2>1. ASSUME NEW h, SendJob(h), \A a, b : Says(h, a, b) => Mentioned(a, b)
        PROVE  Mentioned(v1, job)
    <3>1. (v1 = h.v1 /\ job = h.job) \/ (v1 \in DOMAIN told /\ told[v1].job = job)
      <4>1. CASE UNCHANGED told
        BY <1>3, <4>1
      <4>2. CASE /\ DOMAIN told' = DOMAIN told \cup {h.v1} /\ told'[h.v1].job = h.job
                 /\ \A v \in DOMAIN told : v # h.v1 => told'[v] = told[v]
        BY <1>3, <4>2
      <4> QED
        BY <2>1, <4>1, <4>2, JobSent
    <3>2. v1 = h.v1 /\ job = h.job => Mentioned(v1, job)
      BY <2>1 DEF Says
    <3> QED
      BY <3>1, <3>2 DEF Mentioned
  <2>2. CASE SendSeed \/ SendNotify
    <3>1. SendJob(notifier.held)
      BY <2>2 DEF SendSeed, SendNotify
    <3>2. \A a, b : Says(notifier.held, a, b) => Mentioned(a, b)
      BY DEF Mentioned
    <3> QED
      BY <2>1, <3>1, <3>2
  <2>3. ASSUME NEW x \in Updaters, Resend(x) PROVE Mentioned(v1, job)
    <3>1. SendJob(update[x].held)
      BY <2>3 DEF Resend
    <3>2. \A a, b : Says(update[x].held, a, b) => Mentioned(a, b)
      BY DEF Mentioned
    <3> QED
      BY <2>1, <3>1, <3>2
  <2>4. CASE Disconnect
    BY <1>3, <2>4 DEF Disconnect
  <2>5. CASE ~(SendSeed \/ SendNotify \/ Disconnect \/ \E x \in Updaters : Resend(x))
    <3>1. UNCHANGED told
      BY <2>5 DEF Next, Notifier, Retarget, vars, minerVars, Broadcast, StoreNotify, Open,
           NewDownstream, Kill, Configure, Authorize, Submit, Bootstrap, AuthTimeout, Seed,
           InitDifficulty, ReceiveNotify, Decide, Announce, Reissue, SkipReissue,
           SendDifficulty, Gone
    <3> QED
      BY <1>3, <3>1 DEF Mentioned
  <2> QED
    BY <2>2, <2>3, <2>4, <2>5
<1>4. ASSUME Says(notifier'.held, v1, job) PROVE Mentioned(v1, job) \/ New
  <2>1. notifier = [pc |-> notifier.pc, held |-> notifier.held] /\ notifier.held \in Message
    BY DEF MinerTypes, NotifierTypes
  <2>2. CASE Seed
    <3>1. \/ IssueStep(firstJob, diff) /\ notifier'.held = Held(NewId, firstJob.job, Calm)
          \/ IssueStep(LastJob(recent), diff) /\ notifier'.held = Held(NewId, LastJob(recent).job, Calm)
      BY <2>2, SeedIssues DEF AddStep, CloneStep
    <3> QED
      BY <1>2, <1>4, <3>1
  <2>3. CASE ReceiveNotify
    <3>1. IssueStep(firstJob', diff) /\ firstJob'.job = Head(feed)
      BY <2>3, ReceiveIssues DEF AddStep
    <3>2. notifier'.held = Held(NewId, firstJob'.job, Calm)
      BY <2>3, <3>1, ReceiveIssues
    <3>3. ASSUME NEW n, IssueStep(n, diff), notifier'.held = Held(NewId, n.job, Calm) PROVE New
      BY <1>2, <1>4, <3>3
    <3> QED
      BY <3>1, <3>2, <3>3
  <2>4. CASE Kill \/ SendSeed \/ SendNotify
    BY <1>4, <2>4, NoHeldIsMessage DEF Kill, SendSeed, SendNotify, Says
  <2>5. ASSUME NEW x \in Updaters, Decide(x) PROVE Mentioned(v1, job)
    <3>1. notifier'.held = Crossed(notifier.held)
      BY <2>1, <2>5 DEF Decide
    <3> QED
      BY <1>4, <2>1, <3>1, CrossedKeeps DEF Says, Mentioned
  <2>6. CASE /\ ~(Seed \/ ReceiveNotify \/ Kill \/ SendSeed \/ SendNotify)
             /\ ~(\E x \in Updaters : Decide(x))
    <3>1. UNCHANGED notifier \/ \E pc : notifier' = [notifier EXCEPT !.pc = pc]
      BY <2>6 DEF Next, Notifier, Retarget, vars, Broadcast, StoreNotify, Open, NewDownstream,
           Disconnect, Configure, Authorize, Submit, Bootstrap, AuthTimeout, InitDifficulty,
           Announce, Reissue, SkipReissue, Resend
    <3>2. notifier'.held = notifier.held
      BY <2>1, <3>1
    <3> QED
      BY <1>4, <3>2 DEF Mentioned
  <2> QED
    BY <2>2, <2>3, <2>4, <2>5, <2>6
<1>5. ASSUME NEW y \in Updaters, Says(update'[y].held, v1, job) PROVE Mentioned(v1, job) \/ New
  <2>1. update \in [Updaters -> Task] /\ update[y] \in Task /\ update[y].held \in Message
    BY DEF MinerTypes, UpdateTypes, Task
  <2>2. CASE update'[y].held = update[y].held
    BY <1>5, <2>2 DEF Mentioned
  <2>3. CASE update'[y].held = NoHeld
    BY <1>5, <2>3, NoHeldIsMessage DEF Says
  <2>4. CASE update'[y].held = Crossed(update[y].held)
    BY <1>5, <2>1, <2>4, CrossedKeeps DEF Says, Mentioned
  <2>5. ASSUME NEW x \in Updaters, Reissue(x)
        PROVE  \/ update'[y].held = update[y].held
               \/ update'[y].held = Held(NewId, LastJob(recent).job, ~overlap)
    BY <2>5, ReissueIssues
  <2>6. ASSUME NEW x \in Updaters, Reissue(x) PROVE Mentioned(v1, job) \/ New
    <3>1. IssueStep(LastJob(recent), update[x].diff)
      BY <2>6, ReissueIssues DEF CloneStep
    <3> QED
      BY <1>2, <1>5, <2>2, <2>5, <2>6, <3>1
  <2>7. ASSUME NEW x \in Updaters, Decide(x)
        PROVE  update'[y].held = NoHeld \/ update'[y].held = Crossed(update[y].held)
    BY <2>1, <2>7 DEF Decide, Task
  <2>8. ASSUME NEW x \in Updaters, Announce(x)
        PROVE  update'[y].held = update[y].held
    BY <2>1, <2>8 DEF Announce, Task
  <2>9. ASSUME NEW x \in Updaters, SkipReissue(x) \/ Resend(x)
        PROVE  update'[y].held = update[y].held \/ update'[y].held = NoHeld
    BY <2>1, <2>9 DEF SkipReissue, Resend, SetTarget, NoUpdate
  <2>10. CASE Kill
    BY <2>1, <2>2, <2>3, <2>10 DEF Kill, NoUpdate
  <2>11. CASE InitDifficulty \/ SendSeed \/ AuthTimeout
    <3>1. update'[y].held = update[y].held
      BY <2>1, <2>11 DEF InitDifficulty, SendSeed, AuthTimeout, Task
    <3> QED
      BY <2>2, <3>1
  <2>12. CASE /\ ~(Kill \/ InitDifficulty \/ SendSeed \/ AuthTimeout)
              /\ ~(\E x \in Updaters : Decide(x) \/ Retarget(x))
    <3>1. UNCHANGED update
      BY <2>12 DEF Next, Notifier, vars, Broadcast, StoreNotify, Open, NewDownstream,
           Disconnect, Configure, Authorize, Submit, Bootstrap, Seed, ReceiveNotify, SendNotify
    <3> QED
      BY <2>2, <3>1
  <2> QED
    BY <2>2, <2>3, <2>4, <2>6, <2>7, <2>8, <2>9, <2>10, <2>11, <2>12 DEF Retarget
<1> HIDE DEF New
<1>6. Mentioned(v1, job) \/ New
  BY <1>3, <1>4, <1>5 DEF Mentioned
<1> QED
  BY <1>6 DEF New

\* What the miner was told are jobs of the bridge.
ToldJobs == \A v1 \in DOMAIN told : told[v1].job \in Job

LEMMA MentionedIsJob ==
    ASSUME MinerTypes, ToldJobs, NEW v1, NEW job, Mentioned(v1, job)
    PROVE  job \in Job
BY DEF MinerTypes, NotifierTypes, UpdateTypes, Task, Message, ToldJobs, Mentioned, Says

LEMMA ToldJobsStep ==
    ASSUME MinerTypes, ToldJobs, [Next]_vars
    PROVE  ToldJobs'
<1> SUFFICES ASSUME NEW v1 \in DOMAIN told' PROVE told'[v1].job \in Job
  BY DEF ToldJobs
<1>1. v1 # 0
  <2>1. v1 \in V1s' /\ issues' \in Nat
    BY IdsGrow, ToldTypesStep DEF ToldTypes, RecentTypes
  <2> QED
    BY <2>1, MinerAssumption DEF V1s
<1>2. ASSUME NEW job, job = told'[v1].job PROVE Mentioned(v1, job)'
  BY <1>2 DEF Mentioned
<1>3. ASSUME NEW job, Mentioned(v1, job)' PROVE job \in Job
  <2>1. CASE Mentioned(v1, job)
    BY <2>1, MentionedIsJob
  <2>2. CASE v1 \in DOMAIN recent'.issued /\ recent'.issued[v1].job = job
    BY <2>2, IdsGrow DEF RecentTypes, IssuedTypes
  <2> QED
    BY <1>1, <1>3, <2>1, <2>2, MentionsStep
<1> QED
  BY <1>2, <1>3

LEMMA NamesItsJobStep ==
    ASSUME MinerTypes, NamesItsJob, [Next]_vars
    PROVE  NamesItsJob'
<1> SUFFICES ASSUME NEW v1 \in DOMAIN recent'.issued, NEW job \in Job, Mentioned(v1, job)',
                    <<v1, job>> \notin redrawn'
             PROVE  recent'.issued[v1].job = job
  BY DEF NamesItsJob, Job
<1>1. v1 # 0
  BY IdsGrow, MinerAssumption DEF RecentTypes, IssuedTypes, V1s
<1>2. CASE Mentioned(v1, job)
  <2>1. ASSUME NEW n, NEW d, IssueStep(n, d), v1 = NewId PROVE FALSE
    BY <1>2, <2>1, DrawnAgain
  <2>2. v1 \in DOMAIN recent.issued /\ recent'.issued[v1] = recent.issued[v1]
    BY <2>1, EntriesStay
  <2>3. <<v1, job>> \notin redrawn
    BY RedrawnMoves
  <2> QED
    BY <1>2, <2>2, <2>3 DEF NamesItsJob
<1> QED
  BY <1>1, <1>2, MentionsStep

LEMMA FaithfulStep ==
    ASSUME MinerTypes, Faithful, [Next]_vars
    PROVE  Faithful'
<1>1. firstJob \in JobEntry /\ recent.jobs \in Seq(JobEntry)
  BY DEF MinerTypes, BridgeTypes, RecentTypes
<1>2. ASSUME NEW n, NEW d, AddStep(n, d) \/ CloneStep(n, d),
             n.job \notin renamed' => n.id = n.job, renamed \subseteq renamed'
      PROVE  /\ recent'.jobs # <<>>
             /\ \A v1 \in DOMAIN recent'.issued :
                   recent'.issued[v1].job \notin renamed' =>
                      recent'.issued[v1].v2 = recent'.issued[v1].job
             /\ \A i \in DOMAIN recent'.jobs :
                   recent'.jobs[i].job \notin renamed' => recent'.jobs[i].id = recent'.jobs[i].job
  <2>1. /\ recent'.jobs # <<>>
        /\ \A i \in DOMAIN recent'.jobs :
              recent'.jobs[i] = n \/ \E j \in DOMAIN recent.jobs : recent'.jobs[i] = recent.jobs[j]
    BY <1>2 DEF AddStep, CloneStep
  <2>2. \A v1 \in DOMAIN recent'.issued :
           \/ recent'.issued[v1].v2 = n.id /\ recent'.issued[v1].job = n.job
           \/ v1 \in DOMAIN recent.issued /\ recent'.issued[v1] = recent.issued[v1]
    BY <1>2 DEF AddStep, CloneStep, IssueStep, Issued
  <2> QED
    BY <1>2, <2>1, <2>2 DEF Faithful
<1>3. CASE Rests
  BY <1>3 DEF Rests, NoIssue, Faithful
<1>4. CASE Opens
  BY <1>4 DEF Opens, OnNewSv1Connection, NoIssue, Faithful
<1>5. CASE Configures
  <2>1. AddStep(firstJob, diff) /\ renamed \subseteq renamed'
        /\ (firstJob.job \notin renamed' => firstJob.id = firstJob.job)
    BY <1>5 DEF Configures
  <2> QED
    BY <1>2, <2>1 DEF Faithful
<1>6. CASE Seeds
  <2>1. AddStep(firstJob, diff) /\ firstJob.id = firstJob.job /\ UNCHANGED <<firstJob, renamed>>
    BY <1>6 DEF Seeds, Faithful
  <2> QED
    BY <1>2, <2>1 DEF Faithful
<1>7. ASSUME NEW d, Clones(d) PROVE Faithful'
  <2>1. /\ CloneStep(LastJob(recent), d) /\ UNCHANGED <<firstJob, renamed>>
        /\ LastJob(recent).job \notin renamed => LastJob(recent).id = LastJob(recent).job
    BY <1>1, <1>7 DEF Clones, CloneStep, Faithful, LastJob
  <2> QED
    BY <1>2, <2>1 DEF Faithful
<1>8. CASE Receives
  <2>1. AddStep(firstJob', diff) /\ firstJob'.id = firstJob'.job /\ UNCHANGED renamed
    BY <1>8 DEF Receives
  <2> QED
    BY <1>2, <2>1 DEF Faithful
<1> QED
  BY <1>3, <1>4, <1>5, <1>6, <1>7, <1>8, JobMoves

NamesInv == NamesItsJob /\ Faithful /\ ToldJobs

LEMMA NamesHold == Spec => []NamesInv
<1>1. Init => NamesInv
  BY DEF Init, NamesInv, NamesItsJob, Faithful, ToldJobs
<1>2. MinerTypes /\ NamesInv /\ [Next]_vars => NamesInv'
  BY NamesItsJobStep, FaithfulStep, ToldJobsStep DEF NamesInv
<1> QED
  BY <1>1, <1>2, MinerTypesHold, PTL DEF Spec

\* Whatever was evicted and issued since, a share resolves to the job the miner hashed
\* (handle_submit_request with RecentJobs::get_matching_job), unless new_v1 drew the id
\* of that job again after its eviction; and it is forwarded under the pool's id of that
\* job, unless the job was configured twice as first_job.  The ids are random and only
\* kept apart from those in the maps, as in new_v1.
THEOREM ResolvesToItsJobHolds == Spec => []ResolvesToItsJob
<1>1. NamesInv => ResolvesToItsJob
  <2> SUFFICES ASSUME NamesInv, NEW v1 \in DOMAIN told \cap DOMAIN recent.issued,
                      <<v1, told[v1].job>> \notin redrawn
               PROVE  /\ recent.issued[v1].job = told[v1].job
                      /\ told[v1].job \notin renamed => recent.issued[v1].v2 = told[v1].job
    BY DEF ResolvesToItsJob
  <2>1. told[v1].job \in Job /\ Mentioned(v1, told[v1].job)
    BY DEF NamesInv, ToldJobs, Mentioned
  <2>2. recent.issued[v1].job = told[v1].job
    BY <2>1 DEF NamesInv, NamesItsJob
  <2> QED
    BY <2>2 DEF NamesInv, Faithful
<1> QED
  BY <1>1, NamesHold, PTL

-----------------------------------------------------------------------------
(* The newest job *)

\* Before its tasks run a connection has issued nothing and subscribed to nothing.
Unserved ==
    phase \in {"away", "opened"} =>
        feed = <<>> /\ notifier.pc = "none" /\ recent.jobs = <<>> /\ issues = 0

\* The last job of RecentJobs is first_job.
LastIsFirst == recent.jobs # <<>> => LastJob(recent).job = firstJob.job

\* The last job the connection was given by the bridge.
LastFed == IF feed = <<>> THEN firstJob.job ELSE feed[Len(feed)]

\* It is the newest one, but for a channel opened with an older last_notify.
FedNewest ==
    phase = "running" /\ ("opened" \notin behind \/ notifier.pc = "sending" \/ feed # <<>>)
        => LastFed = sentJob

\* The notifier sends first_job.
SendsFirstJob == notifier.pc \in Sending => notifier.held.job = firstJob.job

\* So does a retarget that no notify has overtaken, ...
ResendsFirstJob ==
    "overtaken" \notin behind => \A x \in Reissued : update[x].held.job = firstJob.job

\* ... and the miner works on it.
WorksOnFirstJob ==
    phase = "running" /\ "overtaken" \notin behind /\ notifier.pc = "listening"
        => minerJob \in DOMAIN told /\ told[minerJob].job = firstJob.job

LEMMA UnservedStep ==
    ASSUME MinerTypes, Unserved, [Next]_vars
    PROVE  Unserved'
<1> USE DEF bridgeVars, jobVars, minerVars, retargetVars
<1>1. notifier.pc = "none" => \A x \in Updaters : update[x].pc = "off"
  BY DEF MinerTypes, Started, Updaters
<1>2. CASE Broadcast
  <2>1. UNCHANGED <<phase, notifier, recent, issues>>
    BY <1>2 DEF Broadcast
  <2>2. ASSUME phase \in {"away", "opened"} PROVE feed' = feed
    <3>1. Len(feed) # Buffer
      BY <2>2, MinerAssumption DEF Unserved
    <3> QED
      BY <1>2, <2>2, <3>1 DEF Broadcast
  <2> QED
    BY <2>1, <2>2 DEF Unserved
<1>3. CASE Open
  BY <1>3 DEF Open, Unserved
<1>4. CASE NewDownstream \/ Disconnect \/ Kill
  BY <1>4 DEF NewDownstream, Disconnect, Kill, Unserved
<1>5. CASE Configure \/ Bootstrap
  BY <1>5 DEF Configure, Bootstrap, Unserved
<1>6. CASE AuthTimeout \/ Notifier
  BY <1>6 DEF AuthTimeout, Notifier, Seed, InitDifficulty, SendSeed, ReceiveNotify,
              SendNotify, Unserved
<1>7. ASSUME NEW x \in Updaters, Decide(x) \/ Retarget(x) PROVE Unserved'
  <2>1. update[x].pc # "off" /\ UNCHANGED phase
    BY <1>7 DEF Decide, Retarget, Announce, Reissue, SkipReissue, Resend
  <2> QED
    BY <1>1, <2>1 DEF Unserved
<1>8. CASE /\ [Next]_vars
           /\ ~(Broadcast \/ Open \/ NewDownstream \/ Disconnect \/ Kill)
           /\ ~(Configure \/ Bootstrap \/ AuthTimeout \/ Notifier)
           /\ ~(\E x \in Updaters : Decide(x) \/ Retarget(x))
  BY <1>8 DEF Next, vars, StoreNotify, Authorize, Submit, Unserved
<1> QED
  BY <1>2, <1>3, <1>4, <1>5, <1>6, <1>7, <1>8

LEMMA LastIsFirstStep ==
    ASSUME MinerTypes, Unserved, LastIsFirst, [Next]_vars
    PROVE  LastIsFirst'
<1>1. CASE Rests
  BY <1>1 DEF Rests, NoIssue, LastIsFirst, LastJob
<1>2. CASE Opens
  BY <1>2 DEF Opens, NoIssue, LastIsFirst, Unserved
<1>3. CASE Configures
  BY <1>3 DEF Configures, AddStep, LastIsFirst
<1>4. CASE Seeds
  BY <1>4 DEF Seeds, AddStep, LastIsFirst
<1>5. ASSUME NEW d, Clones(d) PROVE LastIsFirst'
  BY <1>5 DEF Clones, CloneStep, LastIsFirst, LastJob
<1>6. CASE Receives
  BY <1>6 DEF Receives, AddStep, LastIsFirst
<1> QED
  BY <1>1, <1>2, <1>3, <1>4, <1>5, <1>6, JobMoves

\* Which steps change what the connection is given, and what it has made of it.
FeedRests ==
    /\ UNCHANGED <<phase, feed, sentJob, behind>>
    /\ firstJob'.job = firstJob.job
    /\ notifier'.pc = "sending" => notifier.pc = "sending"

LEMMA FeedMoves ==
    ASSUME MinerTypes, [Next]_vars
    PROVE  \/ Broadcast \/ Open \/ NewDownstream \/ Disconnect \/ Kill
           \/ ReceiveNotify \/ SendNotify \/ FeedRests
<1> USE DEF bridgeVars, jobVars, minerVars, retargetVars
<1>1. /\ notifier = [pc |-> notifier.pc, held |-> notifier.held]
      /\ firstJob = [id |-> firstJob.id, job |-> firstJob.job]
  BY DEF MinerTypes, NotifierTypes, BridgeTypes, JobEntry
<1>2. CASE Configure \/ Authorize \/ StoreNotify
  BY <1>1, <1>2 DEF Configure, Authorize, StoreNotify, FeedRests
<1>3. CASE Bootstrap \/ AuthTimeout \/ Seed
  BY <1>1, <1>3 DEF Bootstrap, AuthTimeout, Seed, FeedRests
<1>4. CASE InitDifficulty \/ SendSeed
  BY <1>1, <1>4 DEF InitDifficulty, SendSeed, FeedRests
<1>5. ASSUME NEW x \in Updaters, Decide(x) \/ Retarget(x) PROVE FeedRests
  <2>1. UNCHANGED <<phase, feed, sentJob, behind, firstJob>>
    BY <1>5 DEF Decide, Retarget, Announce, Reissue, SkipReissue, Resend
  <2> QED
    BY <1>5, <2>1, RetargetMoves DEF FeedRests
<1>6. CASE UNCHANGED vars
  BY <1>6 DEF vars, FeedRests
<1>7. ASSUME NEW v1, NEW q, NEW b, Submit(v1, q, b) PROVE FeedRests
  BY <1>7 DEF Submit, FeedRests
<1> QED
  BY <1>2, <1>3, <1>4, <1>5, <1>6, <1>7 DEF Next, Notifier

LEMMA FedNewestStep ==
    ASSUME MinerTypes, Unserved, FedNewest, [Next]_vars
    PROVE  FedNewest'
<1>1. feed \in Seq(Job) /\ Buffer \in Nat \ {0} /\ sentJob \in Nat
  BY MinerAssumption DEF MinerTypes, BridgeTypes, Job
<1>2. CASE Broadcast
  <2>1. CASE phase = "running"
    <3>1. feed' = Append(feed, sentJob + 1) \/ (feed # <<>> /\ feed' = Append(Tail(feed), sentJob + 1))
      BY <1>1, <1>2, <2>1 DEF Broadcast
    <3>2. feed' # <<>> /\ feed'[Len(feed')] = sentJob + 1
      BY <1>1, <3>1
    <3> QED
      BY <1>2, <3>2 DEF Broadcast, FedNewest, LastFed
  <2>2. CASE phase # "running"
    BY <1>2, <2>2 DEF Broadcast, FedNewest
  <2> QED
    BY <2>1, <2>2
<1>3. CASE Open \/ Disconnect \/ Kill
  BY <1>3 DEF Open, Disconnect, Kill, FedNewest
<1>4. CASE NewDownstream
  BY <1>4 DEF NewDownstream, FedNewest, LastFed, Unserved, jobVars, bridgeVars
<1>5. CASE ReceiveNotify
  <2>1. feed # <<>> /\ feed' = Tail(feed) /\ firstJob'.job = Head(feed) /\ UNCHANGED <<phase, sentJob>>
    BY <1>5 DEF ReceiveNotify, bridgeVars
  <2>2. CASE phase = "running"
    <3>1. feed[Len(feed)] = sentJob
      BY <2>1, <2>2 DEF FedNewest, LastFed
    <3>2. Tail(feed) \in Seq(Job) /\ Len(Tail(feed)) = Len(feed) - 1 /\ Head(feed) = feed[1]
          /\ \A i \in 1 .. Len(Tail(feed)) : Tail(feed)[i] = feed[i + 1]
      BY <1>1, <2>1
    <3>3. LastFed' = sentJob
      <4>1. CASE Tail(feed) = <<>>
        <5>1. Len(feed) = 1
          BY <1>1, <3>2, <4>1
        <5> QED
          BY <2>1, <3>1, <3>2, <4>1, <5>1 DEF LastFed
      <4>2. CASE Tail(feed) # <<>>
        <5>1. Len(Tail(feed)) \in 1 .. Len(Tail(feed)) /\ Len(Tail(feed)) + 1 = Len(feed)
          BY <1>1, <3>2, <4>2
        <5>2. Tail(feed)[Len(Tail(feed))] = feed[Len(feed)]
          BY <3>2, <5>1
        <5> QED
          BY <2>1, <3>1, <4>2, <5>2 DEF LastFed
      <4> QED
        BY <4>1, <4>2
    <3> QED
      BY <2>1, <3>3 DEF FedNewest
  <2> QED
    BY <2>1, <2>2 DEF FedNewest
<1>6. CASE SendNotify
  BY <1>6 DEF SendNotify, FedNewest, LastFed, jobVars, bridgeVars
<1>7. CASE FeedRests
  BY <1>7 DEF FeedRests, FedNewest, LastFed
<1> QED
  BY <1>2, <1>3, <1>4, <1>5, <1>6, <1>7, FeedMoves

\* A message that is on its way after a step was on its way before, saying the same, or
\* was issued by the step; a retarget that is decided leaves none calm.
SameMessage(g, h) ==
    /\ g.v1 = h.v1 /\ g.job = h.job
    /\ g.calm => h.calm /\ ~(\E z \in Updaters : Decide(z))

LEMMA NotifierMoves ==
    ASSUME MinerTypes, [Next]_vars, notifier'.pc \in Sending
    PROVE  \/ notifier.pc \in Sending /\ SameMessage(notifier'.held, notifier.held)
           \/ Seed
           \/ ReceiveNotify
<1> USE DEF bridgeVars, jobVars, minerVars, retargetVars
<1>1. notifier = [pc |-> notifier.pc, held |-> notifier.held] /\ notifier.held \in Message
  BY DEF MinerTypes, NotifierTypes
<1>2. CASE Kill \/ SendSeed \/ SendNotify \/ Bootstrap \/ AuthTimeout
  BY <1>1, <1>2 DEF Kill, SendSeed, SendNotify, Bootstrap, AuthTimeout, Sending
<1>3. ASSUME NEW x \in Updaters, Decide(x)
      PROVE  notifier.pc \in Sending /\ SameMessage(notifier'.held, notifier.held)
  <2>1. notifier'.held = Crossed(notifier.held) /\ notifier'.pc = notifier.pc
    BY <1>1, <1>3 DEF Decide
  <2>2. notifier.held.v1 # 0
    BY <2>1, ZeroIsNoId DEF MinerTypes, NotifierTypes
  <2> QED
    BY <1>1, <2>1, <2>2, CrossedKeeps DEF SameMessage
<1>4. ASSUME ~(\E x \in Updaters : Decide(x)),
             ~(Kill \/ SendSeed \/ SendNotify \/ Bootstrap \/ AuthTimeout),
             ~(Seed \/ ReceiveNotify)
      PROVE  notifier.pc \in Sending /\ SameMessage(notifier'.held, notifier.held)
  <2>1. CASE InitDifficulty
    BY <1>1, <1>4, <2>1 DEF InitDifficulty, Sending, SameMessage
  <2>2. CASE ~InitDifficulty
    <3>1. UNCHANGED notifier
      BY <1>4, <2>2 DEF Next, Notifier, Retarget, vars, Broadcast, StoreNotify, Open,
           NewDownstream, Disconnect, Configure, Authorize, Submit, Announce, Reissue,
           SkipReissue, Resend
    <3> QED
      BY <1>4, <3>1 DEF SameMessage
  <2> QED
    BY <2>1, <2>2
<1> QED
  BY <1>2, <1>3, <1>4

LEMMA ReissuedMoves ==
    ASSUME MinerTypes, [Next]_vars, NEW y \in Updaters, update'[y].pc = "reissued"
    PROVE  \/ update[y].pc = "reissued" /\ SameMessage(update'[y].held, update[y].held)
           \/ /\ Reissue(y)
              /\ update'[y].held = Held(NewId, LastJob(recent).job, ~overlap)
<1> USE DEF bridgeVars, jobVars, minerVars, retargetVars
<1>1. update \in [Updaters -> Task] /\ update[y] \in Task /\ update[y].held \in Message
  BY DEF MinerTypes, UpdateTypes, Task
<1>2. ASSUME NEW x \in Updaters, Decide(x)
      PROVE  update[y].pc = "reissued" /\ SameMessage(update'[y].held, update[y].held)
  <2>1. update'[y].held = Crossed(update[y].held) /\ update'[y].pc = update[y].pc
    BY <1>1, <1>2 DEF Decide, Task
  <2>2. update[y].held.v1 # 0
    BY <2>1, ZeroIsNoId DEF MinerTypes, UpdateTypes
  <2> QED
    BY <1>1, <2>1, <2>2, CrossedKeeps DEF SameMessage
<1>3. ASSUME NEW x \in Updaters, Reissue(x), y # x PROVE update'[y] = update[y]
  BY <1>3, ReissueIssues
<1>4. ASSUME Reissue(y) PROVE update'[y].held = Held(NewId, LastJob(recent).job, ~overlap)
  BY <1>4, ReissueIssues
<1>5. ASSUME NEW x \in Updaters, Announce(x) \/ SkipReissue(x) \/ Resend(x) PROVE update'[y] = update[y]
  BY <1>1, <1>5 DEF Announce, SkipReissue, Resend, SetTarget, NoUpdate, Task
<1>6. CASE Kill \/ InitDifficulty \/ SendSeed \/ AuthTimeout
  <2>1. update'[y] = update[y]
    BY <1>1, <1>6 DEF Kill, InitDifficulty, SendSeed, AuthTimeout, NoUpdate, Task
  <2> QED
    BY <1>2, <2>1 DEF SameMessage
<1>7. CASE /\ ~(Kill \/ InitDifficulty \/ SendSeed \/ AuthTimeout)
           /\ ~(\E x \in Updaters : Decide(x) \/ Retarget(x))
  <2>1. UNCHANGED update
    BY <1>7 DEF Next, Notifier, vars, Broadcast, StoreNotify, Open, NewDownstream,
         Disconnect, Configure, Authorize, Submit, Bootstrap, Seed, ReceiveNotify, SendNotify
  <2> QED
    BY <1>7, <2>1 DEF SameMessage
<1>8. CASE ~(\E x \in Updaters : Decide(x)) /\ update'[y] = update[y]
  BY <1>8 DEF SameMessage
<1> QED
  BY <1>2, <1>3, <1>4, <1>5, <1>6, <1>7, <1>8 DEF Retarget

LEMMA SendsFirstJobStep ==
    ASSUME MinerTypes, Unserved, LastIsFirst, SendsFirstJob, [Next]_vars
    PROVE  SendsFirstJob'
<1> SUFFICES ASSUME notifier'.pc \in Sending PROVE notifier'.held.job = firstJob'.job
  BY DEF SendsFirstJob
<1>1. CASE Seed
  <2>1. UNCHANGED firstJob
    BY <1>1 DEF Seed
  <2>2. \/ notifier'.held = Held(NewId, firstJob.job, Calm)
        \/ recent.jobs # <<>> /\ notifier'.held = Held(NewId, LastJob(recent).job, Calm)
    BY <1>1, SeedIssues DEF CloneStep
  <2> QED
    BY <2>1, <2>2 DEF LastIsFirst, Held
<1>2. CASE ReceiveNotify
  BY <1>2 DEF ReceiveNotify, Held
<1>3. CASE notifier.pc \in Sending /\ SameMessage(notifier'.held, notifier.held)
  <2>1. notifier.pc \notin {"none", "listening"}
    BY <1>3 DEF Sending
  <2>2. firstJob'.job = firstJob.job
    <3>1. ~ReceiveNotify /\ ~Open
      BY <2>1 DEF ReceiveNotify, Open, Unserved
    <3> QED
      BY <3>1, FeedMoves DEF Broadcast, NewDownstream, Disconnect, Kill, SendNotify, FeedRests,
           jobVars
  <2> QED
    BY <1>3, <2>2 DEF SendsFirstJob, SameMessage
<1> QED
  BY <1>1, <1>2, <1>3, NotifierMoves

LEMMA ResendsFirstJobStep ==
    ASSUME MinerTypes, Unserved, LastIsFirst, ResendsFirstJob, [Next]_vars
    PROVE  ResendsFirstJob'
<1> SUFFICES ASSUME "overtaken" \notin behind', NEW y \in Updaters, update'[y].pc = "reissued"
             PROVE  update'[y].held.job = firstJob'.job
  BY DEF ResendsFirstJob, Reissued
<1>1. CASE Reissue(y) /\ update'[y].held = Held(NewId, LastJob(recent).job, ~overlap)
  BY <1>1 DEF Reissue, Held, LastIsFirst, jobVars
<1>2. CASE update[y].pc = "reissued" /\ SameMessage(update'[y].held, update[y].held)
  <2>1. y \in Reissued
    BY <1>2 DEF Reissued
  <2>2. ~Open
    BY <1>2 DEF Open, Unserved, MinerTypes, Started, Updaters
  <2>3. ~ReceiveNotify
    BY <2>1 DEF ReceiveNotify
  <2>4. firstJob'.job = firstJob.job
    BY <2>2, <2>3, FeedMoves DEF Broadcast, NewDownstream, Disconnect, Kill, SendNotify,
         FeedRests, jobVars
  <2>5. "overtaken" \notin behind
    BY <2>1, <2>2, <2>3, FeedMoves DEF Broadcast, NewDownstream, Disconnect, Kill, SendNotify,
         FeedRests
  <2> QED
    BY <1>2, <2>1, <2>4, <2>5 DEF ResendsFirstJob, SameMessage
<1> QED
  BY <1>1, <1>2, ReissuedMoves

\* What a step does to the miner's own view.
Hears == \/ SendSeed \/ SendNotify \/ \E x \in Updaters : Resend(x)

LEMMA ToldMoves ==
    ASSUME [Next]_vars, ~Hears, ~Disconnect
    PROVE  UNCHANGED <<told, minerJob>>
BY DEF Hears, Next, Notifier, Retarget, vars, minerVars, Broadcast, StoreNotify, Open,
   NewDownstream, Kill, Configure, Authorize, Submit, Bootstrap, AuthTimeout, Seed,
   InitDifficulty, ReceiveNotify, Decide, Announce, Reissue, SkipReissue, SendDifficulty, Gone

LEMMA ListeningBefore ==
    ASSUME MinerTypes, [Next]_vars, notifier'.pc = "listening", ~SendSeed, ~SendNotify
    PROVE  notifier.pc = "listening"
<1>1. notifier = [pc |-> notifier.pc, held |-> notifier.held]
  BY DEF MinerTypes, NotifierTypes
<1>2. CASE Kill \/ Bootstrap \/ AuthTimeout \/ Seed \/ InitDifficulty \/ ReceiveNotify
  BY <1>1, <1>2 DEF Kill, Bootstrap, AuthTimeout, Seed, InitDifficulty, ReceiveNotify
<1>3. ASSUME NEW x \in Updaters, Decide(x) \/ Retarget(x) PROVE notifier'.pc = notifier.pc
  BY <1>3, RetargetMoves
<1>4. CASE /\ ~(Kill \/ Bootstrap \/ AuthTimeout \/ Seed \/ InitDifficulty \/ ReceiveNotify)
           /\ ~(\E x \in Updaters : Decide(x) \/ Retarget(x))
  BY <1>4 DEF Next, Notifier, vars, Broadcast, StoreNotify, Open, NewDownstream, Disconnect,
       Configure, Authorize, Submit
<1> QED
  BY <1>2, <1>3, <1>4

LEMMA WorksOnFirstJobStep ==
    ASSUME MinerTypes, Unserved, SendsFirstJob, ResendsFirstJob, WorksOnFirstJob, [Next]_vars
    PROVE  WorksOnFirstJob'
<1> USE DEF bridgeVars, jobVars, minerVars, retargetVars
<1> SUFFICES ASSUME phase' = "running", "overtaken" \notin behind', notifier'.pc = "listening"
             PROVE  minerJob' \in DOMAIN told' /\ told'[minerJob'].job = firstJob'.job
  BY DEF WorksOnFirstJob
<1>1. ASSUME NEW h, SendJob(h), phase = "running"
      PROVE  minerJob' \in DOMAIN told' /\ told'[minerJob'].job = h.job
  BY <1>1, JobSent
<1>2. CASE SendSeed \/ SendNotify
  <2>1. /\ SendJob(notifier.held) /\ notifier.held.job = firstJob.job
        /\ UNCHANGED <<phase, firstJob>>
    BY <1>2 DEF SendSeed, SendNotify, SendsFirstJob, Sending
  <2> QED
    BY <1>1, <2>1
<1>3. ASSUME NEW x \in Updaters, Resend(x)
      PROVE  minerJob' \in DOMAIN told' /\ told'[minerJob'].job = firstJob'.job
  <2>1. /\ SendJob(update[x].held) /\ update[x].held.job = firstJob.job
        /\ UNCHANGED <<phase, firstJob>>
    BY <1>3 DEF Resend, ResendsFirstJob, Reissued
  <2> QED
    BY <1>1, <2>1
<1>4. CASE ~Hears
  <2>1. notifier.pc = "listening"
    BY <1>4, ListeningBefore DEF Hears
  <2>2. ~ReceiveNotify /\ ~SendNotify /\ ~Open /\ ~NewDownstream /\ ~Disconnect /\ ~Kill
    BY <2>1 DEF ReceiveNotify, SendNotify, Open, NewDownstream, Unserved, Disconnect, Kill
  <2>3. UNCHANGED <<phase, behind>> /\ firstJob'.job = firstJob.job
    BY <2>2, FeedMoves DEF Broadcast, FeedRests
  <2> QED
    BY <1>4, <2>1, <2>2, <2>3, ToldMoves DEF WorksOnFirstJob
<1> QED
  BY <1>2, <1>3, <1>4 DEF Hears

CurrentInv ==
    /\ Unserved /\ LastIsFirst /\ FedNewest
    /\ SendsFirstJob /\ ResendsFirstJob /\ WorksOnFirstJob

LEMMA CurrentHolds == Spec => []CurrentInv
<1>1. Init => CurrentInv
  BY DEF Init, CurrentInv, Unserved, LastIsFirst, FedNewest, SendsFirstJob, ResendsFirstJob,
         WorksOnFirstJob, Sending, Reissued, NoUpdate
<1>2. MinerTypes /\ CurrentInv /\ [Next]_vars => CurrentInv'
  BY UnservedStep, LastIsFirstStep, FedNewestStep, SendsFirstJobStep, ResendsFirstJobStep,
     WorksOnFirstJobStep DEF CurrentInv
<1> QED
  BY <1>1, <1>2, MinerTypesHold, PTL DEF Spec

\* A connection at rest has its miner on the newest job of the bridge (start_notify), but
\* for a channel opened with an older last_notify and a retarget that a notify overtook.
THEOREM MinerIsCurrentHolds == Spec => []MinerIsCurrentUnlessRaced
<1>1. MinerTypes /\ CurrentInv => MinerIsCurrentUnlessRaced
  <2> SUFFICES ASSUME MinerTypes, CurrentInv, behind = {}, Quiet
               PROVE  told[minerJob].job = sentJob
    BY DEF MinerIsCurrentUnlessRaced, MinerIsCurrent
  <2>1. firstJob.job = sentJob
    BY DEF CurrentInv, FedNewest, LastFed, Quiet
  <2> QED
    BY <2>1 DEF CurrentInv, WorksOnFirstJob, Quiet
<1> QED
  BY <1>1, MinerTypesHold, CurrentHolds, PTL

-----------------------------------------------------------------------------
(* Recent jobs are kept *)

LEMMA AppendAt ==
    ASSUME NEW S, NEW s \in Seq(S), NEW e \in S, NEW i \in DOMAIN Append(s, e)
    PROVE  \/ i \in DOMAIN s /\ Append(s, e)[i] = s[i]
           \/ i = Len(s) + 1 /\ Append(s, e)[i] = e
<1>1. /\ Append(s, e) \in Seq(S) /\ Len(Append(s, e)) = Len(s) + 1
      /\ DOMAIN s = 1 .. Len(s) /\ Len(s) \in Nat
  OBVIOUS
<1>2. i \in 1 .. Len(s) + 1
  BY <1>1
<1>3. i = Len(s) + 1 \/ i \in 1 .. Len(s)
  BY <1>1, <1>2
<1> QED
  BY <1>1, <1>3, AppendProperties

LEMMA TailAt ==
    ASSUME NEW S, NEW s \in Seq(S), s # <<>>, NEW i \in DOMAIN Tail(s)
    PROVE  /\ i \in Nat /\ i >= 1 /\ i + 1 \in DOMAIN s /\ Tail(s)[i] = s[i + 1]
           /\ Head(s) = s[1] /\ 1 \in DOMAIN s
<1>1. /\ Tail(s) \in Seq(S) /\ Len(Tail(s)) = Len(s) - 1
      /\ DOMAIN s = 1 .. Len(s) /\ Len(s) \in Nat
  OBVIOUS
<1>2. i \in 1 .. Len(s) - 1
  BY <1>1
<1> QED
  BY <1>1, <1>2

\* Jobs in the order of the bridge, after lo and up to hi.
Ascending(q, lo, hi) ==
    /\ lo <= hi
    /\ \A i \in DOMAIN q : lo < q[i] /\ q[i] <= hi
    /\ \A i, j \in DOMAIN q : i < j => q[i] < q[j]

LEMMA AscendingAppend ==
    ASSUME NEW q \in Seq(Nat), NEW lo \in Nat, NEW hi \in Nat, Ascending(q, lo, hi)
    PROVE  Ascending(Append(q, hi + 1), lo, hi + 1)
<1> DEFINE r == Append(q, hi + 1)
<1>1. /\ DOMAIN q = 1 .. Len(q) /\ Len(q) \in Nat /\ \A i \in DOMAIN q : q[i] \in Nat /\ i \in Nat
      /\ hi + 1 \in Nat
  OBVIOUS
<1>2. ASSUME NEW i \in DOMAIN r
      PROVE  (i \in DOMAIN q /\ r[i] = q[i]) \/ (i = Len(q) + 1 /\ r[i] = hi + 1)
  BY <1>1, <1>2, AppendAt
<1> HIDE DEF r
<1>3. ASSUME NEW i \in DOMAIN r PROVE lo < r[i] /\ r[i] <= hi + 1
  <2>1. CASE i \in DOMAIN q /\ r[i] = q[i]
    <3>1. lo < q[i] /\ q[i] <= hi /\ q[i] \in Nat
      BY <1>1, <2>1 DEF Ascending
    <3> QED
      BY <2>1, <3>1
  <2>2. CASE r[i] = hi + 1
    BY <2>2 DEF Ascending
  <2> QED
    BY <1>2, <2>1, <2>2
<1>4. ASSUME NEW i \in DOMAIN r, NEW j \in DOMAIN r, i < j PROVE r[i] < r[j]
  <2>1. CASE j \in DOMAIN q /\ r[j] = q[j]
    <3>1. i \in DOMAIN q /\ r[i] = q[i]
      BY <1>1, <1>2, <1>4, <2>1
    <3> QED
      BY <1>4, <2>1, <3>1 DEF Ascending
  <2>2. CASE j = Len(q) + 1 /\ r[j] = hi + 1
    <3>1. i \in DOMAIN q /\ r[i] = q[i]
      BY <1>1, <1>2, <1>4, <2>2
    <3>2. q[i] <= hi /\ q[i] \in Nat
      BY <1>1, <3>1 DEF Ascending
    <3> QED
      BY <2>2, <3>1, <3>2
  <2> QED
    BY <1>2, <2>1, <2>2
<1>5. lo <= hi + 1
  BY DEF Ascending
<1> QED
  BY <1>3, <1>4, <1>5 DEF Ascending, r

LEMMA AscendingTail ==
    ASSUME NEW q \in Seq(Nat), NEW lo \in Nat, NEW hi \in Nat, Ascending(q, lo, hi), q # <<>>
    PROVE  /\ Tail(q) \in Seq(Nat) /\ Head(q) \in Nat /\ lo < Head(q)
           /\ Ascending(Tail(q), Head(q), hi)
           /\ Ascending(Tail(q), lo, hi)
<1> DEFINE r == Tail(q)
<1>1. /\ \A i \in DOMAIN q : q[i] \in Nat
      /\ Tail(q) \in Seq(Nat) /\ Head(q) = q[1] /\ 1 \in DOMAIN q
  OBVIOUS
<1>2. ASSUME NEW i \in DOMAIN r PROVE i \in Nat /\ i >= 1 /\ i + 1 \in DOMAIN q /\ r[i] = q[i + 1]
  BY <1>2, TailAt
<1> HIDE DEF r
<1>3. q[1] \in Nat /\ lo < q[1] /\ q[1] <= hi
  BY <1>1 DEF Ascending
<1>4. ASSUME NEW i \in DOMAIN r PROVE q[1] < r[i] /\ lo < r[i] /\ r[i] <= hi
  <2>1. i + 1 \in DOMAIN q /\ 1 < i + 1 /\ r[i] = q[i + 1]
    BY <1>2
  <2>2. ASSUME NEW k \in DOMAIN q, 1 < k PROVE q[1] < q[k] /\ lo < q[k] /\ q[k] <= hi
    BY <1>1, <2>2 DEF Ascending
  <2> QED
    BY <2>1, <2>2
<1>5. ASSUME NEW i \in DOMAIN r, NEW j \in DOMAIN r, i < j PROVE r[i] < r[j]
  <2>1. i + 1 \in DOMAIN q /\ j + 1 \in DOMAIN q /\ i + 1 < j + 1 /\ r[i] = q[i + 1] /\ r[j] = q[j + 1]
    BY <1>2, <1>5
  <2> QED
    BY <2>1 DEF Ascending
<1> QED
  BY <1>1, <1>3, <1>4, <1>5 DEF Ascending, r

\* Jobs are received in the order of the bridge.
FeedOrder == lastNotify <= sentJob /\ Ascending(feed, firstJob.job, sentJob)

LEMMA FeedOrderStep ==
    ASSUME MinerTypes, Unserved, FeedOrder, [Next]_vars
    PROVE  FeedOrder'
<1>1. /\ feed \in Seq(Nat) /\ Buffer \in Nat \ {0}
      /\ sentJob \in Nat /\ lastNotify \in Nat /\ firstJob.job \in Nat
  BY MinerAssumption DEF MinerTypes, BridgeTypes, Job, JobEntry
<1>2. Ascending(feed, firstJob.job, sentJob) /\ lastNotify <= sentJob
  BY DEF FeedOrder
<1>3. CASE Broadcast
  <2>1. UNCHANGED <<firstJob, lastNotify>> /\ sentJob' = sentJob + 1
    BY <1>3 DEF Broadcast, jobVars
  <2>2. \/ feed' = feed \/ feed' = Append(feed, sentJob + 1)
        \/ feed # <<>> /\ feed' = Append(Tail(feed), sentJob + 1)
    <3>1. CASE phase \in {"away", "opened", "closed"} /\ Len(feed) # Buffer
      BY <1>3, <3>1 DEF Broadcast
    <3>2. CASE phase \in {"away", "opened", "closed"} /\ Len(feed) = Buffer
      <4>1. feed # <<>>
        BY <1>1, <3>2
      <4> QED
        BY <1>3, <3>2, <4>1 DEF Broadcast
    <3>3. CASE phase \notin {"away", "opened", "closed"} /\ Len(feed) # Buffer
      BY <1>3, <3>3 DEF Broadcast
    <3>4. CASE phase \notin {"away", "opened", "closed"} /\ Len(feed) = Buffer
      <4>1. feed # <<>>
        BY <1>1, <3>4
      <4> QED
        BY <1>3, <3>4, <4>1 DEF Broadcast
    <3> QED
      BY <3>1, <3>2, <3>3, <3>4
  <2>3. CASE feed' = feed
    <3>1. \A i \in DOMAIN feed : feed[i] \in Nat
      BY <1>1
    <3> QED
      BY <1>1, <1>2, <2>1, <2>3, <3>1 DEF FeedOrder, Ascending
  <2>4. CASE feed' = Append(feed, sentJob + 1)
    BY <1>1, <1>2, <2>1, <2>4, AscendingAppend DEF FeedOrder
  <2>5. CASE feed # <<>> /\ feed' = Append(Tail(feed), sentJob + 1)
    <3>1. Tail(feed) \in Seq(Nat) /\ Ascending(Tail(feed), firstJob.job, sentJob)
      BY <1>1, <1>2, <2>5, AscendingTail
    <3>2. Ascending(Append(Tail(feed), sentJob + 1), firstJob.job, sentJob + 1)
      BY <1>1, <3>1, AscendingAppend
    <3> QED
      BY <1>1, <1>2, <2>1, <2>5, <3>2 DEF FeedOrder
  <2> QED
    BY <2>2, <2>3, <2>4, <2>5
<1>4. CASE Open
  BY <1>1, <1>2, <1>4 DEF Open, OnNewSv1Connection, FeedOrder, Unserved, bridgeVars, Ascending
<1>5. CASE NewDownstream \/ Disconnect \/ SendNotify
  BY <1>2, <1>5 DEF NewDownstream, Disconnect, SendNotify, FeedOrder, jobVars, bridgeVars
<1>6. CASE Kill
  BY <1>2, <1>6 DEF Kill, FeedOrder, jobVars, bridgeVars, Ascending
<1>7. CASE ReceiveNotify
  <2>1. feed # <<>> /\ feed' = Tail(feed) /\ firstJob'.job = Head(feed)
        /\ UNCHANGED <<sentJob, lastNotify>>
    BY <1>7 DEF ReceiveNotify, bridgeVars
  <2> QED
    BY <1>1, <1>2, <2>1, AscendingTail DEF FeedOrder
<1>8. CASE FeedRests
  <2>1. lastNotify' = lastNotify \/ lastNotify' = sentJob
    BY DEF Next, Notifier, Retarget, vars, bridgeVars, Broadcast, StoreNotify, Open, NewDownstream,
         Disconnect, Kill, Configure, Authorize, Submit, Bootstrap, AuthTimeout, Seed,
         InitDifficulty, SendSeed, ReceiveNotify, SendNotify, Decide, Announce, Reissue,
         SkipReissue, Resend
  <2> QED
    BY <1>1, <1>2, <1>8, <2>1 DEF FeedRests, FeedOrder
<1> QED
  BY <1>3, <1>4, <1>5, <1>6, <1>7, <1>8, FeedMoves

\* The ids that last_v2s holds are as far behind first_job as their place says.  The
\* spacing of the tracked ids is what makes the oldest one old enough to be dropped.
Spaced ==
    \A i \in DOMAIN recent.lastV2s :
        firstJob.job - recent.lastV2s[i] >= Len(recent.lastV2s) - i

Tracking ==
    /\ recent.jobs = <<>> => DOMAIN recent.issued = {} /\ recent.lastV2s = <<>>
    /\ renamed = {} =>
          /\ Spaced
          /\ recent.jobs # <<>> =>
                \E v1 \in DOMAIN recent.issued : recent.issued[v1].v2 = firstJob.job
          /\ \A v1 \in DOMAIN recent.issued : recent.issued[v1].v2 <= firstJob.job

\* A job that is tracked already gets one more id, and nothing is dropped.
LEMMA KnownIssue ==
    ASSUME MinerTypes, Tracking, renamed = {}, NEW n, NEW d, IssueStep(n, d),
           n.id = firstJob.job, firstJob'.job = firstJob.job,
           recent'.jobs # <<>>, recent.jobs # <<>>
    PROVE  /\ Tracking'
           /\ DOMAIN recent.issued \subseteq DOMAIN recent'.issued
<1>1. Known(recent, n) /\ Issued(recent, recent', n, d, NewId) /\ firstJob.job \in Nat
  BY DEF Tracking, Known, IssueStep, MinerTypes, BridgeTypes, JobEntry, Job
<1>2. recent'.lastV2s = recent.lastV2s
  BY <1>1 DEF Issued
<1>3. DOMAIN recent.issued \subseteq DOMAIN recent'.issued
  BY <1>1 DEF Issued
<1>4. \A v1 \in DOMAIN recent'.issued : recent'.issued[v1].v2 <= firstJob.job
  BY <1>1 DEF Issued, Tracking
<1>5. NewId \in DOMAIN recent'.issued /\ recent'.issued[NewId].v2 = firstJob.job
  BY <1>1 DEF Issued
<1> QED
  BY <1>2, <1>3, <1>4, <1>5 DEF Tracking, Spaced

\* The first job of a connection.
LEMMA FirstIssue ==
    ASSUME MinerTypes, Tracking, recent.jobs = <<>>, NEW d, IssueStep(firstJob, d),
           firstJob'.job = firstJob.job, recent'.jobs # <<>>, firstJob.id = firstJob.job
    PROVE  Tracking'
<1>1. /\ Issued(recent, recent', firstJob, d, NewId) /\ firstJob.job \in Nat
      /\ DOMAIN recent.issued = {} /\ recent.lastV2s = <<>>
      /\ Tracked \in Nat \ {0}
  BY MinerAssumption DEF Tracking, IssueStep, MinerTypes, BridgeTypes, JobEntry, Job
<1>2. ~Known(recent, firstJob) /\ Len(recent.lastV2s) # Tracked
  BY <1>1 DEF Known
<1>3. recent'.lastV2s = Append(recent.lastV2s, firstJob.id)
  BY <1>1, <1>2 DEF Issued
<1>4. Len(recent'.lastV2s) = 1 /\ DOMAIN recent'.lastV2s = {1} /\ recent'.lastV2s[1] = firstJob.job
  BY <1>1, <1>3
<1>5. /\ NewId \in DOMAIN recent'.issued
      /\ \A v1 \in DOMAIN recent'.issued : recent'.issued[v1].v2 = firstJob.job
  BY <1>1 DEF Issued
<1> QED
  BY <1>1, <1>4, <1>5 DEF Tracking, Spaced

\* One more id at the end, and none or the oldest one less at the front.
LEMMA SpacedAppend ==
    ASSUME NEW l \in Seq(Nat), NEW f \in Nat, NEW g \in Nat, f < g,
           \A i \in DOMAIN l : f - l[i] >= Len(l) - i,
           NEW i \in DOMAIN Append(l, g)
    PROVE  g - Append(l, g)[i] >= Len(Append(l, g)) - i
<1>1. Len(Append(l, g)) = Len(l) + 1 /\ Len(l) \in Nat
  OBVIOUS
<1>2. CASE i \in DOMAIN l /\ Append(l, g)[i] = l[i]
  <2>1. f - l[i] >= Len(l) - i /\ l[i] \in Nat /\ i \in Nat
    BY <1>2
  <2>2. ASSUME NEW a \in Nat, NEW n \in Nat, NEW k \in Nat, f - a >= n - k
        PROVE  g - a >= n + 1 - k
    BY <2>2
  <2> QED
    BY <1>1, <1>2, <2>1, <2>2
<1>3. CASE i = Len(l) + 1 /\ Append(l, g)[i] = g
  <2>1. ASSUME NEW n \in Nat PROVE g - g >= n + 1 - (n + 1)
    OBVIOUS
  <2> QED
    BY <1>1, <1>3, <2>1
<1> QED
  BY <1>2, <1>3, AppendAt

LEMMA SpacedTail ==
    ASSUME NEW l \in Seq(Nat), NEW f \in Nat, l # <<>>,
           \A i \in DOMAIN l : f - l[i] >= Len(l) - i
    PROVE  /\ Tail(l) \in Seq(Nat)
           /\ \A i \in DOMAIN Tail(l) : f - Tail(l)[i] >= Len(Tail(l)) - i
<1>1. Tail(l) \in Seq(Nat) /\ Len(Tail(l)) = Len(l) - 1 /\ Len(l) \in Nat
  OBVIOUS
<1>2. ASSUME NEW i \in DOMAIN Tail(l) PROVE f - Tail(l)[i] >= Len(Tail(l)) - i
  <2>1. i \in Nat /\ i + 1 \in DOMAIN l /\ Tail(l)[i] = l[i + 1]
    BY <1>2, TailAt
  <2>2. f - l[i + 1] >= Len(l) - (i + 1) /\ l[i + 1] \in Nat
    BY <2>1
  <2>3. ASSUME NEW n \in Nat, NEW k \in Nat PROVE n - (k + 1) = n - 1 - k
    OBVIOUS
  <2> QED
    BY <1>1, <2>1, <2>2, <2>3
<1> QED
  BY <1>1, <1>2

\* A job newer than all before: the oldest one tracked is dropped when Tracked are.
LEMMA NewIssue ==
    ASSUME MinerTypes, Tracking, renamed = {}, renamed' = renamed,
           [Next]_vars, NEW n, NEW d, IssueStep(n, d), n.id = firstJob'.job,
           firstJob'.job \in Nat, firstJob.job < firstJob'.job, recent'.jobs # <<>>
    PROVE  /\ Tracking'
           /\ \A v1 \in DOMAIN recent.issued \ DOMAIN recent'.issued :
                 firstJob'.job - recent.issued[v1].v2 >= Tracked
<1> DEFINE l == recent.lastV2s
           l1 == recent'.lastV2s
           f == firstJob.job
           f1 == firstJob'.job
<1>1. /\ Issued(recent, recent', n, d, NewId)
      /\ f \in Nat /\ f1 \in Nat /\ f < f1 /\ Tracked \in Nat \ {0}
      /\ l \in Seq(Nat) /\ n.id = f1
  <2>1. Issued(recent, recent', n, d, NewId)
    BY DEF IssueStep
  <2>2. firstJob.job \in Nat /\ Tracked \in Nat \ {0}
    BY MinerAssumption DEF MinerTypes, BridgeTypes, JobEntry, Job
  <2>3. recent.lastV2s \in Seq(Nat)
    BY DEF MinerTypes, RecentTypes
  <2> QED
    BY <2>1, <2>2, <2>3
<1>2. \A v1 \in DOMAIN recent.issued : recent.issued[v1].v2 <= f /\ recent.issued[v1].v2 \in Nat
  BY DEF Tracking, MinerTypes, RecentTypes, IssuedTypes
<1>3. ~Known(recent, n)
  BY <1>1, <1>2 DEF Known
<1>4. \A i \in DOMAIN l : f - l[i] >= Len(l) - i
  BY DEF Tracking, Spaced
<1>5. l1 = IF Len(l) = Tracked THEN Append(Tail(l), f1) ELSE Append(l, f1)
  BY <1>1, <1>3 DEF Issued
<1>6. \A v1 \in DOMAIN recent.issued \ DOMAIN recent'.issued :
         Len(l) = Tracked /\ recent.issued[v1].v2 = Head(l)
  BY <1>1 DEF Issued
<1>7. /\ NewId \in DOMAIN recent'.issued /\ recent'.issued[NewId].v2 = f1
      /\ \A v1 \in DOMAIN recent'.issued \ {NewId} :
            v1 \in DOMAIN recent.issued /\ recent'.issued[v1].v2 = recent.issued[v1].v2
  BY <1>1 DEF Issued
<1>8. \A v1 \in DOMAIN recent'.issued : recent'.issued[v1].v2 <= f1
  BY <1>1, <1>2, <1>7
<1> HIDE DEF l, l1, f, f1
<1>9. ASSUME NEW i \in DOMAIN l1 PROVE f1 - l1[i] >= Len(l1) - i
  <2>1. CASE Len(l) # Tracked
    BY <1>1, <1>4, <1>5, <1>9, <2>1, SpacedAppend
  <2>2. CASE Len(l) = Tracked
    <3>1. l # <<>>
      BY <1>1, <2>2
    <3>2. Tail(l) \in Seq(Nat) /\ \A k \in DOMAIN Tail(l) : f - Tail(l)[k] >= Len(Tail(l)) - k
      BY <1>1, <1>4, <3>1, SpacedTail
    <3>3. l1 = Append(Tail(l), f1)
      BY <1>5, <2>2
    <3> QED
      BY <1>1, <1>9, <3>2, <3>3, SpacedAppend
  <2> QED
    BY <2>1, <2>2
<1>10. ASSUME NEW v1 \in DOMAIN recent.issued \ DOMAIN recent'.issued
       PROVE  f1 - recent.issued[v1].v2 >= Tracked
  <2>1. Len(l) = Tracked /\ recent.issued[v1].v2 = Head(l)
    BY <1>6
  <2>2. l # <<>> /\ 1 \in DOMAIN l /\ Head(l) = l[1] /\ l[1] \in Nat
    BY <1>1, <2>1
  <2>3. f - l[1] >= Tracked - 1
    BY <1>4, <2>1, <2>2
  <2> QED
    BY <1>1, <2>1, <2>2, <2>3
<1> QED
  BY <1>7, <1>8, <1>9, <1>10 DEF Tracking, Spaced, l, l1, f, f1

\* Only a job as old as Tracked jobs is dropped.
DropsOld ==
    renamed' = {} =>
        \A v1 \in DOMAIN recent.issued \ DOMAIN recent'.issued :
            firstJob'.job - recent.issued[v1].v2 >= Tracked

\* Once first_job is configured twice, ids are no measure of age.
LEMMA UntrackedIssue ==
    ASSUME recent'.jobs # <<>>, renamed' # {}
    PROVE  Tracking' /\ DropsOld
BY DEF Tracking, DropsOld

LEMMA ReceivesNewer ==
    ASSUME MinerTypes, FeedOrder, Receives
    PROVE  firstJob'.job \in Nat /\ firstJob.job < firstJob'.job
<1>1. feed \in Seq(Nat) /\ sentJob \in Nat /\ firstJob.job \in Nat
  BY MinerAssumption DEF MinerTypes, BridgeTypes, Job, JobEntry
<1>2. feed # <<>> /\ firstJob'.job = Head(feed)
  BY DEF Receives
<1> QED
  BY <1>1, <1>2, AscendingTail DEF FeedOrder

LEMMA TrackingStep ==
    ASSUME MinerTypes, Unserved, LastIsFirst, Faithful, FeedOrder, Tracking, [Next]_vars
    PROVE  Tracking' /\ DropsOld
<1>1. recent.jobs \in Seq(JobEntry)
  BY DEF MinerTypes, RecentTypes
<1>2. CASE Rests
  BY <1>2 DEF Rests, NoIssue, Tracking, Spaced, DropsOld
<1>3. CASE Opens
  <2>1. recent.jobs = <<>> /\ UNCHANGED recent
    BY <1>3 DEF Opens, NoIssue, Unserved
  <2> QED
    BY <2>1 DEF Tracking, Spaced, DropsOld
<1>4. CASE Configures
  <2>1. IssueStep(firstJob, diff) /\ recent'.jobs # <<>> /\ firstJob'.job = firstJob.job
    BY <1>4 DEF Configures, AddStep
  <2>2. CASE renamed' = {}
    <3>1. renamed = {} /\ firstJob.id = firstJob.job
      BY <1>4, <2>2 DEF Configures
    <3> QED
      BY <2>1, <3>1, FirstIssue, KnownIssue DEF DropsOld, Tracking
  <2> QED
    BY <2>1, <2>2, UntrackedIssue
<1>5. CASE Seeds
  <2>1. /\ IssueStep(firstJob, diff) /\ recent'.jobs # <<>> /\ firstJob'.job = firstJob.job
        /\ recent.jobs = <<>> /\ renamed' = renamed
    BY <1>5 DEF Seeds, AddStep
  <2>2. firstJob.id = firstJob.job
    BY <2>1 DEF Faithful
  <2> QED
    BY <2>1, <2>2, FirstIssue, UntrackedIssue DEF DropsOld, Tracking
<1>6. ASSUME NEW d, Clones(d) PROVE Tracking' /\ DropsOld
  <2>1. /\ IssueStep(LastJob(recent), d) /\ recent.jobs # <<>> /\ recent'.jobs # <<>>
        /\ firstJob'.job = firstJob.job /\ renamed' = renamed
    BY <1>6 DEF Clones, CloneStep
  <2>2. renamed = {} => LastJob(recent).id = firstJob.job
    BY <1>1, <2>1 DEF Faithful, LastIsFirst, LastJob
  <2> QED
    BY <2>1, <2>2, KnownIssue, UntrackedIssue DEF DropsOld
<1>7. CASE Receives
  <2>1. /\ IssueStep(firstJob', diff) /\ recent'.jobs # <<>> /\ renamed' = renamed
        /\ firstJob'.id = firstJob'.job
    BY <1>7 DEF Receives, AddStep
  <2>2. ASSUME NEW n, IssueStep(n, diff), n.id = firstJob'.job, renamed = {} PROVE Tracking' /\ DropsOld
    BY <1>7, <2>1, <2>2, ReceivesNewer, NewIssue DEF DropsOld
  <2> QED
    BY <2>1, <2>2, UntrackedIssue
<1> QED
  BY <1>2, <1>3, <1>4, <1>5, <1>6, <1>7, JobMoves

\* The miner's jobs are in RecentJobs while fewer than Tracked newer ones were received.
Kept ==
    renamed = {} =>
        \A v1 \in V1s, job \in Job :
            Mentioned(v1, job) /\ firstJob.job - job < Tracked => v1 \in DOMAIN recent.issued

\* An id comes back only after its job was dropped, so what was said of it is old.
RedrawnOld ==
    /\ redrawn \subseteq V1s \X Job
    /\ renamed = {} =>
          \A v1 \in V1s, job \in Job :
              <<v1, job>> \in redrawn => ~(firstJob.job - job < Tracked)

LEMMA FirstJobGrows ==
    ASSUME MinerTypes, Unserved, FeedOrder, [Next]_vars, issues # 0
    PROVE  firstJob.job <= firstJob'.job /\ renamed \subseteq renamed'
<1>1. firstJob.job \in Nat
  BY MinerAssumption DEF MinerTypes, BridgeTypes, Job, JobEntry
<1>2. ~Opens
  BY DEF Opens, Unserved
<1>3. CASE Receives
  BY <1>1, <1>3, ReceivesNewer DEF Receives
<1>4. CASE ~Receives
  BY <1>1, <1>2, <1>4, JobMoves DEF Rests, Configures, Seeds, Clones
<1> QED
  BY <1>3, <1>4

\* A job that is not old after a step was not old before it.
LEMMA YoungBefore ==
    ASSUME MinerTypes, Unserved, FeedOrder, [Next]_vars, NEW v1 \in V1s, NEW job \in Job,
           renamed' = {}, firstJob'.job - job < Tracked
    PROVE  renamed = {} /\ firstJob.job - job < Tracked
<1>1. issues # 0
  BY MinerAssumption DEF V1s, MinerTypes, RecentTypes
<1>2. firstJob.job <= firstJob'.job /\ renamed \subseteq renamed'
  BY <1>1, FirstJobGrows
<1>3. firstJob.job \in Nat /\ firstJob'.job \in Nat /\ job \in Nat /\ Tracked \in Nat
  BY BridgeTypesStep, MinerAssumption DEF MinerTypes, BridgeTypes, Job, JobEntry
<1> QED
  BY <1>2, <1>3

LEMMA KeptStep ==
    ASSUME MinerTypes, Unserved, NamesItsJob, Faithful, FeedOrder, DropsOld, Kept, RedrawnOld,
           [Next]_vars
    PROVE  Kept'
<1> SUFFICES ASSUME renamed' = {}, NEW v1 \in V1s', NEW job \in Job, Mentioned(v1, job)',
                    firstJob'.job - job < Tracked
             PROVE  v1 \in DOMAIN recent'.issued
  BY DEF Kept, Job
<1>1. v1 # 0
  BY IdsGrow, MinerAssumption DEF V1s, RecentTypes
<1>2. CASE Mentioned(v1, job)
  <2>1. v1 \in V1s
    BY <1>1, <1>2, MentionedIsIssued
  <2>2. renamed = {} /\ firstJob.job - job < Tracked
    BY <2>1, YoungBefore
  <2>3. v1 \in DOMAIN recent.issued
    BY <1>2, <2>1, <2>2 DEF Kept
  <2>4. <<v1, job>> \notin redrawn
    BY <2>1, <2>2 DEF RedrawnOld
  <2>5. recent.issued[v1].v2 = job
    BY <1>2, <2>2, <2>3, <2>4 DEF NamesItsJob, Faithful
  <2>6. firstJob'.job \in Nat /\ job \in Nat /\ Tracked \in Nat
    BY BridgeTypesStep, MinerAssumption DEF BridgeTypes, Job, JobEntry
  <2> QED
    BY <2>3, <2>5, <2>6 DEF DropsOld
<1> QED
  BY <1>1, <1>2, MentionsStep

LEMMA RedrawnOldStep ==
    ASSUME MinerTypes, Unserved, FeedOrder, Kept, RedrawnOld, [Next]_vars
    PROVE  RedrawnOld'
<1>1. V1s \subseteq V1s' /\ issues' \in Nat
  BY IdsGrow DEF RecentTypes
<1>2. redrawn' \subseteq V1s' \X Job
  BY <1>1, RedrawnMoves DEF RedrawnOld
<1>3. ASSUME renamed' = {}, NEW v1 \in V1s', NEW job \in Job, <<v1, job>> \in redrawn',
             firstJob'.job - job < Tracked
      PROVE  FALSE
  <2>1. CASE <<v1, job>> \in redrawn
    <3>1. v1 \in V1s
      BY <2>1 DEF RedrawnOld
    <3> QED
      BY <1>3, <2>1, <3>1, YoungBefore DEF RedrawnOld
  <2>2. CASE <<v1, job>> \notin redrawn
    <3>1. Mentioned(v1, job) /\ v1 \notin DOMAIN recent.issued
      BY <1>3, <2>2, RedrawnMoves
    <3>2. v1 \in V1s
      BY <1>1, <3>1, MentionedIsIssued, MinerAssumption DEF V1s
    <3> QED
      BY <1>3, <3>1, <3>2, YoungBefore DEF Kept
  <2> QED
    BY <2>1, <2>2
<1> QED
  BY <1>2, <1>3 DEF RedrawnOld, Job

KeptInv == FeedOrder /\ Tracking /\ Kept /\ RedrawnOld

LEMMA KeptHolds == Spec => []KeptInv
<1>1. Init => KeptInv
  <2> SUFFICES ASSUME Init PROVE KeptInv
    OBVIOUS
  <2>1. FeedOrder /\ Tracking
    BY DEF Init, FeedOrder, Ascending, Tracking, Spaced
  <2>2. V1s = {} /\ redrawn = {}
    BY MinerAssumption DEF Init, V1s
  <2> QED
    BY <2>1, <2>2 DEF KeptInv, Kept, RedrawnOld
<1>2. MinerTypes /\ CurrentInv /\ NamesInv /\ KeptInv /\ [Next]_vars => KeptInv'
  BY FeedOrderStep, TrackingStep, KeptStep, RedrawnOldStep DEF KeptInv, CurrentInv, NamesInv
<1> QED
  BY <1>1, <1>2, MinerTypesHold, NamesHold, CurrentHolds, PTL DEF Spec

-----------------------------------------------------------------------------
(* One difficulty *)

IssuedAt(v1, d) == v1 \in DOMAIN recent.issued => recent.issued[v1].diff = d

\* The miner is still there, or is not there yet.
Live == phase \notin {"closing", "closed"}

\* A job sent while no retarget crossed it was issued at the difficulty the miner had.
ToldRated ==
    \A v1 \in DOMAIN told :
        told[v1].calm /\ <<v1, told[v1].job>> \notin redrawn => IssuedAt(v1, told[v1].diff)

\* The same of the messages on their way.
NotifierRated ==
    Live /\ notifier.pc \in Sending /\ notifier.held.calm =>
        Calm /\ IssuedAt(notifier.held.v1, diff)

ResendRated ==
    Live => \A x \in Updaters : update[x].pc = "reissued" /\ update[x].held.calm =>
        ~overlap /\ IssuedAt(update[x].held.v1, diff)

\* One retarget at a time takes the miner, the Downstream and the bridge to its
\* difficulty.
Retargeting ==
    Live /\ ~overlap =>
        /\ \A x, y \in Updaters : Busy(x) /\ Busy(y) => x = y
        /\ \A x \in Updaters : Busy(x) => update[x].diff = diff
        /\ \A x \in Updaters : update[x].pc \in {"announced", "reissued"} => minerDiff = diff

Retargeted ==
    Live /\ Calm =>
        /\ bridgeDiff = diff
        /\ notifier.pc \in {"difficulty", "listening", "sending"} => minerDiff = diff
        /\ minerJob \in DOMAIN told /\ told[minerJob].calm => IssuedAt(minerJob, diff)

MinerJobTold == minerJob # 0 => minerJob \in DOMAIN told

\* While retargets do not overlap, every id is drawn for the current difficulty.
LEMMA IssuesAtDiff ==
    ASSUME MinerTypes, Retargeting, [Next]_vars, Live, ~overlap
    PROVE  NoIssue \/ \E n : IssueStep(n, diff)
<1>1. CASE Configure
  BY <1>1, ConfigureIssues DEF AddStep
<1>2. CASE Seed
  BY <1>2, SeedIssues DEF AddStep, CloneStep
<1>3. CASE ReceiveNotify
  BY <1>3, ReceiveIssues DEF AddStep
<1>4. ASSUME NEW x \in Updaters, Reissue(x) PROVE \E n : IssueStep(n, diff)
  <2>1. Busy(x)
    BY <1>4 DEF Reissue, Busy
  <2>2. update[x].diff = diff
    BY <2>1 DEF Retargeting
  <2>3. IssueStep(LastJob(recent), update[x].diff)
    BY <1>4, ReissueIssues DEF CloneStep
  <2> QED
    BY <2>2, <2>3
<1>5. CASE ~(Configure \/ Seed \/ ReceiveNotify \/ \E x \in Updaters : Reissue(x))
  BY <1>5 DEF Next, Notifier, Retarget, vars, jobVars, minerVars, NoIssue, Broadcast,
       StoreNotify, Open, NewDownstream, Disconnect, Kill, Authorize, Submit, Bootstrap,
       AuthTimeout, InitDifficulty, SendSeed, SendNotify, Decide, Announce, SkipReissue,
       Resend
<1> QED
  BY <1>1, <1>2, <1>3, <1>4, <1>5

\* So an id at the current difficulty keeps it, be it drawn again or not, ...
LEMMA IssuedAtStays ==
    ASSUME MinerTypes, Retargeting, [Next]_vars, Live, ~overlap, NEW v1, IssuedAt(v1, diff),
           NEW d, d = diff
    PROVE  IssuedAt(v1, d)'
<1>1. CASE NoIssue
  BY <1>1 DEF NoIssue, IssuedAt
<1>2. ASSUME NEW n, IssueStep(n, diff) PROVE IssuedAt(v1, d)'
  BY <1>2 DEF IssueStep, Issued, IssuedAt
<1> QED
  BY <1>1, <1>2, IssuesAtDiff

\* ... and an id that is not drawn keeps the difficulty it was issued with.
LEMMA IssuedAtKept ==
    ASSUME MinerTypes, [Next]_vars, NEW v1, NEW d, IssuedAt(v1, d),
           ~(v1 = NewId /\ \E n, e : IssueStep(n, e))
    PROVE  IssuedAt(v1, d)'
BY EntriesStay DEF IssuedAt

LEMMA IssuedAtFresh ==
    ASSUME NEW n, NEW d, IssueStep(n, d), NEW v1, v1 = NewId
    PROVE  IssuedAt(v1, d)'
BY DEF IssueStep, Issued, IssuedAt

\* Which steps retarget.
LEMMA NoDecide ==
    ASSUME MinerTypes, [Next]_vars, ~(\E x \in Updaters : Decide(x))
    PROVE  /\ UNCHANGED <<overlap, diff>>
           /\ \A x \in Updaters : Busy(x)' => Busy(x) /\ update'[x].diff = update[x].diff
<1> USE DEF retargetVars
<1>1. update \in [Updaters -> Task]
  BY DEF MinerTypes, UpdateTypes
<1>2. UNCHANGED <<overlap, diff>>
  BY DEF Next, Notifier, Retarget, vars, Broadcast, StoreNotify, Open, NewDownstream,
       Disconnect, Kill, Configure, Authorize, Submit, Bootstrap, AuthTimeout, Seed,
       InitDifficulty, SendSeed, ReceiveNotify, SendNotify, Announce, Reissue,
       SkipReissue, Resend, SetTarget
<1>3. ASSUME NEW x \in Updaters, Busy(x)' PROVE Busy(x) /\ update'[x].diff = update[x].diff
  <2>1. CASE Kill \/ InitDifficulty \/ SendSeed \/ AuthTimeout
    BY <1>1, <1>3, <2>1 DEF Kill, InitDifficulty, SendSeed, AuthTimeout, NoUpdate, Busy, Task
  <2>2. ASSUME NEW y \in Updaters, Announce(y) PROVE Busy(x) /\ update'[x].diff = update[x].diff
    BY <1>1, <1>3, <2>2 DEF Announce, Busy, Task
  <2>3. ASSUME NEW y \in Updaters, Reissue(y) PROVE Busy(x) /\ update'[x].diff = update[x].diff
    <3>1. Busy(y)
      BY <2>3 DEF Reissue, Busy
    <3>2. /\ update'[y].diff = update[y].diff
          /\ \A z \in Updaters \ {y} : update'[z] = update[z]
      BY <1>1, <2>3, ReissueIssues
    <3> QED
      BY <1>3, <3>1, <3>2 DEF Busy
  <2>4. ASSUME NEW y \in Updaters, SkipReissue(y) \/ Resend(y)
        PROVE  Busy(x) /\ update'[x].diff = update[x].diff
    BY <1>1, <1>3, <2>4 DEF SkipReissue, Resend, SetTarget, NoUpdate, Busy, Task
  <2>5. CASE /\ ~(Kill \/ InitDifficulty \/ SendSeed \/ AuthTimeout)
             /\ ~(\E y \in Updaters : Decide(y) \/ Retarget(y))
    <3>1. UNCHANGED update
      BY <2>5 DEF Next, Notifier, vars, Broadcast, StoreNotify, Open, NewDownstream,
           Disconnect, Configure, Authorize, Submit, Bootstrap, Seed, ReceiveNotify, SendNotify
    <3> QED
      BY <1>3, <3>1 DEF Busy
  <2> QED
    BY <2>1, <2>2, <2>3, <2>4, <2>5 DEF Retarget
<1> QED
  BY <1>2, <1>3

LEMMA LiveBefore == ASSUME [Next]_vars, Live' PROVE Live
BY DEF Live, Next, Notifier, Retarget, vars, Broadcast, StoreNotify, Open, NewDownstream,
   Disconnect, Kill, Configure, Authorize, Submit, Bootstrap, AuthTimeout, Seed,
   InitDifficulty, SendSeed, ReceiveNotify, SendNotify, Decide, Announce, Reissue,
   SkipReissue, Resend

\* A task that runs has a connection that is open or was.
LEMMA RunsOnce ==
    ASSUME MinerTypes, Unserved, Live, NEW x \in Updaters, update[x].pc # "off"
    PROVE  phase = "running"
BY DEF MinerTypes, BridgeTypes, Live, Unserved, Started, Updaters

LEMMA NotifierRatedStep ==
    ASSUME MinerTypes, Retargeting, NotifierRated, [Next]_vars
    PROVE  NotifierRated'
<1> SUFFICES ASSUME Live', notifier'.pc \in Sending, notifier'.held.calm
             PROVE  Calm' /\ IssuedAt(notifier.held.v1, diff)'
  BY DEF NotifierRated
<1>1. RecentTypes /\ BridgeTypes /\ NotifierTypes
  BY DEF MinerTypes
<1>2. CASE notifier.pc \in Sending /\ SameMessage(notifier'.held, notifier.held)
  <2>1. /\ notifier'.held.v1 = notifier.held.v1 /\ notifier.held.calm
        /\ ~(\E z \in Updaters : Decide(z))
    BY <1>2 DEF SameMessage
  <2>2. Calm /\ IssuedAt(notifier.held.v1, diff)
    BY <1>2, <2>1, LiveBefore DEF NotifierRated
  <2>3. Calm' /\ UNCHANGED diff
    BY <2>1, <2>2, NoDecide DEF Calm
  <2>4. ASSUME NEW v, IssuedAt(v, diff), v = notifier'.held.v1
        PROVE  IssuedAt(notifier.held.v1, diff)'
    BY <2>2, <2>3, <2>4, LiveBefore, IssuedAtStays DEF IssuedAt, Calm
  <2> QED
    BY <2>1, <2>2, <2>3, <2>4
<1>3. ASSUME NEW n, NEW job \in Job, IssueStep(n, diff), notifier'.held = Held(NewId, job, Calm),
             UNCHANGED <<update, overlap, diff>>
      PROVE  Calm' /\ IssuedAt(notifier.held.v1, diff)'
  <2>1. Calm \in BOOLEAN
    BY DEF Calm
  <2>2. notifier'.held.v1 = NewId /\ Calm
    BY <1>1, <1>3, <2>1, DrawnIds, HeldIsMessage DEF IssueStep
  <2>3. Calm'
    BY <1>3, <2>2 DEF Calm, Busy
  <2>4. ASSUME NEW v, NEW d, d = diff, v = NewId PROVE IssuedAt(notifier.held.v1, diff)'
    BY <1>3, <2>2, <2>4, IssuedAtFresh DEF IssuedAt
  <2> QED
    BY <2>3, <2>4
<1>4. CASE Seed
  <2>1. UNCHANGED <<update, overlap, diff>>
    BY <1>4 DEF Seed, retargetVars
  <2>2. \/ IssueStep(firstJob, diff) /\ notifier'.held = Held(NewId, firstJob.job, Calm)
        \/ IssueStep(LastJob(recent), diff) /\ notifier'.held = Held(NewId, LastJob(recent).job, Calm)
    BY <1>4, SeedIssues DEF AddStep, CloneStep
  <2>3. ASSUME NEW n, IssueStep(n, diff) PROVE n.job \in Job
    BY <2>3 DEF IssueStep, JobEntry
  <2> QED
    BY <1>3, <2>1, <2>2, <2>3
<1>5. CASE ReceiveNotify
  <2>1. UNCHANGED <<update, overlap, diff>> /\ notifier'.held = Held(NewId, Head(feed), Calm)
    BY <1>5, ReceiveIssues DEF ReceiveNotify, retargetVars
  <2>2. IssueStep(firstJob', diff) /\ Head(feed) \in Job
    BY <1>5, ReceiveIssues DEF AddStep
  <2>3. \E n : IssueStep(n, diff)
    BY <2>2
  <2> QED
    BY <1>3, <2>1, <2>2, <2>3
<1> QED
  BY <1>2, <1>4, <1>5, NotifierMoves

LEMMA ResendRatedStep ==
    ASSUME MinerTypes, Retargeting, ResendRated, [Next]_vars
    PROVE  ResendRated'
<1> SUFFICES ASSUME Live', NEW y \in Updaters, update'[y].pc = "reissued", update'[y].held.calm
             PROVE  ~overlap' /\ IssuedAt(update[y].held.v1, diff)'
  BY DEF ResendRated
<1>1. CASE update[y].pc = "reissued" /\ SameMessage(update'[y].held, update[y].held)
  <2>1. /\ update'[y].held.v1 = update[y].held.v1 /\ update[y].held.calm
        /\ ~(\E z \in Updaters : Decide(z))
    BY <1>1 DEF SameMessage
  <2>2. ~overlap /\ IssuedAt(update[y].held.v1, diff)
    BY <1>1, <2>1, LiveBefore DEF ResendRated
  <2>3. UNCHANGED <<overlap, diff>>
    BY <2>1, NoDecide
  <2>4. ASSUME NEW v, IssuedAt(v, diff), v = update'[y].held.v1
        PROVE  IssuedAt(update[y].held.v1, diff)'
    BY <2>2, <2>3, <2>4, LiveBefore, IssuedAtStays DEF IssuedAt
  <2> QED
    BY <2>1, <2>2, <2>3, <2>4
<1>2. CASE Reissue(y) /\ update'[y].held = Held(NewId, LastJob(recent).job, ~overlap)
  <2>1. IssueStep(LastJob(recent), update[y].diff) /\ LastJob(recent).job \in Job
    BY <1>2, ReissueIssues DEF CloneStep, IssueStep, JobEntry
  <2>2. (~overlap) \in BOOLEAN
    OBVIOUS
  <2>3. update'[y].held.v1 = NewId /\ ~overlap
    <3>1. NewId \in Nat
      BY <2>1, DrawnIds DEF MinerTypes, IssueStep
    <3>2. ASSUME NEW h, h = Held(NewId, LastJob(recent).job, ~overlap)
          PROVE  h.v1 = NewId /\ h.calm = (~overlap)
      BY <2>1, <2>2, <3>1, <3>2, HeldIsMessage, Zenon
    <3> QED
      BY <1>2, <3>2, Zenon
  <2>4. UNCHANGED <<overlap, diff>> /\ Busy(y)
    BY <1>2 DEF Reissue, retargetVars, Busy
  <2>5. update[y].diff = diff
    BY <2>3, <2>4, LiveBefore DEF Retargeting
  <2>6. ASSUME NEW v, NEW d, d = diff, v = NewId PROVE IssuedAt(update[y].held.v1, diff)'
    BY <2>1, <2>3, <2>4, <2>5, <2>6, IssuedAtFresh DEF IssuedAt
  <2> QED
    BY <2>3, <2>4, <2>6
<1> QED
  BY <1>1, <1>2, ReissuedMoves

\* What a decision, and what each step of a retarget, leaves behind.
LEMMA DecideMoves ==
    ASSUME MinerTypes, NEW x \in Updaters, Decide(x)
    PROVE  /\ Busy(x)' /\ update'[x].pc = "decided" /\ update'[x].diff = diff'
           /\ ~overlap' => \A y \in Updaters \ {x} : ~Busy(y)'
<1>1. update \in [Updaters -> Task] /\ \A y \in Updaters : update[y] \in Task
  BY DEF MinerTypes, UpdateTypes
<1>2. PICK d : diff' = d /\ update' = [y \in Updaters |->
                IF y = x THEN [pc |-> "decided", diff |-> d, held |-> NoHeld]
                         ELSE [update[y] EXCEPT !.held = Crossed(@)]]
  BY DEF Decide
<1>3. update'[x].pc = "decided" /\ update'[x].diff = diff'
  BY <1>2
<1>4. ASSUME NEW y \in Updaters \ {x}, ~overlap' PROVE ~Busy(y)'
  <2>1. ~Busy(y)
    BY <1>4 DEF Decide
  <2>2. update'[y].pc = update[y].pc
    BY <1>1, <1>2 DEF Task
  <2> QED
    BY <2>1, <2>2 DEF Busy
<1> QED
  BY <1>3, <1>4 DEF Busy

LEMMA RetargetSteps ==
    ASSUME MinerTypes, NEW x \in Updaters, Retarget(x)
    PROVE  /\ Busy(x) /\ UNCHANGED <<diff, overlap, phase, notifier>>
           /\ \A y \in Updaters \ {x} : update'[y] = update[y]
           /\ \/ /\ Announce(x)
                 /\ update'[x].pc = "announced" /\ update'[x].diff = update[x].diff
                 /\ UNCHANGED bridgeDiff
              \/ /\ Reissue(x)
                 /\ update'[x].pc = "reissued" /\ update'[x].diff = update[x].diff
                 /\ update[x].pc = "announced" /\ UNCHANGED <<minerDiff, bridgeDiff>>
              \/ /\ Resend(x) \/ SkipReissue(x)
                 /\ update[x].pc \in {"announced", "reissued"}
                 /\ update'[x].pc = "idle" /\ bridgeDiff' = update[x].diff
                 /\ UNCHANGED minerDiff
<1> USE DEF retargetVars, minerVars
<1>1. update \in [Updaters -> Task] /\ \A y \in Updaters : update[y] \in Task
  BY DEF MinerTypes, UpdateTypes
<1>2. CASE Announce(x)
  BY <1>1, <1>2 DEF Announce, Busy, Task
<1>3. CASE Reissue(x)
  <2>1. update'[x].pc = "reissued" /\ update'[x].diff = update[x].diff
    BY <1>1, <1>3, ReissueIssues
  <2> QED
    BY <1>3, <2>1, ReissueIssues DEF Reissue, Busy
<1>4. CASE Resend(x) \/ SkipReissue(x)
  <2>1. UNCHANGED minerDiff
    BY <1>4, JobSent DEF Resend, SkipReissue
  <2>2. update' = [update EXCEPT ![x] = NoUpdate("idle")] /\ bridgeDiff' = update[x].diff
    BY <1>4 DEF Resend, SkipReissue, SetTarget
  <2>3. UNCHANGED <<diff, overlap, phase, notifier>> /\ update[x].pc \in {"announced", "reissued"}
    BY <1>4 DEF Resend, SkipReissue, SetTarget
  <2>4. update'[x].pc = "idle" /\ \A y \in Updaters \ {x} : update'[y] = update[y]
    BY <1>1, <2>2 DEF NoUpdate
  <2> QED
    BY <1>4, <2>1, <2>2, <2>3, <2>4 DEF Busy
<1> QED
  BY <1>2, <1>3, <1>4 DEF Retarget

\* No other step touches a retarget that is under way, and none but InitDifficulty tells
\* the miner a difficulty.
LEMMA OtherSteps ==
    ASSUME MinerTypes, [Next]_vars, Live', ~(\E x \in Updaters : Decide(x) \/ Retarget(x))
    PROVE  /\ UNCHANGED <<diff, overlap, bridgeDiff>>
           /\ \A x \in Updaters : Busy(x)' \/ Busy(x) => update'[x] = update[x]
           /\ ~InitDifficulty =>
                 /\ UNCHANGED minerDiff
                 /\ notifier'.pc \in {"difficulty", "listening", "sending"} =>
                       notifier.pc \in {"difficulty", "listening", "sending"}
<1> USE DEF retargetVars, minerVars
<1>1. /\ update \in [Updaters -> Task] /\ \A y \in Updaters : update[y] \in Task
      /\ notifier = [pc |-> notifier.pc, held |-> notifier.held]
      /\ Started
  BY DEF MinerTypes, UpdateTypes, NotifierTypes
<1>2. UNCHANGED <<diff, overlap, bridgeDiff>>
  BY DEF Next, Notifier, vars, Broadcast, StoreNotify, Open, NewDownstream,
       Disconnect, Kill, Configure, Authorize, Submit, Bootstrap, AuthTimeout, Seed,
       InitDifficulty, SendSeed, ReceiveNotify, SendNotify
<1>3. ~Kill /\ ~Disconnect
  BY DEF Kill, Disconnect, Live
<1>4. CASE InitDifficulty \/ SendSeed \/ AuthTimeout
  <2>1. PICK z \in Updaters : update' = [update EXCEPT ![z].pc = "idle"] /\ update[z].pc = "off"
    BY <1>1, <1>4 DEF InitDifficulty, SendSeed, AuthTimeout, Started, Updaters
  <2>2. \A x \in Updaters : x # z => update'[x] = update[x]
    BY <1>1, <2>1
  <2>3. ~Busy(z) /\ ~Busy(z)'
    BY <1>1, <2>1 DEF Busy, Task
  <2>4. ~InitDifficulty => UNCHANGED minerDiff
    BY <1>4, JobSent DEF SendSeed, AuthTimeout
  <2>5. ~InitDifficulty => (notifier'.pc \in {"difficulty", "listening", "sending"} =>
                       notifier.pc \in {"difficulty", "listening", "sending"})
    BY <1>1, <1>4 DEF SendSeed, AuthTimeout
  <2> QED
    BY <1>2, <2>2, <2>3, <2>4, <2>5
<1>5. CASE ~(InitDifficulty \/ SendSeed \/ AuthTimeout)
  <2>1. UNCHANGED update
    BY <1>3, <1>5 DEF Next, Notifier, vars, Broadcast, StoreNotify, Open, NewDownstream,
         Configure, Authorize, Submit, Bootstrap, Seed, ReceiveNotify, SendNotify
  <2>2. UNCHANGED minerDiff
    BY <1>3, <1>5, JobSent DEF Next, Notifier, vars, Broadcast, StoreNotify, Open, NewDownstream,
         Configure, Authorize, Submit, Bootstrap, Seed, ReceiveNotify, SendNotify
  <2>3. notifier'.pc \in {"difficulty", "listening", "sending"} =>
           notifier.pc \in {"difficulty", "listening", "sending"}
    <3>1. CASE Bootstrap \/ Seed \/ ReceiveNotify \/ SendNotify
      BY <1>1, <3>1 DEF Bootstrap, Seed, ReceiveNotify, SendNotify
    <3>2. CASE ~(Bootstrap \/ Seed \/ ReceiveNotify \/ SendNotify)
      BY <1>3, <1>5, <3>2 DEF Next, Notifier, vars, Broadcast, StoreNotify, Open, NewDownstream,
           Configure, Authorize, Submit
    <3> QED
      BY <3>1, <3>2
  <2> QED
    BY <1>2, <2>1, <2>2, <2>3
<1> QED
  BY <1>4, <1>5

LEMMA InitDifficultyMoves ==
    ASSUME MinerTypes, Unserved, InitDifficulty, Live'
    PROVE  minerDiff' = diff /\ UNCHANGED <<told, minerJob>> /\ \A x \in Updaters : ~Busy(x)
<1>1. phase = "running"
  BY DEF InitDifficulty, Unserved, Live, MinerTypes, BridgeTypes
<1>2. \A x \in Updaters : ~Busy(x)
  BY DEF InitDifficulty, MinerTypes, Started, Updaters, Busy
<1> QED
  BY <1>1, <1>2 DEF InitDifficulty, SendDifficulty, Gone

LEMMA RetargetingStep ==
    ASSUME MinerTypes, Unserved, Retargeting, [Next]_vars
    PROVE  Retargeting'
<1> SUFFICES ASSUME Live', ~overlap'
             PROVE  /\ \A x, y \in Updaters : Busy(x)' /\ Busy(y)' => x = y
                    /\ \A x \in Updaters : Busy(x)' => update'[x].diff = diff'
                    /\ \A x \in Updaters :
                          update'[x].pc \in {"announced", "reissued"} => minerDiff' = diff'
  BY DEF Retargeting
<1>1. \A x \in Updaters : update[x].pc \in {"announced", "reissued"} => Busy(x)
  BY DEF Busy
<1>2. \A x \in Updaters : update'[x].pc \in {"announced", "reissued"} => Busy(x)'
  BY DEF Busy
<1>3. ASSUME NEW x \in Updaters, Decide(x)
      PROVE  /\ \A y, z \in Updaters : Busy(y)' /\ Busy(z)' => y = z
             /\ \A y \in Updaters : Busy(y)' => update'[y].diff = diff'
             /\ \A y \in Updaters :
                   update'[y].pc \in {"announced", "reissued"} => minerDiff' = diff'
  BY <1>2, <1>3, DecideMoves
<1>4. ASSUME ~overlap
      PROVE  /\ \A x, y \in Updaters : Busy(x) /\ Busy(y) => x = y
             /\ \A x \in Updaters : Busy(x) => update[x].diff = diff
             /\ \A x \in Updaters : update[x].pc \in {"announced", "reissued"} => minerDiff = diff
  BY <1>4, LiveBefore DEF Retargeting
<1>5. ASSUME NEW x \in Updaters, Retarget(x)
      PROVE  /\ \A y, z \in Updaters : Busy(y)' /\ Busy(z)' => y = z
             /\ \A y \in Updaters : Busy(y)' => update'[y].diff = diff'
             /\ \A y \in Updaters :
                   update'[y].pc \in {"announced", "reissued"} => minerDiff' = diff'
  <2>1. /\ Busy(x) /\ UNCHANGED <<diff, overlap, phase>>
        /\ \A y \in Updaters \ {x} : update'[y] = update[y]
    BY <1>5, RetargetSteps
  <2>2. ~overlap /\ \A y \in Updaters \ {x} : ~Busy(y) /\ ~Busy(y)'
    BY <1>4, <2>1 DEF Busy
  <2>3. update[x].diff = diff
    BY <1>4, <2>1, <2>2
  <2>4. Busy(x)' => update'[x].diff = diff'
    BY <1>5, <2>1, <2>3, RetargetSteps DEF Busy
  <2>5. update'[x].pc \in {"announced", "reissued"} => minerDiff' = diff
    <3>1. CASE Announce(x)
      <4>1. phase = "running"
        BY <3>1, LiveBefore, RunsOnce DEF Announce
      <4> QED
        BY <2>3, <3>1, <4>1 DEF Announce, SendDifficulty, Gone
    <3>2. CASE ~Announce(x)
      BY <1>4, <1>5, <2>2, <3>2, RetargetSteps
    <3> QED
      BY <3>1, <3>2
  <2> QED
    BY <1>2, <2>1, <2>2, <2>4, <2>5
<1>6. CASE ~(\E x \in Updaters : Decide(x) \/ Retarget(x))
  <2>1. /\ UNCHANGED <<diff, overlap>>
        /\ \A x \in Updaters : Busy(x)' \/ Busy(x) => update'[x] = update[x]
    BY <1>6, OtherSteps
  <2>2. \A x \in Updaters : Busy(x)' => Busy(x)
    BY <2>1 DEF Busy
  <2>3. InitDifficulty => \A x \in Updaters : ~Busy(x)
    BY InitDifficultyMoves
  <2>4. ~InitDifficulty => UNCHANGED minerDiff
    BY <1>6, OtherSteps
  <2> QED
    BY <1>2, <1>4, <2>1, <2>2, <2>3, <2>4
<1> QED
  BY <1>3, <1>5, <1>6

LEMMA RetargetedStep ==
    ASSUME MinerTypes, Unserved, Tracking, NotifierRated, ResendRated, Retargeting, Retargeted,
           [Next]_vars
    PROVE  Retargeted'
<1> SUFFICES ASSUME Live', Calm'
             PROVE  /\ bridgeDiff' = diff'
                    /\ notifier'.pc \in {"difficulty", "listening", "sending"} => minerDiff' = diff'
                    /\ minerJob' \in DOMAIN told' /\ told'[minerJob'].calm => IssuedAt(minerJob, diff)'
  BY DEF Retargeted
<1>1. Live
  BY LiveBefore
<1>2. ~overlap' /\ \A x \in Updaters : ~Busy(x)'
  BY DEF Calm
<1>3. ASSUME NEW v1, IssuedAt(v1, diff), v1 = minerJob', ~overlap, UNCHANGED diff
      PROVE  IssuedAt(minerJob, diff)'
  BY <1>1, <1>3, IssuedAtStays DEF IssuedAt
<1>4. ASSUME NEW x \in Updaters, Retarget(x)
      PROVE  /\ bridgeDiff' = diff'
             /\ notifier'.pc \in {"difficulty", "listening", "sending"} => minerDiff' = diff'
             /\ minerJob' \in DOMAIN told' /\ told'[minerJob'].calm => IssuedAt(minerJob, diff)'
  <2>1. Busy(x) /\ UNCHANGED <<diff, overlap>>
    BY <1>4, RetargetSteps
  <2>2. update[x].diff = diff /\ (update[x].pc \in {"announced", "reissued"} => minerDiff = diff)
    BY <1>1, <1>2, <2>1 DEF Retargeting
  <2>3. /\ Resend(x) \/ SkipReissue(x)
        /\ update[x].pc \in {"announced", "reissued"}
        /\ bridgeDiff' = update[x].diff /\ UNCHANGED minerDiff
    BY <1>2, <1>4, RetargetSteps DEF Busy
  <2>4. CASE SkipReissue(x)
    <3>1. DOMAIN recent.issued = {} /\ UNCHANGED recent
      BY <2>4 DEF SkipReissue, Tracking, jobVars
    <3> QED
      BY <2>1, <2>2, <2>3, <3>1 DEF IssuedAt
  <2>5. CASE Resend(x)
    <3>1. SendJob(update[x].held) /\ update[x].pc = "reissued"
      BY <2>5 DEF Resend
    <3>2. phase = "running"
      BY <1>1, <3>1, RunsOnce
    <3>3. /\ minerJob' = update[x].held.v1
          /\ told'[minerJob'].calm = update[x].held.calm
      BY <3>1, <3>2, JobSent
    <3>4. update[x].held.calm => IssuedAt(update[x].held.v1, diff)
      BY <1>1, <3>1 DEF ResendRated
    <3> QED
      BY <1>2, <1>3, <2>1, <2>2, <2>3, <3>3, <3>4
  <2> QED
    BY <2>3, <2>4, <2>5
<1>5. CASE ~(\E x \in Updaters : Decide(x) \/ Retarget(x))
  <2>1. /\ UNCHANGED <<diff, overlap, bridgeDiff>>
        /\ \A x \in Updaters : Busy(x)' \/ Busy(x) => update'[x] = update[x]
    BY <1>5, OtherSteps
  <2>2. Calm
    BY <1>2, <2>1 DEF Calm, Busy
  <2>3. /\ bridgeDiff = diff
        /\ notifier.pc \in {"difficulty", "listening", "sending"} => minerDiff = diff
        /\ minerJob \in DOMAIN told /\ told[minerJob].calm => IssuedAt(minerJob, diff)
    BY <1>1, <2>2 DEF Retargeted
  <2>4. notifier'.pc \in {"difficulty", "listening", "sending"} => minerDiff' = diff'
    BY <1>5, <2>1, <2>3, InitDifficultyMoves, OtherSteps
  <2>5. CASE SendSeed \/ SendNotify
    <3>1. SendJob(notifier.held) /\ notifier.pc \in Sending
      BY <2>5 DEF SendSeed, SendNotify, Sending
    <3>2. phase = "running"
      BY <1>1, <3>1 DEF Live, Unserved, Sending, MinerTypes, BridgeTypes
    <3>3. /\ minerJob' = notifier.held.v1
          /\ told'[minerJob'].calm = notifier.held.calm
      BY <3>1, <3>2, JobSent
    <3>4. notifier.held.calm => IssuedAt(notifier.held.v1, diff)
      BY <1>1, <3>1 DEF NotifierRated
    <3> QED
      BY <1>2, <1>3, <2>1, <2>3, <2>4, <3>3, <3>4
  <2>6. CASE ~(SendSeed \/ SendNotify)
    <3>1. ~Disconnect /\ ~Hears
      BY <1>5, <2>6 DEF Disconnect, Live, Hears, Retarget
    <3>2. UNCHANGED <<told, minerJob>>
      BY <3>1, ToldMoves
    <3> QED
      BY <1>2, <1>3, <2>1, <2>3, <2>4, <3>2
  <2> QED
    BY <2>5, <2>6
<1>6. ASSUME NEW x \in Updaters, Decide(x) PROVE FALSE
  BY <1>2, <1>6, DecideMoves
<1> QED
  BY <1>4, <1>5, <1>6

LEMMA ToldRatedStep ==
    ASSUME MinerTypes, Unserved, ToldJobs, NotifierRated, ResendRated, Retargeting, Retargeted,
           ToldRated, [Next]_vars
    PROVE  ToldRated'
<1> SUFFICES ASSUME NEW v1 \in DOMAIN told', told'[v1].calm, <<v1, told'[v1].job>> \notin redrawn'
             PROVE  IssuedAt(v1, told[v1].diff)'
  BY DEF ToldRated
<1>1. ASSUME NEW d, IssuedAt(v1, d), d = told'[v1].diff,
             NEW job \in Job, Mentioned(v1, job), job = told'[v1].job
      PROVE  IssuedAt(v1, told[v1].diff)'
  <2>1. ASSUME NEW n, NEW e, IssueStep(n, e), v1 = NewId PROVE FALSE
    BY <1>1, <2>1, DrawnAgain
  <2>2. IssuedAt(v1, d)'
    BY <1>1, <2>1, IssuedAtKept
  <2> QED
    BY <1>1, <2>2 DEF IssuedAt
<1>2. CASE v1 \in DOMAIN told /\ told'[v1] = told[v1]
  <2>1. told[v1].job \in Job /\ Mentioned(v1, told[v1].job)
    BY <1>2 DEF ToldJobs, Mentioned
  <2>2. <<v1, told[v1].job>> \notin redrawn
    BY <1>2, RedrawnMoves
  <2>3. IssuedAt(v1, told[v1].diff)
    BY <1>2, <2>2 DEF ToldRated
  <2> QED
    BY <1>1, <1>2, <2>1, <2>3
<1>3. ASSUME NEW h \in Message, SendJob(h), Mentioned(h.v1, h.job),
             h.calm /\ phase = "running" => IssuedAt(h.v1, minerDiff)
      PROVE  IssuedAt(v1, told[v1].diff)'
  <2>1. CASE v1 = h.v1 /\ phase = "running"
    <3>1. told'[v1].diff = minerDiff /\ told'[v1].calm = h.calm /\ told'[v1].job = h.job
      BY <1>3, <2>1, JobSent
    <3>2. h.job \in Job
      BY DEF Message
    <3> QED
      BY <1>1, <1>3, <2>1, <3>1, <3>2
  <2>2. CASE v1 # h.v1 \/ phase # "running"
    BY <1>2, <1>3, <2>2, JobSent
  <2> QED
    BY <2>1, <2>2
<1>4. phase = "running" => Live
  BY DEF Live
<1>5. CASE SendSeed \/ SendNotify
  <2>1. /\ SendJob(notifier.held) /\ notifier.pc \in Sending
        /\ notifier.pc \in {"difficulty", "listening", "sending"}
    BY <1>5 DEF SendSeed, SendNotify, Sending
  <2>2. notifier.held \in Message /\ Mentioned(notifier.held.v1, notifier.held.job)
    BY DEF MinerTypes, NotifierTypes, Mentioned, Says
  <2>3. notifier.held.calm /\ phase = "running" => IssuedAt(notifier.held.v1, minerDiff)
    BY <1>4, <2>1 DEF NotifierRated, Retargeted
  <2> QED
    BY <1>3, <2>1, <2>2, <2>3
<1>6. ASSUME NEW x \in Updaters, Resend(x) PROVE IssuedAt(v1, told[v1].diff)'
  <2>1. SendJob(update[x].held) /\ update[x].pc = "reissued"
    BY <1>6 DEF Resend
  <2>2. update[x].held \in Message /\ Mentioned(update[x].held.v1, update[x].held.job)
    BY DEF MinerTypes, UpdateTypes, Task, Mentioned, Says
  <2>3. update[x].held.calm /\ phase = "running" => IssuedAt(update[x].held.v1, minerDiff)
    BY <1>4, <2>1 DEF ResendRated, Retargeting
  <2> QED
    BY <1>3, <2>1, <2>2, <2>3
<1>7. CASE Disconnect
  BY <1>7 DEF Disconnect
<1>8. CASE ~Hears /\ ~Disconnect
  BY <1>2, <1>8, ToldMoves
<1> QED
  BY <1>5, <1>6, <1>7, <1>8 DEF Hears

LEMMA MinerJobToldStep ==
    ASSUME MinerJobTold, [Next]_vars
    PROVE  MinerJobTold'
<1>1. ASSUME NEW h, SendJob(h) PROVE MinerJobTold'
  BY <1>1, JobSent DEF MinerJobTold
<1>2. CASE Hears
  BY <1>1, <1>2 DEF Hears, SendSeed, SendNotify, Resend
<1>3. CASE Disconnect
  BY <1>3 DEF Disconnect, MinerJobTold
<1>4. CASE ~Hears /\ ~Disconnect
  BY <1>4, ToldMoves DEF MinerJobTold
<1> QED
  BY <1>2, <1>3, <1>4

RatedInv ==
    /\ NotifierRated /\ ResendRated /\ Retargeting /\ Retargeted
    /\ ToldRated /\ MinerJobTold

LEMMA RatedHolds == Spec => []RatedInv
<1>1. Init => RatedInv
  BY DEF Init, RatedInv, NotifierRated, ResendRated, Retargeting, Retargeted, ToldRated,
     MinerJobTold, IssuedAt, Sending, NoUpdate, Busy
<1>2. MinerTypes /\ NamesInv /\ CurrentInv /\ KeptInv /\ RatedInv /\ [Next]_vars => RatedInv'
  BY NotifierRatedStep, ResendRatedStep, RetargetingStep, RetargetedStep, ToldRatedStep,
     MinerJobToldStep DEF RatedInv, NamesInv, CurrentInv, KeptInv
<1> QED
  BY <1>1, <1>2, MinerTypesHold, NamesHold, CurrentHolds, KeptHolds, PTL DEF Spec

\* A share that meets the difficulty its job was announced with is accepted
\* (handle_submit_request) while fewer than TRACKED_RECENT_JOBS newer jobs were received,
\* unless a retarget crossed the message of the job or some job was configured twice.  An
\* id that is drawn again is no exception: RedrawnOld says that its job is older.
THEOREM HonestSharesAcceptedHolds == Spec => []HonestSharesAccepted
<1>1. MinerTypes /\ NamesInv /\ KeptInv /\ RatedInv => HonestSharesAccepted
  <2> SUFFICES ASSUME MinerTypes, NamesInv, KeptInv, RatedInv, renamed = {},
                      NEW v1 \in DOMAIN told, told[v1].calm, firstJob.job - told[v1].job < Tracked
               PROVE  Verdict(v1, told[v1].diff) = "accepted"
    BY DEF HonestSharesAccepted
  <2>1. v1 \in V1s /\ told[v1].job \in Job
    BY DEF MinerTypes, ToldTypes, NamesInv, ToldJobs
  <2>2. Mentioned(v1, told[v1].job)
    BY DEF Mentioned
  <2>3. v1 \in DOMAIN recent.issued
    BY <2>1, <2>2 DEF KeptInv, Kept
  <2>4. <<v1, told[v1].job>> \notin redrawn
    BY <2>1 DEF KeptInv, RedrawnOld
  <2>5. recent.issued[v1].diff = told[v1].diff /\ recent.issued[v1].diff \in Nat
    BY <2>3, <2>4, MinerAssumption DEF RatedInv, ToldRated, IssuedAt, MinerTypes, RecentTypes, IssuedTypes
  <2>6. ValidateShare(v1, told[v1].diff)
    BY <2>5 DEF ValidateShare
  <2> QED
    BY <2>3, <2>6 DEF Verdict
<1> QED
  BY <1>1, MinerTypesHold, NamesHold, KeptHolds, RatedHolds, PTL

\* The miner, the Downstream, the bridge and the job the miner works on agree on the
\* difficulty whenever the connection is at rest (update_diff_setting), unless two
\* retargets overlapped.
THEOREM DifficultiesAgreeHolds == Spec => []DifficultiesAgree
<1>1. MinerTypes /\ RatedInv => DifficultiesAgree
  <2> SUFFICES ASSUME MinerTypes, RatedInv, Quiet, ~overlap
               PROVE  /\ minerDiff = diff
                      /\ bridgeDiff = diff
                      /\ (told[minerJob].calm /\ minerJob \in DOMAIN recent.issued) =>
                            recent.issued[minerJob].diff = diff
    BY DEF DifficultiesAgree
  <2>1. Live /\ Calm /\ notifier.pc = "listening"
    BY DEF Live, Quiet, Calm
  <2>2. minerJob \in DOMAIN recent.issued => minerJob \in DOMAIN told
    BY ZeroIsNoId DEF MinerTypes, RecentTypes, IssuedTypes, RatedInv, MinerJobTold
  <2> QED
    BY <2>1, <2>2 DEF RatedInv, Retargeted, IssuedAt
<1> QED
  BY <1>1, MinerTypesHold, RatedHolds, PTL

=============================================================================
