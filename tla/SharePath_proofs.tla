---------------------------- MODULE SharePath_proofs ----------------------------
(***************************************************************************)
(* Theorems about the way of a share and of its answer, with and without   *)
(* job declaration, for any number of shares and jobs and every limit.     *)
(***************************************************************************)
EXTENDS SharePath, FiniteSetTheorems, SequenceTheorems, TLAPS

-----------------------------------------------------------------------------
(* Queues *)

LEMMA AppendAt ==
    ASSUME NEW S, NEW s \in Seq(S), NEW e \in S
    PROVE  /\ Append(s, e) \in Seq(S) /\ DOMAIN s \subseteq DOMAIN Append(s, e)
           /\ Len(s) + 1 \in DOMAIN Append(s, e) /\ Append(s, e)[Len(s) + 1] = e
           /\ Len(s) + 1 \notin DOMAIN s
           /\ \A i \in DOMAIN s : Append(s, e)[i] = s[i] /\ i < Len(s) + 1
           /\ \A i \in DOMAIN Append(s, e) : i \in DOMAIN s \/ i = Len(s) + 1
<1>1. /\ Append(s, e) \in Seq(S) /\ Len(Append(s, e)) = Len(s) + 1
      /\ DOMAIN s = 1 .. Len(s) /\ Len(s) \in Nat
      /\ DOMAIN Append(s, e) = 1 .. Len(s) + 1
  OBVIOUS
<1>2. \A i \in 1 .. Len(s) : Append(s, e)[i] = s[i]
  BY AppendProperties
<1>3. Append(s, e)[Len(s) + 1] = e
  BY AppendProperties
<1> QED
  BY <1>1, <1>2, <1>3

LEMMA TailAt ==
    ASSUME NEW S, NEW s \in Seq(S), s # <<>>
    PROVE  /\ Tail(s) \in Seq(S) /\ Head(s) \in S
           /\ 1 \in DOMAIN s /\ s[1] = Head(s)
           /\ \A i \in DOMAIN Tail(s) : /\ i \in Nat /\ i >= 1 /\ i + 1 \in DOMAIN s
                                        /\ Tail(s)[i] = s[i + 1]
           /\ \A i \in DOMAIN s : /\ i \in Nat
                                  /\ i # 1 => /\ i - 1 \in DOMAIN Tail(s)
                                              /\ Tail(s)[i - 1] = s[i]
<1>1. /\ Tail(s) \in Seq(S) /\ Len(Tail(s)) = Len(s) - 1 /\ Len(s) \in Nat /\ Len(s) > 0
      /\ DOMAIN s = 1 .. Len(s) /\ DOMAIN Tail(s) = 1 .. Len(s) - 1
  OBVIOUS
<1>2. \A i \in 1 .. Len(s) - 1 : Tail(s)[i] = s[i + 1]
  BY HeadTailProperties
<1>3. ASSUME NEW i \in DOMAIN s, i # 1 PROVE i - 1 \in DOMAIN Tail(s) /\ Tail(s)[i - 1] = s[i]
  <2>1. i - 1 \in 1 .. Len(s) - 1 /\ i - 1 + 1 = i
    BY <1>1, <1>3
  <2> QED
    BY <1>1, <1>2, <2>1
<1>4. Head(s) = s[1] /\ 1 \in DOMAIN s /\ Head(s) \in S
  BY <1>1
<1> QED
  BY <1>1, <1>2, <1>3, <1>4

\* Channels hold every share or ticket once.
LEMMA QueueAppend ==
    ASSUME NEW S, NEW s \in Seq(S), NEW e \in S
    PROVE  /\ Append(s, e) \in Seq(S) /\ Range(Append(s, e)) = Range(s) \cup {e}
           /\ IsInjective(s) /\ e \notin Range(s) => IsInjective(Append(s, e))
BY AppendAt DEF Range, IsInjective

LEMMA QueueTail ==
    ASSUME NEW S, NEW s \in Seq(S), s # <<>>
    PROVE  /\ Tail(s) \in Seq(S) /\ Head(s) \in S
           /\ Range(s) = Range(Tail(s)) \cup {Head(s)}
           /\ IsInjective(s) => IsInjective(Tail(s)) /\ Head(s) \notin Range(Tail(s))
<1>1. Range(s) = Range(Tail(s)) \cup {Head(s)}
  <2>1. ASSUME NEW i \in DOMAIN s PROVE s[i] \in Range(Tail(s)) \cup {Head(s)}
    <3>1. CASE i = 1
      BY <3>1, TailAt
    <3>2. CASE i # 1
      BY <3>2, TailAt DEF Range
    <3> QED
      BY <3>1, <3>2
  <2>2. ASSUME NEW i \in DOMAIN Tail(s) PROVE Tail(s)[i] \in Range(s)
    BY TailAt DEF Range
  <2>3. Head(s) \in Range(s)
    BY TailAt DEF Range
  <2> QED
    BY <2>1, <2>2, <2>3 DEF Range
<1>2. ASSUME IsInjective(s) PROVE IsInjective(Tail(s)) /\ Head(s) \notin Range(Tail(s))
  <2>1. ASSUME NEW i \in DOMAIN Tail(s), NEW j \in DOMAIN Tail(s), Tail(s)[i] = Tail(s)[j] PROVE i = j
    <3>1. /\ i \in Nat /\ j \in Nat /\ i + 1 \in DOMAIN s /\ j + 1 \in DOMAIN s
          /\ s[i + 1] = s[j + 1]
      BY <2>1, TailAt
    <3>2. i + 1 = j + 1
      BY <1>2, <3>1 DEF IsInjective
    <3> QED
      BY <3>1, <3>2
  <2>2. ASSUME NEW i \in DOMAIN Tail(s) PROVE Tail(s)[i] # Head(s)
    <3>1. /\ i \in Nat /\ i >= 1 /\ i + 1 \in DOMAIN s /\ Tail(s)[i] = s[i + 1]
          /\ 1 \in DOMAIN s /\ s[1] = Head(s)
      BY TailAt
    <3>2. i + 1 # 1
      BY <3>1
    <3> QED
      BY <1>2, <3>1, <3>2 DEF IsInjective
  <2> QED
    BY <2>1, <2>2 DEF IsInjective, Range
<1> QED
  BY <1>1, <1>2, TailAt

\* The shares that messages of one kind name.
OfKind(q, k) == {q[i].share : i \in {j \in DOMAIN q : q[j].kind = k}}

\* No share is judged twice.
Judges(a) == a.kind \in {"ok", "error"}
OnceEach(q) ==
    \A i, j \in DOMAIN q : Judges(q[i]) /\ Judges(q[j]) /\ q[i].share = q[j].share => i = j

LEMMA KindAppend ==
    ASSUME NEW S, NEW q \in Seq(S), NEW a \in S, NEW k
    PROVE  OfKind(Append(q, a), k) = OfKind(q, k) \cup (IF a.kind = k THEN {a.share} ELSE {})
<1> DEFINE r == Append(q, a)
           n == Len(q) + 1
<1>1. /\ DOMAIN q \subseteq DOMAIN r /\ n \in DOMAIN r /\ r[n] = a
      /\ \A i \in DOMAIN q : r[i] = q[i]
      /\ \A i \in DOMAIN r : i \in DOMAIN q \/ i = n
  BY AppendAt
<1> HIDE DEF r, n
<1> QED
  BY <1>1 DEF OfKind, r

LEMMA OnceAppend ==
    ASSUME NEW S, NEW q \in Seq(S), NEW a \in S, OnceEach(q),
           Judges(a) => a.share \notin OfKind(q, "ok") \cup OfKind(q, "error")
    PROVE  OnceEach(Append(q, a))
<1> DEFINE r == Append(q, a)
           n == Len(q) + 1
<1>1. /\ r[n] = a
      /\ \A i \in DOMAIN q : r[i] = q[i]
      /\ \A i \in DOMAIN r : i \in DOMAIN q \/ i = n
  BY AppendAt
<1> HIDE DEF r, n
<1>2. \A i \in DOMAIN q : Judges(q[i]) /\ Judges(a) => q[i].share # a.share
  BY DEF OfKind, Judges
<1>3. ASSUME NEW i \in DOMAIN r, NEW j \in DOMAIN r, Judges(r[i]), Judges(r[j]), r[i].share = r[j].share
      PROVE  i = j
  <2>1. CASE i \in DOMAIN q /\ j \in DOMAIN q
    BY <1>1, <1>3, <2>1 DEF OnceEach
  <2>2. CASE ~(i \in DOMAIN q /\ j \in DOMAIN q)
    BY <1>1, <1>2, <1>3, <2>2
  <2> QED
    BY <2>1, <2>2
<1> QED
  BY <1>3 DEF OnceEach, r

LEMMA KindTail ==
    ASSUME NEW S, NEW q \in Seq(S), q # <<>>, NEW k
    PROVE  OfKind(q, k) = OfKind(Tail(q), k) \cup (IF Head(q).kind = k THEN {Head(q).share} ELSE {})
<1> DEFINE r == Tail(q)
           a == Head(q)
<1>1. /\ 1 \in DOMAIN q /\ q[1] = a
      /\ \A i \in DOMAIN r : i + 1 \in DOMAIN q /\ r[i] = q[i + 1]
      /\ \A i \in DOMAIN q : i # 1 => i - 1 \in DOMAIN r /\ r[i - 1] = q[i]
  BY TailAt
<1> HIDE DEF r, a
<1>2. ASSUME NEW i \in DOMAIN q, q[i].kind = k
      PROVE  q[i].share \in OfKind(r, k) \cup (IF a.kind = k THEN {a.share} ELSE {})
  <2>1. CASE i = 1
    BY <1>1, <1>2, <2>1
  <2>2. CASE i # 1
    BY <1>1, <1>2, <2>2 DEF OfKind
  <2> QED
    BY <2>1, <2>2
<1>3. ASSUME NEW i \in DOMAIN r, r[i].kind = k PROVE r[i].share \in OfKind(q, k)
  BY <1>1, <1>3 DEF OfKind
<1>4. a.kind = k => a.share \in OfKind(q, k)
  BY <1>1 DEF OfKind
<1> QED
  BY <1>2, <1>3, <1>4 DEF OfKind, r, a

LEMMA OnceTail ==
    ASSUME NEW S, NEW q \in Seq(S), q # <<>>, OnceEach(q)
    PROVE  /\ OnceEach(Tail(q))
           /\ Judges(Head(q)) =>
                 Head(q).share \notin OfKind(Tail(q), "ok") \cup OfKind(Tail(q), "error")
<1> DEFINE r == Tail(q)
           a == Head(q)
<1>1. /\ 1 \in DOMAIN q /\ q[1] = a
      /\ \A i \in DOMAIN r : i \in Nat /\ i >= 1 /\ i + 1 \in DOMAIN q /\ r[i] = q[i + 1]
  BY TailAt
<1> HIDE DEF r, a
<1>2. ASSUME NEW i \in DOMAIN r, NEW j \in DOMAIN r, Judges(r[i]), Judges(r[j]), r[i].share = r[j].share
      PROVE  i = j
  <2>1. i + 1 = j + 1
    BY <1>1, <1>2 DEF OnceEach
  <2> QED
    BY <1>1, <2>1
<1>3. ASSUME NEW i \in DOMAIN r, Judges(r[i]), Judges(a) PROVE r[i].share # a.share
  <2>1. i + 1 # 1
    BY <1>1
  <2> QED
    BY <1>1, <1>3, <2>1 DEF OnceEach
<1> QED
  BY <1>2, <1>3 DEF OnceEach, OfKind, Judges, r, a

-----------------------------------------------------------------------------
(* The accounter: where every share is *)

\* What the pool's connection delivers.
Answer ==
    [kind : {"ok", "error"}, share : Nat]
        \cup [kind : {"mining"}, share : Nat, count : Nat] \cup [kind : {"unexpected"}]

AccTypes ==
    /\ jobOf \in Seq(Jobs) /\ receiver \in Seq(Nat) /\ jdQ \in Seq(Nat)
    /\ acks \in Seq(Nat) /\ answers \in Seq(Answer)
    /\ holding \in Nat /\ acking \in Nat /\ sentUp \in [Jobs -> Nat]

\* The tickets of the bridge's and of handle_submit's channel.
TicketTypes ==
    /\ ticketJob \in Seq(Jobs) /\ bridgeQ \in Seq(Nat) /\ submitQ \in Seq(Nat)
    /\ Range(bridgeQ) \cup Range(submitQ) \subseteq Tickets

\* The stages of a share: with the job-declaration client, in the accounter's
\* channel, held by relay_up, at the pool, judged.
Outside == Range(jdQ) \cup seeking
Queued == Range(receiver)
Held == {holding} \ {0}
Allowed == OfKind(answers, "ok")
Denied == OfKind(answers, "error")
Acked == Range(acks)
Sent == Held \cup atPool \cup Allowed \cup Denied
Open == Outside \cup Queued \cup Sent

OnceQueued ==
    /\ IsInjective(receiver) /\ IsInjective(jdQ) /\ OnceEach(answers)
    /\ Range(jdQ) \cap seeking = {}

Known ==
    /\ Open \cup accepted \cup refusals \cup Acked \subseteq Shares
    /\ acking \in Shares \cup {0}
    /\ \A j \in Jobs : sentUp[j] # 0 => sentUp[j] \in Shares /\ jobOf[sentUp[j]] = j

Places ==
    /\ Outside \cap (Queued \cup Sent) = {}
    /\ Queued \cap Sent = {}
    /\ Held \cap (atPool \cup Allowed \cup Denied) = {}
    /\ atPool \cap (Allowed \cup Denied) = {}
    /\ Allowed \cap Denied = {}

\* A share on its way is not answered yet, unless its job was mixed up.
Fresh ==
    \A n \in Open :
        /\ n \notin refusals
        /\ jobOf[n] \notin burst => n \notin Acked /\ n # acking

\* The entry of a share on its way is its own.
Recorded == \A n \in Sent : jobOf[n] \notin burst => sentUp[jobOf[n]] = n

Pairs ==
    \A n, m \in Shares :
        /\ n # m /\ jobOf[n] = jobOf[m]
        /\ n \notin Acked \cup refusals /\ m \notin Acked \cup refusals
        => jobOf[n] \in burst

Judgement ==
    /\ Allowed \subseteq accepted
    /\ accepted \cap (Outside \cup Queued \cup Held \cup atPool \cup Denied \cup refusals) = {}

AckRight == acking # 0 => acking \in accepted \/ jobOf[acking] \in burst

AccSets ==
    /\ Known /\ Places /\ Fresh /\ Recorded /\ Pairs /\ Judgement /\ AckRight
    /\ PoolNotBlamedUnlessBurst

\* The inductive invariant behind PoolNotBlamedUnlessBurst.
AccInv == AccTypes /\ OnceQueued /\ AccSets

-----------------------------------------------------------------------------
(* What a step does to the stages *)

\* A new share n: to the job-declaration client, to the accounter, or dropped.
Enters(n, job) ==
    /\ n = Len(jobOf) + 1 /\ job \in Jobs
    /\ jobOf' = Append(jobOf, job)
    /\ burst' = IF Unanswered(job) = {} THEN burst ELSE burst \cup {job}
    /\ \/ Outside' = Outside \cup {n} /\ Queued' = Queued
       \/ Queued' = Queued \cup {n} /\ Outside' = Outside
       \/ Queued' = Queued /\ Outside' = Outside
    /\ Held' = Held /\ atPool' = atPool /\ Allowed' = Allowed /\ Denied' = Denied
    /\ Acked' = Acked /\ acking' = acking /\ refusals' = refusals /\ accepted' = accepted
    /\ sentUp' = sentUp /\ down' = down

\* The job-declaration client hands shares on, answers or drops them.
HandedOn ==
    /\ Outside' \subseteq Outside
    /\ Queued \subseteq Queued' /\ Queued' \subseteq Queued \cup (Outside \ Outside')
    /\ jobOf' = jobOf /\ burst' = burst
    /\ Held' = Held /\ atPool' = atPool /\ Allowed' = Allowed /\ Denied' = Denied
    /\ Acked' = Acked /\ acking' = acking /\ refusals' = refusals /\ accepted' = accepted
    /\ sentUp' = sentUp /\ down' = down

TakenUp(n) ==
    /\ n \in Queued /\ Queued' = Queued \ {n}
    /\ Held = {} /\ Held' = {n}
    /\ sentUp' = [sentUp EXCEPT ![jobOf[n]] = n]
    /\ jobOf' = jobOf /\ burst' = burst /\ Outside' = Outside
    /\ atPool' = atPool /\ Allowed' = Allowed /\ Denied' = Denied
    /\ Acked' = Acked /\ acking' = acking /\ refusals' = refusals /\ accepted' = accepted
    /\ down' = down

\* The send to the pool, or its failure.
SentOff ==
    /\ Held' = {} /\ atPool \subseteq atPool' /\ atPool' \subseteq atPool \cup Held
    /\ jobOf' = jobOf /\ burst' = burst /\ Outside' = Outside /\ Queued' = Queued
    /\ Allowed' = Allowed /\ Denied' = Denied
    /\ Acked' = Acked /\ acking' = acking /\ refusals' = refusals /\ accepted' = accepted
    /\ sentUp' = sentUp /\ down' = down

\* The pool judges shares: B accepted in a batch, Y accepted and N refused alone.
Verdict(B, Y, N) ==
    /\ B \cup Y \cup N \subseteq atPool
    /\ B \cap (Y \cup N) = {} /\ Y \cap N = {}
    /\ atPool' = atPool \ (B \cup Y \cup N)
    /\ Allowed' = Allowed \cup Y /\ Denied' = Denied \cup N
    /\ accepted' = accepted \cup B \cup Y
    /\ jobOf' = jobOf /\ burst' = burst /\ Outside' = Outside /\ Queued' = Queued
    /\ Held' = Held
    /\ Acked' = Acked /\ acking' = acking /\ refusals' = refusals
    /\ sentUp' = sentUp /\ down' = down

\* The ShareOk of share n finds the entry of its job, or none.
Matched(n) ==
    /\ n \in Allowed /\ Allowed' = Allowed \ {n}
    /\ \/ sentUp[jobOf[n]] = 0 /\ sentUp' = sentUp /\ acking' = acking /\ down' = "invalid"
       \/ /\ sentUp[jobOf[n]] # 0 /\ acking' = sentUp[jobOf[n]]
          /\ sentUp' = [sentUp EXCEPT ![jobOf[n]] = 0] /\ down' = down
    /\ jobOf' = jobOf /\ burst' = burst /\ Outside' = Outside /\ Queued' = Queued
    /\ Held' = Held /\ atPool' = atPool /\ Denied' = Denied
    /\ Acked' = Acked /\ refusals' = refusals /\ accepted' = accepted

\* Messages to the miner's side: the acknowledgement of relay_down, the refusals N.
Passed(N, ack) ==
    /\ N \subseteq Denied /\ Denied' \subseteq Denied \ N
    /\ refusals' = refusals \cup N
    /\ \/ ack /\ acking # 0 /\ Acked' = Acked \cup {acking} /\ acking' = 0
       \/ ~ack /\ Acked' = Acked /\ acking' \in {acking, 0}
    /\ down' \in {down, "unexpected", "closed"} /\ (down' = "relaying" => Denied' = Denied \ N)
    /\ jobOf' = jobOf /\ burst' = burst /\ Outside' = Outside /\ Queued' = Queued
    /\ Held' = Held /\ atPool' = atPool /\ Allowed' = Allowed
    /\ accepted' = accepted /\ sentUp' = sentUp

LEMMA MoveHandedOn ==
    ASSUME AccSets, HandedOn PROVE AccSets'
<1> USE DEF AccSets, HandedOn
<1>1. Shares' = Shares
  BY DEF Shares
<1>2. Known'
  BY <1>1 DEF Known, Open, Sent
<1>3. Places'
  BY DEF Places, Sent
<1>4. Fresh'
  BY DEF Fresh, Open, Sent
<1>5. Recorded' /\ AckRight' /\ PoolNotBlamedUnlessBurst'
  BY DEF Recorded, Sent, AckRight, PoolNotBlamedUnlessBurst
<1>6. Pairs'
  BY <1>1 DEF Pairs
<1>7. Judgement'
  BY DEF Judgement
<1> QED
  BY <1>2, <1>3, <1>4, <1>5, <1>6, <1>7

LEMMA MoveSentOff ==
    ASSUME AccSets, SentOff PROVE AccSets'
<1> USE DEF AccSets, SentOff
<1>1. Shares' = Shares
  BY DEF Shares
<1>2. Known'
  BY <1>1 DEF Known, Open, Sent
<1>3. Places'
  BY DEF Places, Sent
<1>4. Fresh'
  BY DEF Fresh, Open, Sent
<1>5. Recorded' /\ AckRight' /\ PoolNotBlamedUnlessBurst'
  BY DEF Recorded, Sent, AckRight, PoolNotBlamedUnlessBurst
<1>6. Pairs'
  BY <1>1 DEF Pairs
<1>7. Judgement'
  BY DEF Judgement
<1> QED
  BY <1>2, <1>3, <1>4, <1>5, <1>6, <1>7

LEMMA MoveVerdict ==
    ASSUME AccSets, NEW B, NEW Y, NEW N, Verdict(B, Y, N) PROVE AccSets'
<1> USE DEF AccSets, Verdict
<1>1. Shares' = Shares
  BY DEF Shares
<1>2. Known'
  BY <1>1 DEF Known, Open, Sent
<1>3. Places'
  BY DEF Places, Sent
<1>4. Fresh'
  BY DEF Fresh, Open, Sent
<1>5. Recorded' /\ AckRight' /\ PoolNotBlamedUnlessBurst'
  BY DEF Recorded, Sent, AckRight, PoolNotBlamedUnlessBurst
<1>6. Pairs'
  BY <1>1 DEF Pairs
<1>7. Judgement'
  BY DEF Judgement, Places, Sent, Fresh, Open
<1> QED
  BY <1>2, <1>3, <1>4, <1>5, <1>6, <1>7

LEMMA MovePassed ==
    ASSUME AccSets, NEW N, NEW ack \in BOOLEAN, Passed(N, ack) PROVE AccSets'
<1> USE DEF AccSets, Passed
<1>1. Shares' = Shares
  BY DEF Shares
<1>2. Known'
  BY <1>1 DEF Known, Open, Sent
<1>3. Places'
  BY DEF Places, Sent
<1>4. Fresh'
  <2>1. 0 \notin Open
    BY DEF Known, Shares
  <2>2. Open' \subseteq Open /\ Open' \cap N = {}
    BY DEF Open, Sent, Places
  <2>3. ASSUME NEW n \in Open'
        PROVE  /\ n \notin refusals'
               /\ jobOf[n] \notin burst => n \notin Acked' /\ n # acking'
    BY <2>1, <2>2 DEF Fresh
  <2> QED
    BY <2>3 DEF Fresh
<1>5. Recorded'
  BY DEF Recorded, Sent
<1>6. AckRight' /\ PoolNotBlamedUnlessBurst'
  BY DEF AckRight, PoolNotBlamedUnlessBurst
<1>7. Pairs'
  BY <1>1 DEF Pairs
<1>8. Judgement'
  BY DEF Judgement
<1> QED
  BY <1>2, <1>3, <1>4, <1>5, <1>6, <1>7, <1>8

\* relay_up takes a share: no other share of its job is on its way, or the job is
\* already mixed up.
LEMMA MoveTakenUp ==
    ASSUME AccTypes, AccSets, NEW n, TakenUp(n) PROVE AccSets'
<1> USE DEF AccSets, TakenUp
<1>1. /\ Shares' = Shares /\ n \in Shares /\ n \in Nat /\ n # 0
      /\ jobOf[n] \in Jobs
  BY DEF Shares, AccTypes, Known, Open
<1>2. sentUp' \in [Jobs -> Nat] /\ sentUp'[jobOf[n]] = n
      /\ \A j \in Jobs : j # jobOf[n] => sentUp'[j] = sentUp[j]
  BY <1>1 DEF AccTypes
<1>3. Known'
  BY <1>1, <1>2 DEF Known, Open, Sent
<1>4. Places'
  BY DEF Places, Sent
<1>5. Fresh'
  BY DEF Fresh, Open, Sent
<1>6. Recorded'
  <2>1. ASSUME NEW m \in Sent, jobOf[m] \notin burst PROVE sentUp'[jobOf[m]] = m
    <3>1. m # n /\ m \in Shares /\ jobOf[m] \in Jobs /\ sentUp[jobOf[m]] = m
      BY <2>1 DEF Places, Recorded, Known, Open, Shares, AccTypes
    <3>2. m \notin Acked \cup refusals
      BY <2>1 DEF Fresh, Open
    <3>3. CASE jobOf[m] = jobOf[n]
      <4>1. n \notin Acked \cup refusals
        BY <2>1, <3>3 DEF Fresh, Open
      <4> QED
        BY <1>1, <2>1, <3>1, <3>2, <3>3, <4>1 DEF Pairs
    <3> QED
      BY <1>2, <3>1, <3>3
  <2>2. Sent' = Sent \cup {n}
    BY DEF Sent
  <2> QED
    BY <1>2, <2>1, <2>2 DEF Recorded
<1>7. AckRight' /\ PoolNotBlamedUnlessBurst'
  BY DEF AckRight, PoolNotBlamedUnlessBurst
<1>8. Pairs'
  BY <1>1 DEF Pairs
<1>9. Judgement'
  BY DEF Judgement
<1> QED
  BY <1>3, <1>4, <1>5, <1>6, <1>7, <1>8, <1>9

\* The pool's ShareOk names the job: the entry is the share's own, unless two shares
\* of the job were on their way.
LEMMA MoveMatched ==
    ASSUME AccTypes, AccSets, acking = 0, NEW n, Matched(n) PROVE AccSets'
<1> USE DEF AccSets, Matched
<1> DEFINE job == jobOf[n]
<1>1. /\ Shares' = Shares /\ n \in Shares /\ n # 0 /\ job \in Jobs
      /\ job \notin burst => sentUp[job] = n
  BY DEF Shares, AccTypes, Known, Open, Sent, Recorded
<1>2. \A j \in Jobs : j # job => sentUp'[j] = sentUp[j]
  BY <1>1 DEF AccTypes
<1>3. sentUp[job] # 0 => sentUp'[job] = 0 /\ acking' \in Shares /\ jobOf[acking'] = job
  BY <1>1 DEF AccTypes, Known
<1>4. job \notin burst => acking' = n
  BY <1>1
<1>5. /\ Sent' \subseteq Sent \ {n} /\ Open' \subseteq Open \ {n}
  BY DEF Sent, Open, Places
<1>6. \A m \in Sent : m \in Shares /\ jobOf[m] \in Jobs
  BY DEF Known, Open, Shares, AccTypes
<1>7. Known'
  <2>1. \A j \in Jobs : sentUp'[j] # 0 => sentUp'[j] = sentUp[j]
    BY <1>2, <1>3
  <2>2. acking' \in Shares \cup {0}
    BY <1>3
  <2> QED
    BY <1>1, <1>5, <2>1, <2>2 DEF Known
<1>8. Places'
  BY DEF Places, Sent
<1>9. Fresh'
  <2>1. ASSUME NEW m \in Open', jobOf[m] \notin burst PROVE m # acking'
    <3>1. CASE sentUp[job] = 0
      BY <1>5, <2>1, <3>1 DEF Fresh
    <3>2. CASE sentUp[job] # 0
      BY <1>3, <1>4, <1>5, <2>1, <3>2
    <3> QED
      BY <3>1, <3>2
  <2> QED
    BY <1>5, <2>1 DEF Fresh
<1>10. Recorded'
  <2>1. ASSUME NEW m \in Sent', jobOf[m] \notin burst PROVE sentUp'[jobOf[m]] = m
    <3>1. m \in Sent /\ m # n /\ sentUp[jobOf[m]] = m /\ jobOf[m] \in Jobs
      BY <1>5, <1>6, <2>1 DEF Recorded
    <3>2. jobOf[m] # job
      BY <1>1, <2>1, <3>1
    <3> QED
      BY <1>2, <3>1, <3>2
  <2> QED
    BY <2>1 DEF Recorded
<1>11. AckRight'
  <2>1. CASE sentUp[job] = 0
    BY <2>1 DEF AckRight
  <2>2. CASE sentUp[job] # 0
    <3>1. job \notin burst => acking' \in accepted
      BY <1>4 DEF Judgement
    <3> QED
      BY <1>3, <2>2, <3>1 DEF AckRight
  <2> QED
    BY <2>1, <2>2
<1>12. PoolNotBlamedUnlessBurst'
  BY <1>1 DEF PoolNotBlamedUnlessBurst
<1>13. Pairs'
  BY <1>1 DEF Pairs
<1>14. Judgement'
  BY DEF Judgement
<1> QED
  BY <1>7, <1>8, <1>9, <1>10, <1>11, <1>12, <1>13, <1>14

\* A new share of a job with an unanswered one makes a burst.
LEMMA MoveEnters ==
    ASSUME AccTypes, AccSets, NEW n, NEW job, Enters(n, job) PROVE AccSets'
<1> USE DEF AccSets, Enters
<1>1. /\ n = Len(jobOf) + 1 /\ Shares' = Shares \cup {n} /\ n \notin Shares /\ n # 0
      /\ jobOf' \in Seq(Jobs)
      /\ jobOf'[n] = job /\ \A m \in Shares : jobOf'[m] = jobOf[m]
      /\ 0 \notin Shares
  BY DEF Shares, AccTypes
<1>2. burst \subseteq burst' /\ burst' \subseteq burst \cup {job}
  OBVIOUS
<1>3. /\ Sent' = Sent /\ Open' \subseteq Open \cup {n} /\ Sent \subseteq Open
      /\ Open \subseteq Shares
  BY DEF Sent, Open, Known
<1>4. Known'
  BY <1>1, <1>3 DEF Known
<1>5. Places'
  BY <1>1, <1>3 DEF Places, Open, Sent
<1>6. Fresh'
  <2>1. n \notin refusals /\ n \notin Acked /\ n # acking
    BY <1>1 DEF Known
  <2>2. ASSUME NEW m \in Open'
        PROVE  /\ m \notin refusals
               /\ jobOf'[m] \notin burst' => m \notin Acked /\ m # acking
    <3>1. CASE m = n
      BY <2>1, <3>1
    <3>2. CASE m # n
      <4>1. m \in Open /\ jobOf'[m] = jobOf[m]
        BY <1>1, <1>3, <3>2
      <4>2. /\ m \notin refusals
            /\ jobOf[m] \notin burst => m \notin Acked /\ m # acking
        BY <4>1 DEF Fresh
      <4> QED
        BY <1>2, <4>1, <4>2
    <3> QED
      BY <3>1, <3>2
  <2> QED
    BY <2>2 DEF Fresh
<1>7. Recorded'
  BY <1>1, <1>2, <1>3 DEF Recorded
<1>8. AckRight' /\ PoolNotBlamedUnlessBurst'
  BY <1>1, <1>2 DEF AckRight, PoolNotBlamedUnlessBurst, Known
<1>9. Pairs'
  <2>1. ASSUME NEW m \in Shares, jobOf[m] = job, m \notin Acked \cup refusals PROVE job \in burst'
    <3>1. m \in Unanswered(job)
      BY <2>1 DEF Unanswered, Acked
    <3> QED
      BY <3>1
  <2>2. ASSUME NEW k \in Shares', NEW m \in Shares', k # m, jobOf'[k] = jobOf'[m],
               k \notin Acked \cup refusals, m \notin Acked \cup refusals
        PROVE  jobOf'[k] \in burst'
    <3>1. CASE k = n \/ m = n
      BY <1>1, <2>1, <2>2, <3>1
    <3>2. CASE k # n /\ m # n
      BY <1>1, <1>2, <2>2, <3>2 DEF Pairs
    <3> QED
      BY <3>1, <3>2
  <2> QED
    BY <2>2 DEF Pairs
<1>10. Judgement'
  BY <1>1 DEF Judgement, Known
<1> QED
  BY <1>4, <1>5, <1>6, <1>7, <1>8, <1>9, <1>10

-----------------------------------------------------------------------------
(* The actions *)

\* Nothing that the accounter's invariant speaks of has changed.
LEMMA AccUnchanged ==
    ASSUME AccInv, UNCHANGED <<accounterVars, jdQ, seeking>> PROVE AccInv'
<1> USE DEF accounterVars, upVars, poolVars, downVars
<1>1. /\ Outside' = Outside /\ Queued' = Queued /\ Held' = Held /\ Allowed' = Allowed
      /\ Denied' = Denied /\ Acked' = Acked
  BY DEF Outside, Queued, Held, Allowed, Denied, Acked
<1>2. HandedOn
  BY <1>1 DEF HandedOn
<1>3. AccTypes' /\ OnceQueued'
  BY DEF AccInv, AccTypes, OnceQueued
<1> QED
  BY <1>2, <1>3, MoveHandedOn DEF AccInv

LEMMA AccSubmit ==
    ASSUME AccInv, TicketTypes, SubmitStep PROVE AccInv' /\ \E n, job : Enters(n, job)
<1> USE DEF SubmitStep, HandleSubmit, poolVars, downVars
<1> DEFINE t == Head(submitQ)
           job == JobOfTicket(t)
           n == Len(jobOf) + 1
<1>1. t \in Tickets /\ job \in Jobs /\ n \in Nat
  <2>1. submitQ # <<>> /\ submitQ \in Seq(Nat)
    BY DEF TicketTypes
  <2>2. t \in Range(submitQ)
    BY <2>1, QueueTail
  <2>3. t \in Tickets
    BY <2>2 DEF TicketTypes
  <2> QED
    BY <2>3 DEF TicketTypes, Tickets, JobOfTicket, AccInv, AccTypes
<1>2. /\ jobOf' = Append(jobOf, job)
      /\ burst' = IF Unanswered(job) = {} THEN burst ELSE burst \cup {job}
      /\ \/ jdQ' = Append(jdQ, n) /\ receiver' = receiver
         \/ receiver' = Append(receiver, n) /\ jdQ' = jdQ
         \/ receiver' = receiver /\ jdQ' = jdQ
      /\ holding' = holding /\ atPool' = atPool /\ answers' = answers /\ acks' = acks
      /\ acking' = acking /\ refusals' = refusals /\ accepted' = accepted
      /\ sentUp' = sentUp /\ down' = down /\ seeking' = seeking
  OBVIOUS
<1> HIDE DEF SubmitStep, HandleSubmit, t, job, n
<1>3. n \notin Range(receiver) /\ n \notin Range(jdQ) /\ n \notin seeking
  <2>1. n \notin Shares
    BY DEF AccInv, AccTypes, Shares, n
  <2> QED
    BY <2>1 DEF AccInv, AccSets, Known, Open, Outside, Queued
<1>4. /\ Append(jdQ, n) \in Seq(Nat) /\ Append(receiver, n) \in Seq(Nat)
      /\ Range(Append(jdQ, n)) = Range(jdQ) \cup {n} /\ IsInjective(Append(jdQ, n))
      /\ Range(Append(receiver, n)) = Range(receiver) \cup {n}
      /\ IsInjective(Append(receiver, n))
  BY <1>1, <1>3, QueueAppend DEF AccInv, AccTypes, OnceQueued
<1>5. AccTypes' /\ OnceQueued'
  <2>1. jobOf' \in Seq(Jobs)
    BY <1>1, <1>2 DEF AccInv, AccTypes
  <2>2. /\ receiver' \in Seq(Nat) /\ jdQ' \in Seq(Nat)
        /\ IsInjective(receiver') /\ IsInjective(jdQ') /\ Range(jdQ') \cap seeking = {}
    <3>1. CASE jdQ' = Append(jdQ, n) /\ receiver' = receiver
      BY <1>3, <1>4, <3>1 DEF AccInv, AccTypes, OnceQueued
    <3>2. CASE receiver' = Append(receiver, n) /\ jdQ' = jdQ
      BY <1>3, <1>4, <3>2 DEF AccInv, AccTypes, OnceQueued
    <3>3. CASE receiver' = receiver /\ jdQ' = jdQ
      BY <3>3 DEF AccInv, AccTypes, OnceQueued
    <3> QED
      BY <1>2, <3>1, <3>2, <3>3
  <2> QED
    BY <1>2, <2>1, <2>2 DEF AccInv, AccTypes, OnceQueued
<1>6. Enters(n, job)
  <2>1. /\ Held' = Held /\ Allowed' = Allowed /\ Denied' = Denied /\ Acked' = Acked
    BY <1>2 DEF Held, Allowed, Denied, Acked
  <2>2. \/ Outside' = Outside \cup {n} /\ Queued' = Queued
        \/ Queued' = Queued \cup {n} /\ Outside' = Outside
        \/ Queued' = Queued /\ Outside' = Outside
    BY <1>2, <1>4 DEF Outside, Queued
  <2> QED
    BY <1>1, <1>2, <2>1, <2>2 DEF Enters, n
<1> QED
  BY <1>5, <1>6, MoveEnters DEF AccInv

LEMMA AccJd ==
    ASSUME AccInv, JdStep PROVE AccInv' /\ HandedOn
<1> USE DEF accounterVars, upVars, poolVars, downVars
<1>0. /\ UNCHANGED accounterVars
      /\ \/ /\ jdQ # <<>> /\ jdQ' = Tail(jdQ)
            /\ seeking' = seeking \/ seeking' = seeking \cup {Head(jdQ)}
         \/ jdQ' = jdQ /\ seeking' \subseteq seeking
  BY DEF JdStep, JdClientTasks, JdRefuses, JdDrops, JdRelays, JobIdTimeout,
         JdRelaysReply, JdReceives
<1>1. jdQ # <<>> => /\ Tail(jdQ) \in Seq(Nat) /\ IsInjective(Tail(jdQ))
                    /\ Range(jdQ) = Range(Tail(jdQ)) \cup {Head(jdQ)}
                    /\ Head(jdQ) \notin Range(Tail(jdQ))
  BY QueueTail DEF AccInv, AccTypes, OnceQueued
<1>2. AccTypes' /\ OnceQueued'
  BY <1>0, <1>1 DEF AccInv, AccTypes, OnceQueued
<1>3. /\ Queued' = Queued /\ Held' = Held /\ Allowed' = Allowed
      /\ Denied' = Denied /\ Acked' = Acked
  BY <1>0 DEF Queued, Held, Allowed, Denied, Acked
<1>4. Outside' \subseteq Outside
  BY <1>0, <1>1 DEF Outside
<1>5. HandedOn
  BY <1>0, <1>3, <1>4 DEF HandedOn
<1> QED
  BY <1>2, <1>5, MoveHandedOn DEF AccInv

LEMMA AccRelayShare ==
    ASSUME AccInv, RelayShareStep PROVE AccInv' /\ HandedOn
<1> USE DEF poolVars, downVars, replyVars
<1>0. PICK n \in Shares : RelayShare(n)
  BY DEF RelayShareStep
<1>1. /\ n \in seeking /\ seeking' = seeking \ {n} /\ jdQ' = jdQ
      /\ receiver' = receiver \/ receiver' = Append(receiver, n)
      /\ jobOf' = jobOf /\ burst' = burst
      /\ holding' = holding /\ atPool' = atPool /\ answers' = answers /\ acks' = acks
      /\ acking' = acking /\ refusals' = refusals /\ accepted' = accepted
      /\ sentUp' = sentUp /\ down' = down
  BY <1>0 DEF RelayShare
<1>2. n \notin Range(receiver) /\ n \notin Range(jdQ) /\ n \in Nat
  BY <1>1 DEF AccInv, AccSets, Places, Outside, Queued, OnceQueued, Shares
<1>3. /\ Append(receiver, n) \in Seq(Nat) /\ IsInjective(Append(receiver, n))
      /\ Range(Append(receiver, n)) = Range(receiver) \cup {n}
  BY <1>2, QueueAppend DEF AccInv, AccTypes, OnceQueued
<1>4. AccTypes' /\ OnceQueued'
  BY <1>1, <1>3 DEF AccInv, AccTypes, OnceQueued
<1>5. /\ Held' = Held /\ Allowed' = Allowed /\ Denied' = Denied /\ Acked' = Acked
  BY <1>1 DEF Held, Allowed, Denied, Acked
<1>6. Outside' = Outside \ {n} /\ n \in Outside /\ (Queued' = Queued \/ Queued' = Queued \cup {n})
  BY <1>1, <1>2, <1>3 DEF Outside, Queued
<1>7. HandedOn
  BY <1>1, <1>5, <1>6 DEF HandedOn
<1> QED
  BY <1>4, <1>7, MoveHandedOn DEF AccInv

LEMMA AccRelayUp ==
    ASSUME AccInv, RelayUpStep PROVE AccInv' /\ (SentOff \/ \E n : TakenUp(n))
<1> USE DEF poolVars, downVars, jdVars
<1>0. /\ RelayUp /\ jdQ' = jdQ /\ seeking' = seeking
  BY DEF RelayUpStep
<1>1. CASE Record
  <2> DEFINE n == Head(receiver)
  <2>1. /\ holding = 0 /\ receiver # <<>> /\ holding' = n
        /\ receiver' = Tail(receiver) /\ sentUp' = [sentUp EXCEPT ![jobOf[n]] = n]
        /\ jobOf' = jobOf /\ burst' = burst
        /\ atPool' = atPool /\ answers' = answers /\ acks' = acks
        /\ acking' = acking /\ refusals' = refusals /\ accepted' = accepted
        /\ down' = down
    BY <1>1 DEF Record
  <2> HIDE DEF n
  <2>2. /\ Tail(receiver) \in Seq(Nat) /\ n \in Nat
        /\ Range(receiver) = Range(Tail(receiver)) \cup {n}
        /\ IsInjective(Tail(receiver)) /\ n \notin Range(Tail(receiver))
    BY <2>1, QueueTail DEF AccInv, AccTypes, OnceQueued, n
  <2>3. /\ Outside' = Outside /\ Allowed' = Allowed /\ Denied' = Denied /\ Acked' = Acked
    BY <1>0, <2>1 DEF Outside, Allowed, Denied, Acked
  <2>4. n \in Queued /\ Queued' = Queued \ {n}
    BY <2>1, <2>2 DEF Queued
  <2>5. n # 0 /\ jobOf[n] \in Jobs
    BY <2>4 DEF AccInv, AccTypes, AccSets, Known, Open, Shares
  <2>6. Held = {} /\ Held' = {n}
    BY <2>1, <2>5 DEF Held
  <2>7. TakenUp(n)
    BY <2>1, <2>3, <2>4, <2>6 DEF TakenUp
  <2>8. AccTypes' /\ OnceQueued'
    BY <1>0, <2>1, <2>2, <2>5 DEF AccInv, AccTypes, OnceQueued
  <2> QED
    BY <2>7, <2>8, MoveTakenUp DEF AccInv
<1>2. CASE SendUp \/ SendUpFails
  <2>1. /\ holding # 0 /\ holding' = 0 /\ receiver' = receiver /\ sentUp' = sentUp
        /\ atPool' = atPool \/ atPool' = atPool \cup {holding}
        /\ jobOf' = jobOf /\ burst' = burst
        /\ answers' = answers /\ acks' = acks
        /\ acking' = acking /\ refusals' = refusals /\ accepted' = accepted
        /\ down' = down
    BY <1>2 DEF SendUp, SendUpFails
  <2>2. AccTypes' /\ OnceQueued'
    BY <1>0, <2>1 DEF AccInv, AccTypes, OnceQueued
  <2>3. /\ Outside' = Outside /\ Queued' = Queued
        /\ Allowed' = Allowed /\ Denied' = Denied /\ Acked' = Acked
        /\ Held = {holding} /\ Held' = {}
    BY <1>0, <2>1 DEF Outside, Queued, Allowed, Denied, Acked, Held
  <2>4. SentOff
    BY <2>1, <2>3 DEF SentOff
  <2> QED
    BY <2>2, <2>4, MoveSentOff DEF AccInv
<1> QED
  BY <1>0, <1>1, <1>2 DEF RelayUp

\* relay_down takes the oldest answer.
LEMMA AnswerTaken ==
    ASSUME AccInv, answers # <<>>, answers' = Tail(answers)
    PROVE  LET a == Head(answers)
           IN  /\ answers' \in Seq(Answer) /\ OnceEach(answers') /\ a \in Answer
               /\ a.kind = "ok" => /\ a.share \in Allowed /\ Allowed' = Allowed \ {a.share}
                                   /\ Denied' = Denied
               /\ a.kind = "error" => /\ a.share \in Denied /\ Denied' = Denied \ {a.share}
                                      /\ Allowed' = Allowed
               /\ a.kind \notin {"ok", "error"} => Allowed' = Allowed /\ Denied' = Denied
<1> DEFINE a == Head(answers)
           r == Tail(answers)
<1>1. answers \in Seq(Answer) /\ OnceEach(answers)
  BY DEF AccInv, AccTypes, OnceQueued
<1>2. r \in Seq(Answer) /\ a \in Answer
  BY <1>1, TailAt
<1>3. /\ OnceEach(r)
      /\ Judges(a) => a.share \notin OfKind(r, "ok") \cup OfKind(r, "error")
  BY <1>1, OnceTail
<1>4. /\ Allowed = OfKind(r, "ok") \cup (IF a.kind = "ok" THEN {a.share} ELSE {})
      /\ Denied = OfKind(r, "error") \cup (IF a.kind = "error" THEN {a.share} ELSE {})
  BY <1>1, KindTail DEF Allowed, Denied
<1>5. Allowed' = OfKind(r, "ok") /\ Denied' = OfKind(r, "error")
  BY DEF Allowed, Denied
<1> HIDE DEF a, r
<1>6. /\ a.kind = "ok" => /\ a.share \in Allowed /\ Allowed' = Allowed \ {a.share}
                          /\ Denied' = Denied
      /\ a.kind = "error" => /\ a.share \in Denied /\ Denied' = Denied \ {a.share}
                             /\ Allowed' = Allowed
      /\ a.kind \notin {"ok", "error"} => Allowed' = Allowed /\ Denied' = Denied
  BY <1>3, <1>4, <1>5 DEF Judges
<1> QED
  BY <1>2, <1>3, <1>6 DEF a, r

LEMMA AccRelayDown ==
    ASSUME AccInv, RelayDownStep
    PROVE  AccInv' /\ ((\E n : Matched(n)) \/ \E N, ack : Passed(N, ack))
<1> USE DEF upVars, poolVars, jdVars, downVars
<1> DEFINE a == Head(answers)
<1>0. /\ PathRelayDown /\ jdQ' = jdQ /\ seeking' = seeking
      /\ jobOf' = jobOf /\ receiver' = receiver /\ holding' = holding /\ burst' = burst
      /\ atPool' = atPool /\ accepted' = accepted
  BY DEF RelayDownStep, PathRelayDown, OnShareOk, SendSuccess, OnError, OnMining,
         OnUnexpected, SendDownFails
<1>1. /\ Outside' = Outside /\ Queued' = Queued /\ Held' = Held
  BY <1>0 DEF Outside, Queued, Held
<1>2. CASE OnShareOk
  <2> DEFINE n == a.share
  <2>1. /\ down = "relaying" /\ acking = 0 /\ answers # <<>> /\ a.kind = "ok"
        /\ answers' = Tail(answers)
        /\ acks' = acks /\ refusals' = refusals
        /\ \/ sentUp[jobOf[n]] = 0 /\ sentUp' = sentUp /\ acking' = acking /\ down' = "invalid"
           \/ /\ sentUp[jobOf[n]] # 0 /\ acking' = sentUp[jobOf[n]]
              /\ sentUp' = [sentUp EXCEPT ![jobOf[n]] = 0] /\ down' = down
    BY <1>2 DEF OnShareOk, Relaying
  <2>2. /\ answers' \in Seq(Answer) /\ OnceEach(answers')
        /\ n \in Allowed /\ Allowed' = Allowed \ {n} /\ Denied' = Denied
    BY <2>1, AnswerTaken
  <2> HIDE DEF n
  <2>3. Acked' = Acked
    BY <2>1 DEF Acked
  <2>4. jobOf[n] \in Jobs /\ sentUp[jobOf[n]] \in Nat
    BY <2>2 DEF AccInv, AccTypes, AccSets, Known, Open, Sent, Shares
  <2>5. AccTypes' /\ OnceQueued'
    BY <1>0, <2>1, <2>2, <2>4 DEF AccInv, AccTypes, OnceQueued
  <2>6. Matched(n)
    BY <1>0, <1>1, <2>1, <2>2, <2>3 DEF Matched
  <2> QED
    BY <2>1, <2>5, <2>6, MoveMatched DEF AccInv
<1>3. CASE SendSuccess
  <2>1. /\ acking # 0 /\ acks' = Append(acks, acking) /\ acking' = 0
        /\ answers' = answers /\ sentUp' = sentUp /\ down' = down /\ refusals' = refusals
    BY <1>3 DEF SendSuccess
  <2>2. acks' \in Seq(Nat) /\ Acked' = Acked \cup {acking}
    <3>0. acks \in Seq(Nat) /\ acking \in Nat
      BY DEF AccInv, AccTypes
    <3>1. /\ Append(acks, acking) \in Seq(Nat)
          /\ Range(Append(acks, acking)) = Range(acks) \cup {acking}
      BY <3>0, QueueAppend
    <3> QED
      BY <2>1, <3>1 DEF Acked
  <2>3. Allowed' = Allowed /\ Denied' = Denied
    BY <2>1 DEF Allowed, Denied
  <2>4. AccTypes' /\ OnceQueued'
    BY <1>0, <2>1, <2>2 DEF AccInv, AccTypes, OnceQueued
  <2>5. Passed({}, TRUE)
    BY <1>0, <1>1, <2>1, <2>2, <2>3 DEF Passed
  <2> QED
    BY <2>4, <2>5, MovePassed DEF AccInv
<1>4. CASE OnError
  <2>1. /\ answers # <<>> /\ a.kind = "error" /\ answers' = Tail(answers)
        /\ refusals' = refusals \cup {a.share}
        /\ acks' = acks /\ acking' = acking /\ sentUp' = sentUp /\ down' = down
    BY <1>4 DEF OnError, Relaying
  <2>2. /\ answers' \in Seq(Answer) /\ OnceEach(answers')
        /\ a.share \in Denied /\ Denied' = Denied \ {a.share} /\ Allowed' = Allowed
    BY <2>1, AnswerTaken
  <2>3. Acked' = Acked
    BY <2>1 DEF Acked
  <2>4. AccTypes' /\ OnceQueued'
    BY <1>0, <2>1, <2>2 DEF AccInv, AccTypes, OnceQueued
  <2> HIDE DEF a
  <2>5. Passed({a.share}, FALSE)
    BY <1>0, <1>1, <2>1, <2>2, <2>3 DEF Passed
  <2> QED
    BY <2>4, <2>5, MovePassed DEF AccInv
<1>5. CASE OnMining \/ OnUnexpected \/ SendDownFails
  <2>1. /\ \/ answers # <<>> /\ a.kind # "ok" /\ answers' = Tail(answers)
           \/ answers' = answers
        /\ refusals' = refusals /\ acks' = acks /\ sentUp' = sentUp
        /\ acking' \in {acking, 0} /\ down' \in {down, "unexpected", "closed"}
        /\ down' = "relaying" => answers # <<>> /\ a.kind = "mining" /\ answers' = Tail(answers)
    BY <1>5 DEF OnMining, OnUnexpected, SendDownFails, Relaying, downVars
  <2>2. /\ answers' \in Seq(Answer) /\ OnceEach(answers')
        /\ Denied' \subseteq Denied /\ Allowed' = Allowed
        /\ down' = "relaying" => Denied' = Denied
    <3>0. down' = "relaying" => Denied' = Denied
      BY <2>1, AnswerTaken
    <3>1. CASE answers' = answers
      BY <3>0, <3>1 DEF AccInv, AccTypes, OnceQueued, Allowed, Denied
    <3>2. CASE answers # <<>> /\ a.kind # "ok" /\ answers' = Tail(answers)
      BY <3>0, <3>2, AnswerTaken
    <3> QED
      BY <2>1, <3>1, <3>2
  <2>3. Acked' = Acked
    BY <2>1 DEF Acked
  <2>4. AccTypes' /\ OnceQueued'
    BY <1>0, <2>1, <2>2 DEF AccInv, AccTypes, OnceQueued
  <2>5. Passed({}, FALSE)
    BY <1>0, <1>1, <2>1, <2>2, <2>3 DEF Passed
  <2> QED
    BY <2>4, <2>5, MovePassed DEF AccInv
<1> QED
  BY <1>0, <1>2, <1>3, <1>4, <1>5 DEF PathRelayDown

\* The pool's connection delivers one more answer.
LEMMA AnswerAdded ==
    ASSUME AccInv, NEW a \in Answer, answers' = Append(answers, a),
           Judges(a) => a.share \notin Allowed \cup Denied
    PROVE  /\ answers' \in Seq(Answer) /\ OnceEach(answers')
           /\ Allowed' = Allowed \cup (IF a.kind = "ok" THEN {a.share} ELSE {})
           /\ Denied' = Denied \cup (IF a.kind = "error" THEN {a.share} ELSE {})
<1>1. answers \in Seq(Answer) /\ OnceEach(answers)
  BY DEF AccInv, AccTypes, OnceQueued
<1>2. OnceEach(Append(answers, a))
  BY <1>1, OnceAppend DEF Allowed, Denied
<1>3. /\ OfKind(Append(answers, a), "ok") = Allowed \cup (IF a.kind = "ok" THEN {a.share} ELSE {})
      /\ OfKind(Append(answers, a), "error") = Denied \cup (IF a.kind = "error" THEN {a.share} ELSE {})
  BY <1>1, KindAppend DEF Allowed, Denied
<1> QED
  BY <1>1, <1>2, <1>3 DEF Allowed, Denied

\* What PoolBatch and PoolSends put into the connection.
LEMMA BatchSize ==
    ASSUME AccInv, NEW n \in atPool
    PROVE  LET all == {m \in atPool : m <= n}
               batch == IF Cardinality(all) > 1 THEN all ELSE {}
           IN  /\ Cardinality(batch) \in Nat /\ Cardinality(batch) # 1
               /\ batch # {} => Cardinality(batch) > 1
               /\ batch = {} => Cardinality(batch) = 0
<1> DEFINE all == {m \in atPool : m <= n}
           batch == IF Cardinality(all) > 1 THEN all ELSE {}
<1>1. all \subseteq Shares /\ Len(jobOf) \in Nat
  BY DEF AccInv, AccTypes, AccSets, Known, Open, Sent
<1>2. IsFiniteSet(Shares)
  BY <1>1, FS_Interval DEF Shares
<1>3. IsFiniteSet(all)
  BY <1>1, <1>2, FS_Subset
<1>4. Cardinality(all) \in Nat
  BY <1>3, FS_CardinalityType
<1>5. Cardinality({}) = 0
  BY FS_EmptySet
<1> HIDE DEF all
<1>6. /\ Cardinality(batch) \in Nat /\ Cardinality(batch) # 1
      /\ batch # {} => Cardinality(batch) > 1
      /\ batch = {} => Cardinality(batch) = 0
  <2>1. CASE Cardinality(all) > 1
    <3>1. batch = all
      BY <2>1
    <3> HIDE DEF batch
    <3> QED
      BY <1>4, <1>5, <2>1, <3>1
  <2>2. CASE ~(Cardinality(all) > 1)
    <3>1. batch = {}
      BY <2>2
    <3> HIDE DEF batch
    <3> QED
      BY <1>5, <3>1
  <2> QED
    BY <2>1, <2>2
<1> HIDE DEF batch
<1> QED
  BY <1>6 DEF all, batch

LEMMA AccPool ==
    ASSUME AccInv, PoolStep
    PROVE  AccInv' /\ \E B, Y, N : Verdict(B, Y, N)
<1> USE DEF upVars, poolVars, jdVars, downVars
<1>0. /\ jdQ' = jdQ /\ seeking' = seeking /\ jobOf' = jobOf /\ receiver' = receiver
      /\ holding' = holding /\ burst' = burst /\ sentUp' = sentUp /\ down' = down
      /\ acking' = acking /\ acks' = acks /\ refusals' = refusals
  BY DEF PoolStep, PoolAnswers, PoolSends, PoolBatch
<1>1. /\ Outside' = Outside /\ Queued' = Queued /\ Held' = Held /\ Acked' = Acked
  BY <1>0 DEF Outside, Queued, Held, Acked
<1>2. ASSUME NEW n \in atPool, PoolAnswers(n) PROVE AccInv' /\ \E B, Y, N : Verdict(B, Y, N)
  <2>0. n \in Nat /\ n \notin Allowed \cup Denied
    BY DEF AccInv, AccSets, Known, Open, Sent, Shares, Places
  <2>1. CASE answers' = Append(answers, [kind |-> "ok", share |-> n]) /\ accepted' = accepted \cup {n}
    <3> DEFINE a == [kind |-> "ok", share |-> n]
    <3>1. a \in Answer /\ a.share = n /\ a.kind = "ok"
      BY <2>0 DEF Answer
    <3> HIDE DEF a
    <3>2. /\ answers' \in Seq(Answer) /\ OnceEach(answers')
          /\ Allowed' = Allowed \cup {n} /\ Denied' = Denied
      BY <2>0, <2>1, <3>1, AnswerAdded DEF a
    <3>3. AccTypes' /\ OnceQueued'
      BY <1>0, <3>2 DEF AccInv, AccTypes, OnceQueued
    <3>4. Verdict({}, {n}, {})
      BY <1>0, <1>1, <1>2, <2>1, <3>2 DEF Verdict, PoolAnswers
    <3> QED
      BY <3>3, <3>4, MoveVerdict DEF AccInv
  <2>2. CASE answers' = Append(answers, [kind |-> "error", share |-> n]) /\ accepted' = accepted
    <3> DEFINE a == [kind |-> "error", share |-> n]
    <3>1. a \in Answer /\ a.share = n /\ a.kind = "error"
      BY <2>0 DEF Answer
    <3> HIDE DEF a
    <3>2. /\ answers' \in Seq(Answer) /\ OnceEach(answers')
          /\ Allowed' = Allowed /\ Denied' = Denied \cup {n}
      BY <2>0, <2>2, <3>1, AnswerAdded DEF a
    <3>3. AccTypes' /\ OnceQueued'
      BY <1>0, <3>2 DEF AccInv, AccTypes, OnceQueued
    <3>4. Verdict({}, {}, {n})
      BY <1>0, <1>1, <1>2, <2>2, <3>2 DEF Verdict, PoolAnswers
    <3> QED
      BY <3>3, <3>4, MoveVerdict DEF AccInv
  <2> QED
    BY <1>2, <2>1, <2>2 DEF PoolAnswers
<1>3. CASE PoolSends("unexpected")
  <2> DEFINE a == [kind |-> "unexpected"]
  <2>1. a \in Answer /\ a.kind = "unexpected" /\ answers' = Append(answers, a)
        /\ atPool' = atPool /\ accepted' = accepted
    BY <1>3 DEF Answer, PoolSends
  <2> HIDE DEF a
  <2>2. /\ answers' \in Seq(Answer) /\ OnceEach(answers')
        /\ Allowed' = Allowed /\ Denied' = Denied
    BY <2>1, AnswerAdded DEF Judges
  <2>3. AccTypes' /\ OnceQueued'
    BY <1>0, <2>2 DEF AccInv, AccTypes, OnceQueued
  <2>4. Verdict({}, {}, {})
    BY <1>0, <1>1, <2>1, <2>2 DEF Verdict
  <2> QED
    BY <2>3, <2>4, MoveVerdict DEF AccInv
<1>4. ASSUME NEW n \in atPool, PoolBatch(n) PROVE AccInv' /\ \E B, Y, N : Verdict(B, Y, N)
  <2> DEFINE all == {m \in atPool : m <= n}
             batch == IF Cardinality(all) > 1 THEN all ELSE {}
             a == [kind |-> "mining", share |-> n, count |-> Cardinality(batch)]
  <2>1. Cardinality(batch) \in Nat
    BY BatchSize
  <2>2. /\ atPool' = atPool \ batch /\ accepted' = accepted \cup batch
        /\ answers' = Append(answers, a)
    BY <1>4 DEF PoolBatch
  <2>3. batch \subseteq atPool
    OBVIOUS
  <2> HIDE DEF batch
  <2>4. a \in Answer /\ a.kind = "mining"
    <3>1. n \in Nat
      BY DEF AccInv, AccSets, Known, Open, Sent, Shares
    <3> QED
      BY <2>1, <3>1 DEF Answer
  <2> HIDE DEF a
  <2>5. /\ answers' \in Seq(Answer) /\ OnceEach(answers')
        /\ Allowed' = Allowed /\ Denied' = Denied
    BY <2>2, <2>4, AnswerAdded DEF Judges
  <2>6. AccTypes' /\ OnceQueued'
    BY <1>0, <2>5 DEF AccInv, AccTypes, OnceQueued
  <2>7. Verdict(batch, {}, {})
    BY <1>0, <1>1, <2>2, <2>3, <2>5 DEF Verdict
  <2> QED
    BY <2>6, <2>7, MoveVerdict DEF AccInv
<1> QED
  BY <1>2, <1>3, <1>4 DEF PoolStep

-----------------------------------------------------------------------------
(* The tickets *)

LEMMA TicketStep ==
    ASSUME TicketTypes, PathNext PROVE TicketTypes' /\ Tickets \subseteq Tickets'
<1> USE DEF minerVars, submitVars, modeVars
<1>0. /\ ticketJob \in Seq(Jobs) /\ bridgeQ \in Seq(Nat) /\ submitQ \in Seq(Nat)
      /\ Range(bridgeQ) \cup Range(submitQ) \subseteq Tickets
  BY DEF TicketTypes
<1>1. CASE MinerStep
  <2>1. PICK job \in Jobs : ForwardSubmitShare(job)
    BY <1>1 DEF MinerStep
  <2> DEFINE t == Len(ticketJob) + 1
  <2>2. /\ ticketJob' = Append(ticketJob, job) /\ submitQ' = submitQ
        /\ bridgeQ' = bridgeQ \/ bridgeQ' = Append(bridgeQ, t)
    BY <1>1, <2>1 DEF ForwardSubmitShare, MinerStep
  <2>3. ticketJob' \in Seq(Jobs) /\ Tickets' = Tickets \cup {t} /\ t \in Nat
    BY <1>0, <2>2 DEF Tickets
  <2> HIDE DEF t
  <2>4. Append(bridgeQ, t) \in Seq(Nat) /\ Range(Append(bridgeQ, t)) = Range(bridgeQ) \cup {t}
    BY <1>0, <2>3, QueueAppend
  <2> QED
    BY <1>0, <2>2, <2>3, <2>4 DEF TicketTypes
<1>2. CASE BridgeStep
  <2>1. PICK t \in Tickets :
            /\ BridgeReceives(t)
            /\ bridgeQ' = Tail(bridgeQ) \/ bridgeQ' = <<>>
            /\ submitQ' = submitQ \/ (submitQ' = Append(submitQ, t) /\ bridgeQ' = Tail(bridgeQ))
    BY <1>2 DEF BridgeStep, Bridge, BridgeUnknownJob, BridgeUntranslatable, BridgeCheckFails,
                BridgeSubmits, BridgeRateLimits, BridgeAnswers, BridgeSettles, BridgeFails
  <2>2. bridgeQ # <<>> /\ t = Head(bridgeQ) /\ ticketJob' = ticketJob
    BY <2>1 DEF BridgeReceives
  <2>3. /\ Tail(bridgeQ) \in Seq(Nat) /\ t \in Nat
        /\ Range(bridgeQ) = Range(Tail(bridgeQ)) \cup {t}
    BY <1>0, <2>2, QueueTail
  <2>4. Append(submitQ, t) \in Seq(Nat) /\ Range(Append(submitQ, t)) = Range(submitQ) \cup {t}
    BY <1>0, <2>3, QueueAppend
  <2>5. <<>> \in Seq(Nat) /\ Range(<<>>) = {}
    BY DEF Range
  <2>6. Tickets' = Tickets
    BY <2>2 DEF Tickets
  <2>7. bridgeQ' \in Seq(Nat) /\ Range(bridgeQ') \subseteq Tickets
    BY <1>0, <2>1, <2>3, <2>5
  <2>8. submitQ' \in Seq(Nat) /\ Range(submitQ') \subseteq Tickets
    BY <1>0, <2>1, <2>4
  <2> QED
    BY <1>0, <2>2, <2>6, <2>7, <2>8 DEF TicketTypes
<1>3. CASE SubmitStep
  <2>1. /\ ticketJob' = ticketJob /\ bridgeQ' = bridgeQ /\ submitQ # <<>>
        /\ submitQ' = Tail(submitQ) \/ submitQ' = <<>>
    BY <1>3 DEF SubmitStep, HandleSubmit
  <2>2. Tail(submitQ) \in Seq(Nat) /\ Range(Tail(submitQ)) \subseteq Range(submitQ)
    BY <1>0, <2>1, QueueTail
  <2>3. <<>> \in Seq(Nat) /\ Range(<<>>) = {}
    BY DEF Range
  <2>4. Tickets' = Tickets
    BY <2>1 DEF Tickets
  <2>5. submitQ' \in Seq(Nat) /\ Range(submitQ') \subseteq Tickets
    BY <1>0, <2>1, <2>2, <2>3
  <2> QED
    BY <1>0, <2>1, <2>4, <2>5 DEF TicketTypes
<1>4. CASE UNCHANGED <<ticketJob, bridgeQ, submitQ>>
  BY <1>4 DEF TicketTypes, Tickets
<1> QED
  BY <1>1, <1>2, <1>3, <1>4 DEF PathNext, ReplyStep, HandleReply, JdStep, JobIdStep,
     RelayShareStep, RelayUpStep, RelayDownStep, PoolStep, MonitorStep, EndSession

LEMMA AccInit == PathInit => TicketTypes /\ AccInv
<1> SUFFICES ASSUME PathInit PROVE TicketTypes /\ AccInv
  OBVIOUS
<1> USE DEF PathInit, Init
<1>1. /\ Range(<<>>) = {} /\ IsInjective(<<>>) /\ OnceEach(<<>>)
      /\ OfKind(<<>>, "ok") = {} /\ OfKind(<<>>, "error") = {}
  BY DEF Range, IsInjective, OnceEach, OfKind
<1>2. TicketTypes
  BY <1>1 DEF TicketTypes
<1>3. AccTypes
  BY DEF AccTypes
<1>4. OnceQueued
  BY <1>1 DEF OnceQueued
<1>5. /\ Outside = {} /\ Queued = {} /\ Held = {} /\ Allowed = {} /\ Denied = {} /\ Acked = {}
      /\ Shares = {}
  BY <1>1 DEF Outside, Queued, Held, Allowed, Denied, Acked, Shares
<1>6. Known /\ AckRight /\ PoolNotBlamedUnlessBurst
  BY <1>5 DEF Known, Open, Sent, AckRight, PoolNotBlamedUnlessBurst
<1>7. Places /\ Fresh /\ Recorded /\ Pairs /\ Judgement
  BY <1>5 DEF Places, Fresh, Recorded, Pairs, Judgement, Open, Sent
<1> QED
  BY <1>2, <1>3, <1>4, <1>6, <1>7 DEF AccInv, AccSets

LEMMA AccNext ==
    ASSUME TicketTypes, AccInv, [PathNext]_pathVars PROVE TicketTypes' /\ AccInv'
<1>1. CASE UNCHANGED pathVars
  <2>1. UNCHANGED <<accounterVars, jdQ, seeking>> /\ UNCHANGED <<ticketJob, bridgeQ, submitQ>>
    BY <1>1 DEF pathVars, minerVars, submitVars, jdVars
  <2> QED
    BY <2>1, AccUnchanged DEF TicketTypes, Tickets
<1>2. CASE PathNext
  <2>1. CASE MinerStep \/ BridgeStep \/ ReplyStep \/ MonitorStep \/ JobIdStep
    <3>1. UNCHANGED <<accounterVars, jdQ, seeking>>
      BY <2>1 DEF MinerStep, BridgeStep, ReplyStep, MonitorStep, JobIdStep, RegisterJobId, jdVars
    <3> QED
      BY <1>2, <3>1, AccUnchanged, TicketStep
  <2> QED
    BY <1>2, <2>1, TicketStep, AccSubmit, AccJd, AccRelayShare, AccRelayUp, AccRelayDown, AccPool
       DEF PathNext
<1> QED
  BY <1>1, <1>2

\* relay_down calls an honest pool's share success invalid only where a job had two
\* shares on their way at a time: the entry of shares_sent_up is written before the
\* send and is the share's own until its answer, whatever job declaration, batches,
\* refusals and the loss of the connection do.
THEOREM PoolNotBlamedHolds == PathSpec => []PoolNotBlamedUnlessBurst
<1>1. PathInit => TicketTypes /\ AccInv
  BY AccInit
<1>2. TicketTypes /\ AccInv /\ [PathNext]_pathVars => (TicketTypes /\ AccInv)'
  BY AccNext
<1>3. AccInv => PoolNotBlamedUnlessBurst
  BY DEF AccInv, AccSets
<1> QED
  BY <1>1, <1>2, <1>3, PTL DEF PathSpec

-----------------------------------------------------------------------------
(* What no step takes back *)

\* Shares that may be settled as accepted, and shares the pool will never accept.
Fine == {n \in Shares : n \in accepted \/ jobOf[n] \in burst}
Gone == Shares \ (accepted \cup Outside \cup Queued \cup Held \cup atPool)

Grow ==
    /\ Shares \subseteq Shares' /\ accepted \subseteq accepted' /\ refusals \subseteq refusals'
    /\ Fine \subseteq Fine' /\ Gone \subseteq Gone'

LEMMA GrowEnters ==
    ASSUME AccTypes, AccSets, NEW n, NEW job, Enters(n, job) PROVE Grow
<1> USE DEF Enters
<1>1. /\ Shares' = Shares \cup {n} /\ n \notin Shares
      /\ \A m \in Shares : jobOf'[m] = jobOf[m]
  BY DEF Shares, AccTypes
<1>2. burst \subseteq burst'
  OBVIOUS
<1>3. Fine \subseteq Fine'
  BY <1>1, <1>2 DEF Fine
<1>4. Gone \subseteq Gone'
  BY <1>1 DEF Gone
<1> QED
  BY <1>1, <1>3, <1>4 DEF Grow

LEMMA GrowMoves ==
    ASSUME AccInv,
           \/ HandedOn \/ SentOff \/ \E n : TakenUp(n) \/ Matched(n)
           \/ \E B, Y, N : Verdict(B, Y, N)
           \/ \E N, ack : Passed(N, ack)
    PROVE  Grow
<1>1. /\ jobOf' = jobOf /\ burst' = burst /\ accepted \subseteq accepted' /\ refusals \subseteq refusals'
  BY DEF HandedOn, SentOff, TakenUp, Matched, Verdict, Passed
<1>2. Shares' = Shares
  BY <1>1 DEF Shares
<1>3. Fine \subseteq Fine'
  BY <1>1, <1>2 DEF Fine
<1>4. Gone \subseteq Gone'
  <2>1. CASE HandedOn
    BY <1>2, <2>1 DEF Gone, HandedOn
  <2>2. CASE SentOff
    BY <1>2, <2>2 DEF Gone, SentOff
  <2>3. ASSUME NEW n, TakenUp(n) \/ Matched(n) PROVE Gone \subseteq Gone'
    BY <1>2, <2>3 DEF Gone, TakenUp, Matched
  <2>4. ASSUME NEW B, NEW Y, NEW N, Verdict(B, Y, N) PROVE Gone \subseteq Gone'
    BY <1>2, <2>4 DEF Gone, Verdict
  <2>5. ASSUME NEW N, NEW ack, Passed(N, ack) PROVE Gone \subseteq Gone'
    BY <1>2, <2>5 DEF Gone, Passed
  <2> QED
    BY <2>1, <2>2, <2>3, <2>4, <2>5
<1> QED
  BY <1>1, <1>2, <1>3, <1>4 DEF Grow

LEMMA GrowUnchanged ==
    ASSUME UNCHANGED <<accounterVars, jdQ, seeking>> PROVE Grow
BY DEF Grow, Fine, Gone, Shares, Outside, Queued, Held, accounterVars, upVars, poolVars, downVars

LEMMA GrowNext ==
    ASSUME TicketTypes, AccInv, PathNext PROVE Grow
<1>1. CASE MinerStep \/ BridgeStep \/ ReplyStep \/ MonitorStep \/ JobIdStep
  <2>1. UNCHANGED <<accounterVars, jdQ, seeking>>
    BY <1>1 DEF MinerStep, BridgeStep, ReplyStep, MonitorStep, JobIdStep, RegisterJobId, jdVars
  <2> QED
    BY <2>1, GrowUnchanged
<1>2. CASE SubmitStep
  BY <1>2, AccSubmit, GrowEnters DEF AccInv
<1>3. CASE JdStep \/ RelayShareStep
  BY <1>3, AccJd, AccRelayShare, GrowMoves
<1>4. CASE RelayUpStep
  BY <1>4, AccRelayUp, GrowMoves
<1>5. CASE RelayDownStep
  BY <1>5, AccRelayDown, GrowMoves
<1>6. CASE PoolStep
  BY <1>6, AccPool, GrowMoves
<1> QED
  BY <1>1, <1>2, <1>3, <1>4, <1>5, <1>6 DEF PathNext

-----------------------------------------------------------------------------
(* The messages to the miner's side *)

Msg == [kind : {"error"}, share : Nat] \cup [kind : {"ok"}, share : Nat, count : Nat]

\* Messages that are true of the shares they name.
RightMsgs ==
    {a \in Msg :
        /\ a.kind = "error" => a.share \in Gone
        /\ a.kind = "ok" => /\ a.share \in Shares
                            /\ a.count = 1 => a.share \in Fine
                            /\ a.count > 1 => batched}
RightAnswers ==
    {a \in Answer :
        a.kind = "mining" => /\ a.share \in Shares /\ a.count # 1
                             /\ a.count > 1 => batched}

ReplyInv ==
    /\ batched \in BOOLEAN
    /\ replies \in Seq(Msg) /\ jdReplies \in Seq(Msg)
    /\ Range(replies) \subseteq RightMsgs
    /\ Range(jdReplies) \subseteq RightMsgs
    /\ Range(answers) \subseteq RightAnswers

LEMMA RightGrow ==
    ASSUME Grow, batched => batched'
    PROVE  RightMsgs \subseteq RightMsgs' /\ RightAnswers \subseteq RightAnswers'
<1>1. ASSUME NEW a \in RightMsgs PROVE a \in RightMsgs'
  BY DEF RightMsgs, Grow
<1>2. ASSUME NEW a \in RightAnswers PROVE a \in RightAnswers'
  BY DEF RightAnswers, Grow
<1> QED
  BY <1>1, <1>2

\* A step that adds at most one true message to each channel.
LEMMA RightChannels ==
    ASSUME AccTypes, AccTypes', ReplyInv, Grow, batched => batched', batched' \in BOOLEAN,
           \/ replies' = replies
           \/ replies # <<>> /\ replies' = Tail(replies)
           \/ \E a \in RightMsgs' : replies' = Append(replies, a),
           \/ jdReplies' = jdReplies
           \/ jdReplies # <<>> /\ jdReplies' = Tail(jdReplies)
           \/ \E a \in RightMsgs' : jdReplies' = Append(jdReplies, a),
           \/ answers' = answers
           \/ answers # <<>> /\ answers' = Tail(answers)
           \/ \E a \in RightAnswers' : answers' = Append(answers, a)
    PROVE  ReplyInv'
<1>0. RightMsgs \subseteq RightMsgs' /\ RightAnswers \subseteq RightAnswers'
  BY RightGrow
<1>1. RightMsgs' \subseteq Msg /\ RightAnswers' \subseteq Answer
  BY DEF RightMsgs, RightAnswers
<1>2. /\ replies \in Seq(Msg) /\ jdReplies \in Seq(Msg) /\ answers \in Seq(Answer)
      /\ Range(replies) \subseteq RightMsgs /\ Range(jdReplies) \subseteq RightMsgs
      /\ Range(answers) \subseteq RightAnswers
  BY DEF ReplyInv, AccTypes
<1>3. replies' \in Seq(Msg) /\ Range(replies') \subseteq RightMsgs'
  <2>1. CASE replies' = replies
    BY <1>0, <1>2, <2>1
  <2>2. CASE replies # <<>> /\ replies' = Tail(replies)
    <3>1. Tail(replies) \in Seq(Msg) /\ Range(Tail(replies)) \subseteq Range(replies)
      BY <1>2, <2>2, QueueTail
    <3> QED
      BY <1>0, <1>2, <2>2, <3>1
  <2>3. ASSUME NEW a \in RightMsgs', replies' = Append(replies, a)
        PROVE  replies' \in Seq(Msg) /\ Range(replies') \subseteq RightMsgs'
    <3>1. a \in Msg
      BY <1>1
    <3>2. Append(replies, a) \in Seq(Msg) /\ Range(Append(replies, a)) = Range(replies) \cup {a}
      BY <1>2, <3>1, QueueAppend
    <3> QED
      BY <1>0, <1>2, <2>3, <3>2
  <2> QED
    BY <2>1, <2>2, <2>3
<1>4. jdReplies' \in Seq(Msg) /\ Range(jdReplies') \subseteq RightMsgs'
  <2>1. CASE jdReplies' = jdReplies
    BY <1>0, <1>2, <2>1
  <2>2. CASE jdReplies # <<>> /\ jdReplies' = Tail(jdReplies)
    <3>1. Tail(jdReplies) \in Seq(Msg) /\ Range(Tail(jdReplies)) \subseteq Range(jdReplies)
      BY <1>2, <2>2, QueueTail
    <3> QED
      BY <1>0, <1>2, <2>2, <3>1
  <2>3. ASSUME NEW a \in RightMsgs', jdReplies' = Append(jdReplies, a)
        PROVE  jdReplies' \in Seq(Msg) /\ Range(jdReplies') \subseteq RightMsgs'
    <3>1. a \in Msg
      BY <1>1
    <3>2. /\ Append(jdReplies, a) \in Seq(Msg)
          /\ Range(Append(jdReplies, a)) = Range(jdReplies) \cup {a}
      BY <1>2, <3>1, QueueAppend
    <3> QED
      BY <1>0, <1>2, <2>3, <3>2
  <2> QED
    BY <2>1, <2>2, <2>3
<1>5. Range(answers') \subseteq RightAnswers'
  <2>1. CASE answers' = answers
    BY <1>0, <1>2, <2>1
  <2>2. CASE answers # <<>> /\ answers' = Tail(answers)
    <3>1. Range(Tail(answers)) \subseteq Range(answers)
      BY <1>2, <2>2, QueueTail
    <3> QED
      BY <1>0, <1>2, <2>2, <3>1
  <2>3. ASSUME NEW a \in RightAnswers', answers' = Append(answers, a)
        PROVE  Range(answers') \subseteq RightAnswers'
    <3>1. a \in Answer
      BY <1>1
    <3>2. Range(Append(answers, a)) = Range(answers) \cup {a}
      BY <1>2, <3>1, QueueAppend
    <3> QED
      BY <1>0, <1>2, <2>3, <3>2
  <2> QED
    BY <2>1, <2>2, <2>3
<1> QED
  BY <1>3, <1>4, <1>5 DEF ReplyInv

LEMMA ReplyDown ==
    ASSUME TicketTypes, AccInv, ReplyInv, ~over, RelayDownStep PROVE ReplyInv'
<1> DEFINE a == Head(answers)
<1>0. /\ batched' = batched /\ AccTypes /\ AccTypes' /\ Grow
      /\ UNCHANGED <<upVars, poolVars, jdVars>>
  <2>1. PathNext /\ AccInv'
    BY AccRelayDown DEF PathNext
  <2>2. Grow
    BY <2>1, GrowNext
  <2> QED
    BY <2>1, <2>2 DEF AccInv, RelayDownStep, PathRelayDown, modeVars, OnShareOk, SendSuccess,
                      OnError, OnMining, OnUnexpected, SendDownFails
<1>1. batched' \in BOOLEAN /\ (batched => batched')
  BY <1>0 DEF ReplyInv
<1>2. answers # <<>> => a \in RightAnswers /\ a \in Answer
  <2>1. answers \in Seq(Answer)
    BY DEF AccInv, AccTypes
  <2>2. answers # <<>> => a \in Range(answers)
    BY <2>1, QueueTail
  <2> QED
    BY <2>2 DEF ReplyInv, RightAnswers
<1>3. PathRelayDown
  BY DEF RelayDownStep
<1>4. CASE (OnShareOk \/ OnUnexpected \/ SendDownFails) /\ UNCHANGED replyVars
  <2>1. /\ replies' = replies /\ jdReplies' = jdReplies
        /\ \/ answers' = answers
           \/ answers # <<>> /\ answers' = Tail(answers)
    BY <1>4 DEF OnShareOk, OnUnexpected, SendDownFails, Relaying, replyVars
  <2> QED
    BY <1>0, <1>1, <2>1, RightChannels
<1>5. ASSUME NEW r \in RightMsgs', Reply(r),
             \/ answers' = answers
             \/ answers # <<>> /\ answers' = Tail(answers)
      PROVE  ReplyInv'
  BY <1>0, <1>1, <1>5, RightChannels DEF Reply
<1>6. CASE SendSuccess /\ Reply([kind |-> "ok", share |-> acking, count |-> 1])
  <2> DEFINE r == [kind |-> "ok", share |-> acking, count |-> 1]
  <2>1. acking \in Nat /\ acking # 0 /\ answers' = answers
    BY <1>6 DEF SendSuccess, AccInv, AccTypes
  <2>2. acking \in Fine
    BY <2>1 DEF AccInv, AccSets, AckRight, Fine, Known
  <2>3. r \in Msg /\ r.kind = "ok" /\ r.share = acking /\ r.count = 1
    BY <2>1 DEF Msg
  <2> HIDE DEF r
  <2>4. acking \in Fine' /\ acking \in Shares'
    BY <1>0, <2>2 DEF Grow, Fine
  <2>5. r \in RightMsgs'
    BY <2>3, <2>4 DEF RightMsgs
  <2> QED
    BY <1>5, <1>6, <2>1, <2>5 DEF r
<1>7. CASE OnError /\ Reply([kind |-> "error", share |-> a.share])
  <2> DEFINE r == [kind |-> "error", share |-> a.share]
  <2>1. answers # <<>> /\ answers' = Tail(answers) /\ a.kind = "error"
    BY <1>7 DEF OnError, Relaying
  <2>2. a.share \in Denied
    BY <2>1, AnswerTaken
  <2>3. a.share \in Gone /\ a.share \in Nat
    BY <2>2 DEF AccInv, AccSets, Gone, Known, Open, Sent, Places, Judgement, Shares
  <2>4. r \in Msg /\ r.kind = "error" /\ r.share = a.share
    BY <2>3 DEF Msg
  <2> HIDE DEF r
  <2>5. r \in RightMsgs'
    BY <1>0, <2>3, <2>4 DEF RightMsgs, Grow
  <2> QED
    BY <1>5, <1>7, <2>1, <2>5 DEF r
<1>8. CASE OnMining /\ Reply([kind |-> "ok", share |-> a.share, count |-> a.count])
  <2> DEFINE r == [kind |-> "ok", share |-> a.share, count |-> a.count]
  <2>1. answers # <<>> /\ answers' = Tail(answers) /\ a.kind = "mining"
    BY <1>8 DEF OnMining, Relaying
  <2>2. /\ a.share \in Nat /\ a.count \in Nat /\ a.share \in Shares /\ a.count # 1
        /\ a.count > 1 => batched
    BY <1>2, <2>1 DEF RightAnswers, Answer
  <2>3. r \in Msg /\ r.kind = "ok" /\ r.share = a.share /\ r.count = a.count
    BY <2>2 DEF Msg
  <2> HIDE DEF r
  <2>4. r \in RightMsgs'
    BY <1>0, <2>2, <2>3 DEF RightMsgs, Grow
  <2> QED
    BY <1>5, <1>8, <2>1, <2>4 DEF r
<1> QED
  BY <1>3, <1>4, <1>6, <1>7, <1>8 DEF PathRelayDown

LEMMA ReplyJd ==
    ASSUME TicketTypes, AccInv, ReplyInv, ~over, JdStep PROVE ReplyInv'
<1>0. /\ batched' = batched /\ answers' = answers /\ AccTypes /\ AccTypes' /\ Grow
      /\ UNCHANGED accounterVars
  <2>1. PathNext /\ AccInv'
    BY AccJd DEF PathNext
  <2>2. Grow
    BY <2>1, GrowNext
  <2> QED
    BY <2>1, <2>2 DEF AccInv, JdStep, modeVars, accounterVars
<1>1. batched' \in BOOLEAN /\ (batched => batched')
  BY <1>0 DEF ReplyInv
<1>2. ASSUME NEW n \in Shares, JdRefuses(n) PROVE ReplyInv'
  <2> DEFINE r == [kind |-> "error", share |-> n]
  <2>1. /\ jdQ # <<>> /\ n = Head(jdQ) /\ jdQ' = Tail(jdQ) /\ seeking' = seeking
        /\ replies' = Append(replies, r) /\ jdReplies' = jdReplies
    BY <1>2 DEF JdRefuses, JdReceives
  <2>2. n \in Range(jdQ) /\ n \notin Range(Tail(jdQ)) /\ n \in Nat
    BY <2>1, QueueTail DEF AccInv, AccTypes, OnceQueued
  <2>3. n \in Outside /\ n \notin Outside'
    BY <2>1, <2>2 DEF Outside, AccInv, OnceQueued
  <2>4. n \notin accepted \cup Queued \cup Held \cup atPool
    BY <2>3 DEF AccInv, AccSets, Places, Sent, Judgement
  <2>5. Queued' = Queued /\ Held' = Held /\ accepted' = accepted /\ atPool' = atPool /\ Shares' = Shares
    BY <1>0 DEF accounterVars, upVars, poolVars, Queued, Held, Shares
  <2>6. n \in Gone'
    BY <2>3, <2>4, <2>5 DEF Gone
  <2>7. r \in Msg /\ r.kind = "error" /\ r.share = n
    BY <2>2 DEF Msg
  <2> HIDE DEF r
  <2>8. r \in RightMsgs'
    BY <2>6, <2>7 DEF RightMsgs
  <2> QED
    BY <1>0, <1>1, <2>1, <2>8, RightChannels
<1>3. ASSUME NEW n \in Shares, JdDrops(n) \/ JdRelays(n) \/ JobIdTimeout(n) PROVE ReplyInv'
  <2>1. replies' = replies /\ jdReplies' = jdReplies
    BY <1>3 DEF JdDrops, JdRelays, JobIdTimeout, replyVars
  <2> QED
    BY <1>0, <1>1, <2>1, RightChannels
<1>4. CASE JdRelaysReply
  <2>1. /\ jdReplies # <<>> /\ jdReplies' = Tail(jdReplies)
        /\ replies' = replies \/ replies' = Append(replies, Head(jdReplies))
    BY <1>4 DEF JdRelaysReply
  <2>2. Head(jdReplies) \in Range(jdReplies)
    BY <2>1, QueueTail DEF ReplyInv
  <2>3. Head(jdReplies) \in RightMsgs'
    BY <1>0, <1>1, <2>2, RightGrow DEF ReplyInv
  <2> QED
    BY <1>0, <1>1, <2>1, <2>3, RightChannels
<1> QED
  BY <1>2, <1>3, <1>4 DEF JdStep, JdClientTasks

LEMMA ReplyPool ==
    ASSUME TicketTypes, AccInv, ReplyInv, ~over, PoolStep PROVE ReplyInv'
<1>0. AccTypes /\ AccTypes' /\ Grow /\ replies' = replies /\ jdReplies' = jdReplies
  <2>1. PathNext /\ AccInv'
    BY AccPool DEF PathNext
  <2>2. Grow
    BY <2>1, GrowNext
  <2> QED
    BY <2>1, <2>2 DEF AccInv, PoolStep, replyVars
<1>1. CASE batched' = batched /\ \E n \in atPool : PoolAnswers(n)
  <2>1. batched' \in BOOLEAN /\ (batched => batched')
    BY <1>1 DEF ReplyInv
  <2>2. PICK n \in atPool : PoolAnswers(n)
    BY <1>1
  <2>3. n \in Nat
    BY DEF AccInv, AccSets, Known, Open, Sent, Shares
  <2>4. \E a \in RightAnswers' : answers' = Append(answers, a)
    <3>1. ASSUME NEW k \in {"ok", "error"} PROVE [kind |-> k, share |-> n] \in RightAnswers'
      <4> DEFINE a == [kind |-> k, share |-> n]
      <4>1. a \in Answer /\ a.kind \in {"ok", "error"}
        BY <2>3 DEF Answer
      <4> HIDE DEF a
      <4>2. a \in RightAnswers'
        BY <4>1 DEF RightAnswers
      <4> QED
        BY <4>2 DEF a
    <3> QED
      BY <2>2, <3>1 DEF PoolAnswers
  <2> QED
    BY <1>0, <2>1, <2>4, RightChannels
<1>2. CASE batched' = batched /\ PoolSends("unexpected")
  <2>1. batched' \in BOOLEAN /\ (batched => batched')
    BY <1>2 DEF ReplyInv
  <2> DEFINE a == [kind |-> "unexpected"]
  <2>2. a \in Answer /\ a.kind = "unexpected" /\ answers' = Append(answers, a)
    BY <1>2 DEF Answer, PoolSends
  <2> HIDE DEF a
  <2>3. a \in RightAnswers'
    BY <2>2 DEF RightAnswers
  <2> QED
    BY <1>0, <2>1, <2>2, <2>3, RightChannels
<1>3. ASSUME NEW n \in atPool, PoolBatch(n) PROVE ReplyInv'
  <2> DEFINE all == {m \in atPool : m <= n}
             batch == IF Cardinality(all) > 1 THEN all ELSE {}
             a == [kind |-> "mining", share |-> n, count |-> Cardinality(batch)]
  <2>1. /\ Cardinality(batch) \in Nat /\ Cardinality(batch) # 1
        /\ batch = {} => Cardinality(batch) = 0
    BY BatchSize
  <2>2. answers' = Append(answers, a) /\ batched' = (batched \/ batch # {})
    BY <1>3 DEF PoolBatch
  <2> HIDE DEF batch
  <2>3. n \in Nat /\ n \in Shares
    BY DEF AccInv, AccSets, Known, Open, Sent, Shares
  <2>4. a \in Answer /\ a.share = n /\ a.count = Cardinality(batch)
    BY <2>1, <2>3 DEF Answer
  <2>5. batched' \in BOOLEAN /\ (batched => batched') /\ (batch # {} => batched')
    BY <2>2
  <2> HIDE DEF a
  <2>6. n \in Shares'
    BY <1>0, <2>3 DEF Grow
  <2>7. a \in RightAnswers'
    BY <2>1, <2>4, <2>5, <2>6 DEF RightAnswers
  <2> QED
    BY <1>0, <2>2, <2>5, <2>7, RightChannels
<1> QED
  BY <1>1, <1>2, <1>3 DEF PoolStep

LEMMA ReplyNext ==
    ASSUME TicketTypes, AccInv, ReplyInv, [PathNext]_pathVars PROVE ReplyInv'
<1>0. CASE UNCHANGED pathVars
  <2>1. UNCHANGED <<batched, replies, jdReplies, answers>> /\ UNCHANGED <<accounterVars, jdQ, seeking>>
    BY <1>0 DEF pathVars, replyVars, modeVars, accounterVars, jdVars
  <2>2. RightMsgs \subseteq RightMsgs' /\ RightAnswers \subseteq RightAnswers'
    BY <2>1, GrowUnchanged, RightGrow
  <2> QED
    BY <2>1, <2>2 DEF ReplyInv
<1>1. CASE PathNext
  <2>0. ~over /\ AccTypes /\ AccTypes' /\ Grow
    BY <1>1, AccNext, GrowNext DEF AccInv, PathNext
  <2>1. CASE MinerStep \/ BridgeStep \/ SubmitStep \/ ReplyStep \/ JobIdStep \/ RelayShareStep
             \/ RelayUpStep \/ MonitorStep
    <3>1. /\ batched' = batched /\ answers' = answers /\ jdReplies' = jdReplies
          /\ replies' = replies \/ (replies # <<>> /\ replies' = Tail(replies))
      BY <2>1 DEF MinerStep, BridgeStep, SubmitStep, HandleSubmit, ReplyStep, HandleReply,
                  JobIdStep, RegisterJobId, RelayShareStep, RelayShare, RelayUpStep, RelayUp,
                  Record, SendUp, SendUpFails, MonitorStep,
                  accounterVars, replyVars, modeVars
    <3>2. batched' \in BOOLEAN /\ (batched => batched')
      BY <3>1 DEF ReplyInv
    <3> QED
      BY <2>0, <3>1, <3>2, RightChannels
  <2> QED
    BY <1>1, <2>0, <2>1, ReplyDown, ReplyJd, ReplyPool DEF PathNext
<1> QED
  BY <1>0, <1>1

-----------------------------------------------------------------------------
(* Acknowledgements of several shares, without job declaration *)

Before(q, i, m) == \E k \in DOMAIN q : k < i /\ q[k].kind = "error" /\ q[k].share = m
IsBatch(a, kind) == a.kind = kind /\ a.count > 1

\* Every share up to one that a batch of q names is in S, or refused earlier in q.
Covered(q, kind, S) ==
    \A i \in DOMAIN q : IsBatch(q[i], kind) => \A m \in 1 .. q[i].share : m \in S \/ Before(q, i, m)

LEMMA CoveredMore ==
    ASSUME NEW q, NEW kind, NEW S, NEW T, S \subseteq T, Covered(q, kind, S) PROVE Covered(q, kind, T)
BY DEF Covered

LEMMA CoveredAppend ==
    ASSUME NEW A, NEW q \in Seq(A), NEW a \in A, NEW kind, NEW S, Covered(q, kind, S),
           IsBatch(a, kind) => \A m \in 1 .. a.share : m \in S \cup OfKind(q, "error")
    PROVE  Covered(Append(q, a), kind, S)
<1> DEFINE r == Append(q, a)
           n == Len(q) + 1
<1>1. /\ DOMAIN q \subseteq DOMAIN r /\ r[n] = a
      /\ \A i \in DOMAIN q : r[i] = q[i] /\ i < n
      /\ \A i \in DOMAIN r : i \in DOMAIN q \/ i = n
  BY AppendAt
<1> HIDE DEF r, n
<1>2. ASSUME NEW i \in DOMAIN r, IsBatch(r[i], kind), NEW m \in 1 .. r[i].share
      PROVE  m \in S \/ Before(r, i, m)
  <2>1. CASE i \in DOMAIN q
    <3>1. r[i] = q[i]
      BY <1>1, <2>1
    <3>2. m \in S \/ Before(q, i, m)
      BY <1>2, <2>1, <3>1 DEF Covered
    <3> QED
      BY <1>1, <3>2 DEF Before
  <2>2. CASE i = n
    <3>1. m \in S \cup OfKind(q, "error")
      BY <1>1, <1>2, <2>2
    <3>2. ASSUME m \in OfKind(q, "error") PROVE Before(r, n, m)
      BY <1>1, <3>2 DEF OfKind, Before
    <3> QED
      BY <2>2, <3>1, <3>2
  <2> QED
    BY <1>1, <2>1, <2>2
<1> QED
  BY <1>2 DEF Covered, r

\* The head of the channel has nothing before it; when it is a refusal, its share
\* has to be in S from then on.
LEMMA CoveredTail ==
    ASSUME NEW A, NEW q \in Seq(A), q # <<>>, NEW kind, NEW S, NEW T, S \subseteq T,
           Covered(q, kind, S), Head(q).kind = "error" => Head(q).share \in T
    PROVE  /\ Covered(Tail(q), kind, T)
           /\ IsBatch(Head(q), kind) => \A m \in 1 .. Head(q).share : m \in S
<1> DEFINE r == Tail(q)
           a == Head(q)
<1>1. /\ 1 \in DOMAIN q /\ q[1] = a
      /\ \A i \in DOMAIN r : i \in Nat /\ i >= 1 /\ i + 1 \in DOMAIN q /\ r[i] = q[i + 1]
      /\ \A i \in DOMAIN q : /\ i \in Nat
                             /\ i # 1 => i - 1 \in DOMAIN r /\ r[i - 1] = q[i]
  BY TailAt
<1>2. \A i \in DOMAIN q : i >= 1
  OBVIOUS
<1> HIDE DEF r, a
<1>3. ASSUME NEW i \in DOMAIN r, IsBatch(r[i], kind), NEW m \in 1 .. r[i].share
      PROVE  m \in T \/ Before(r, i, m)
  <2>1. i + 1 \in DOMAIN q /\ r[i] = q[i + 1] /\ i \in Nat
    BY <1>1
  <2>2. m \in S \/ Before(q, i + 1, m)
    BY <1>3, <2>1 DEF Covered
  <2>3. ASSUME Before(q, i + 1, m) PROVE m \in T \/ Before(r, i, m)
    <3>1. PICK k \in DOMAIN q : k < i + 1 /\ q[k].kind = "error" /\ q[k].share = m
      BY <2>3 DEF Before
    <3>2. CASE k = 1
      BY <1>1, <3>1, <3>2 DEF a
    <3>3. CASE k # 1
      <4>1. k \in Nat /\ k - 1 \in DOMAIN r /\ r[k - 1] = q[k] /\ k - 1 < i
        BY <1>1, <2>1, <3>1, <3>3
      <4> QED
        BY <3>1, <4>1 DEF Before
    <3> QED
      BY <3>2, <3>3
  <2> QED
    BY <2>2, <2>3
<1>4. ASSUME IsBatch(a, kind), NEW m \in 1 .. a.share PROVE m \in S
  <2>1. m \in S \/ Before(q, 1, m)
    BY <1>1, <1>4 DEF Covered
  <2>2. ~Before(q, 1, m)
    BY <1>1, <1>2 DEF Before
  <2> QED
    BY <2>1, <2>2
<1> QED
  BY <1>3, <1>4 DEF Covered, r, a

Increasing(s) == \A i, j \in DOMAIN s : i < j => s[i] < s[j]

LEMMA IncreasingAppend ==
    ASSUME NEW s \in Seq(Nat), NEW e \in Nat, Increasing(s), \A m \in Range(s) : m < e
    PROVE  Increasing(Append(s, e))
<1> DEFINE r == Append(s, e)
           n == Len(s) + 1
<1>1. /\ r[n] = e /\ n \in Nat
      /\ \A i \in DOMAIN s : r[i] = s[i] /\ i < n /\ i \in Nat
      /\ \A i \in DOMAIN r : i \in DOMAIN s \/ i = n
  BY AppendAt
<1>2. \A i \in DOMAIN s : s[i] < e
  BY DEF Range
<1> HIDE DEF r, n
<1> QED
  BY <1>1, <1>2 DEF Increasing, r

LEMMA IncreasingTail ==
    ASSUME NEW s \in Seq(Nat), s # <<>>, Increasing(s)
    PROVE  Increasing(Tail(s)) /\ \A m \in Range(Tail(s)) : Head(s) < m
<1> DEFINE r == Tail(s)
<1>1. /\ 1 \in DOMAIN s /\ s[1] = Head(s)
      /\ \A i \in DOMAIN r : i \in Nat /\ i >= 1 /\ i + 1 \in DOMAIN s /\ r[i] = s[i + 1]
  BY TailAt
<1> HIDE DEF r
<1>2. ASSUME NEW i \in DOMAIN r, NEW j \in DOMAIN r, i < j PROVE r[i] < r[j]
  <2>1. i + 1 < j + 1
    BY <1>1, <1>2
  <2> QED
    BY <1>1, <2>1 DEF Increasing
<1>3. ASSUME NEW i \in DOMAIN r PROVE Head(s) < r[i]
  <2>1. 1 < i + 1
    BY <1>1
  <2> QED
    BY <1>1, <2>1 DEF Increasing
<1> QED
  BY <1>2, <1>3 DEF Increasing, Range, r

\* Shares the pool has been sent, whatever became of them.
PassedOn == atPool \cup accepted \cup Denied \cup refusals

\* Without job declaration relay_up takes the shares in the order of their numbers.
Lined ==
    /\ Outside = {} /\ jdReplies = <<>>
    /\ Increasing(receiver)
    /\ \A r \in Queued : holding < r

\* Everything before a share the pool holds has been sent to it, and every share up
\* to one that a batch names is accepted or refused before the batch.
Reached ==
    down = "relaying" =>
        /\ up = "relaying" => Shares \subseteq PassedOn \cup Held \cup Queued
        /\ \A n \in atPool : 1 .. n \subseteq PassedOn
        /\ Covered(answers, "mining", accepted \cup refusals)

\* The same for the miner's side: what a batch resolves is accepted.
Covers ==
    /\ Covered(replies, "ok", accepted \cup (Shares \ pending))
    /\ refusals \cap pending \subseteq OfKind(replies, "error")

BatchInv == jd \in BOOLEAN /\ (~jd => Lined /\ Reached /\ Covers)

LEMMA BatchUnchanged ==
    ASSUME Lined, Reached, Covers,
           UNCHANGED <<accounterVars, jdQ, seeking, replies, jdReplies, pending>>
    PROVE  Lined' /\ Reached' /\ Covers'
<1> USE DEF accounterVars, upVars, poolVars, downVars
<1>1. /\ Outside' = Outside /\ Queued' = Queued /\ Held' = Held /\ Denied' = Denied
      /\ Shares' = Shares
  BY DEF Outside, Queued, Held, Denied, Shares
<1> QED
  BY <1>1 DEF Lined, Reached, Covers, PassedOn

LEMMA BatchSubmit ==
    ASSUME AccInv, TicketTypes, ~jd, Lined, Reached, Covers, SubmitStep
    PROVE  Lined' /\ Reached' /\ Covers'
<1> DEFINE n == Len(jobOf) + 1
           t == Head(submitQ)
<1>1. /\ jobOf' = Append(jobOf, JobOfTicket(t))
      /\ \/ receiver' = Append(receiver, n) /\ pending' = pending \cup {n}
         \/ receiver' = receiver /\ pending' = pending /\ up # "relaying"
      /\ jdQ' = jdQ /\ seeking' = seeking /\ replies' = replies /\ jdReplies' = jdReplies
      /\ holding' = holding /\ up' = up /\ down' = down /\ atPool' = atPool
      /\ accepted' = accepted /\ answers' = answers /\ refusals' = refusals
  BY DEF SubmitStep, HandleSubmit, poolVars, downVars, replyVars
<1>2. /\ n \in Nat /\ \A m \in Shares : m \in Nat /\ m < n
      /\ Shares' = Shares \cup {n} /\ n \notin Shares
  <2>1. jobOf' \in Seq(Jobs)
    BY AccSubmit DEF AccInv, AccTypes
  <2> QED
    BY <1>1, <2>1 DEF AccInv, AccTypes, Shares
<1>3. /\ Outside' = Outside /\ Held' = Held /\ Denied' = Denied /\ PassedOn' = PassedOn
  BY <1>1 DEF Outside, Held, Denied, PassedOn
<1> HIDE DEF n
<1>4. /\ receiver \in Seq(Nat) /\ Queued \subseteq Shares /\ refusals \subseteq Shares
      /\ holding \in Shares \cup {0} /\ holding \in Nat /\ holding < n
  <2>1. holding \in Shares \cup {0}
    BY DEF AccInv, AccSets, Known, Open, Sent, Held
  <2>2. 0 < n
    BY DEF AccInv, AccTypes, n
  <2> QED
    BY <1>2, <2>1, <2>2 DEF AccInv, AccTypes, AccSets, Known, Open
<1>5. /\ Append(receiver, n) \in Seq(Nat) /\ Range(Append(receiver, n)) = Queued \cup {n}
      /\ Increasing(Append(receiver, n))
  <2>1. \A m \in Range(receiver) : m < n
    BY <1>2, <1>4 DEF Queued
  <2> QED
    BY <1>2, <1>4, <2>1, QueueAppend, IncreasingAppend DEF Lined, Queued
<1>6. Lined'
  <2>1. CASE receiver' = Append(receiver, n)
    BY <1>1, <1>3, <1>4, <1>5, <2>1 DEF Lined, Queued
  <2>2. CASE receiver' = receiver
    BY <1>1, <1>3, <2>2 DEF Lined, Queued
  <2> QED
    BY <1>1, <2>1, <2>2
<1>7. Reached'
  <2>1. CASE receiver' = Append(receiver, n)
    <3>1. Queued' = Queued \cup {n}
      BY <1>5, <2>1 DEF Queued
    <3> QED
      BY <1>1, <1>2, <1>3, <3>1 DEF Reached
  <2>2. CASE up # "relaying"
    BY <1>1, <1>2, <1>3, <2>2 DEF Reached
  <2> QED
    BY <1>1, <2>1, <2>2
<1>8. Covers'
  <2>1. accepted \cup (Shares \ pending) \subseteq accepted \cup (Shares' \ pending')
    BY <1>1, <1>2
  <2>2. Covered(replies, "ok", accepted \cup (Shares' \ pending'))
    BY <2>1, CoveredMore DEF Covers
  <2>3. refusals \cap pending' \subseteq OfKind(replies, "error")
    BY <1>1, <1>2, <1>4 DEF Covers
  <2> QED
    BY <1>1, <2>2, <2>3 DEF Covers
<1> QED
  BY <1>6, <1>7, <1>8

LEMMA BatchRelayUp ==
    ASSUME AccInv, ~jd, Lined, Reached, Covers, RelayUpStep
    PROVE  Lined' /\ Reached' /\ Covers'
<1>0. /\ jobOf' = jobOf /\ pending' = pending /\ down' = down
      /\ jdQ' = jdQ /\ seeking' = seeking /\ replies' = replies /\ jdReplies' = jdReplies
      /\ accepted' = accepted /\ answers' = answers /\ refusals' = refusals
  BY DEF RelayUpStep, RelayUp, Record, SendUp, SendUpFails, poolVars, downVars, submitVars,
         jdVars, replyVars
<1>1. Shares' = Shares /\ Outside' = Outside /\ Denied' = Denied
  BY <1>0 DEF Shares, Outside, Denied
<1>2. Covers'
  BY <1>0, <1>1 DEF Covers
<1>3. CASE Record
  <2> DEFINE n == Head(receiver)
  <2>1. /\ holding = 0 /\ receiver # <<>> /\ holding' = n /\ receiver' = Tail(receiver)
        /\ up' = up /\ atPool' = atPool
    BY <1>3 DEF Record, poolVars
  <2>2. /\ Queued = Queued' \cup {n} /\ n \in Nat
        /\ Increasing(Tail(receiver)) /\ \A m \in Range(Tail(receiver)) : n < m
    BY <2>1, QueueTail, IncreasingTail DEF AccInv, AccTypes, Lined, Queued
  <2> HIDE DEF n
  <2>3. Held = {} /\ Held' = {n} \ {0} /\ n # 0
    <3>1. n \in Shares
      BY <2>2 DEF AccInv, AccSets, Known, Open
    <3> QED
      BY <2>1, <3>1 DEF Held, Shares
  <2>4. Lined'
    BY <1>0, <1>1, <2>1, <2>2 DEF Lined, Queued
  <2>5. PassedOn' = PassedOn
    BY <1>0, <1>1, <2>1 DEF PassedOn
  <2>6. Reached'
    BY <1>0, <1>1, <2>1, <2>2, <2>3, <2>5 DEF Reached
  <2> QED
    BY <1>2, <2>4, <2>6
<1>4. CASE SendUp \/ SendUpFails
  <2>1. /\ up = "relaying" /\ holding # 0 /\ holding' = 0 /\ receiver' = receiver
        /\ \/ atPool' = atPool \cup {holding} /\ up' = up
           \/ atPool' = atPool /\ up' = "ended"
    BY <1>4 DEF SendUp, SendUpFails, poolVars
  <2>2. /\ Queued' = Queued /\ Held = {holding} /\ Held' = {}
    BY <2>1 DEF Queued, Held
  <2>3. /\ \A r \in Queued : r \in Nat /\ r \in Shares
        /\ holding \in Shares /\ holding \in Nat
    BY <2>2 DEF AccInv, AccSets, Known, Open, Sent, Shares
  <2>4. Lined'
    <3>1. \A r \in Queued : 0 < r
      BY <2>3 DEF Shares
    <3> QED
      BY <1>0, <1>1, <2>1, <2>2, <3>1 DEF Lined
  <2>5. Reached'
    <3>1. CASE atPool' = atPool /\ up' = "ended"
      <4>1. PassedOn' = PassedOn
        BY <1>0, <1>1, <3>1 DEF PassedOn
      <4> QED
        BY <1>0, <3>1, <4>1 DEF Reached
    <3>2. CASE atPool' = atPool \cup {holding} /\ up' = up
      <4>1. PassedOn' = PassedOn \cup {holding}
        BY <1>0, <1>1, <3>2 DEF PassedOn
      <4>2. ASSUME down = "relaying", NEW m \in 1 .. holding PROVE m \in PassedOn'
        <5>1. m \in Shares /\ m \in Nat /\ m <= holding
          BY <2>3 DEF Shares, AccInv, AccTypes
        <5>2. m \notin Queued
          BY <2>3, <5>1 DEF Lined
        <5>3. m \in PassedOn \cup Held \cup Queued
          BY <2>1, <4>2, <5>1 DEF Reached
        <5> QED
          BY <2>2, <4>1, <5>2, <5>3
      <4>3. down = "relaying" => \A n \in atPool' : 1 .. n \subseteq PassedOn'
        BY <3>2, <4>1, <4>2 DEF Reached
      <4> QED
        BY <1>0, <1>1, <2>1, <2>2, <3>2, <4>1, <4>3 DEF Reached
    <3> QED
      BY <2>1, <3>1, <3>2
  <2> QED
    BY <1>2, <2>4, <2>5
<1> QED
  BY <1>3, <1>4 DEF RelayUpStep, RelayUp

LEMMA BatchPool ==
    ASSUME AccInv, ~jd, Lined, Reached, Covers, PoolStep
    PROVE  Lined' /\ Reached' /\ Covers'
<1>0. /\ jobOf' = jobOf /\ pending' = pending /\ down' = down /\ up' = up
      /\ jdQ' = jdQ /\ seeking' = seeking /\ replies' = replies /\ jdReplies' = jdReplies
      /\ receiver' = receiver /\ holding' = holding /\ refusals' = refusals
  BY DEF PoolStep, PoolAnswers, PoolSends, PoolBatch, upVars, downVars, submitVars, jdVars, replyVars
<1>1. Shares' = Shares /\ Outside' = Outside /\ Queued' = Queued /\ Held' = Held
  BY <1>0 DEF Shares, Outside, Queued, Held
<1>2. Lined'
  BY <1>0, <1>1 DEF Lined
<1>3. /\ accepted \subseteq accepted' /\ atPool' \subseteq atPool /\ PassedOn \subseteq PassedOn'
  BY AccPool DEF Verdict, PassedOn
<1>4. Covers'
  <2>1. accepted \cup (Shares \ pending) \subseteq accepted' \cup (Shares' \ pending')
    BY <1>0, <1>1, <1>3
  <2>2. Covered(replies, "ok", accepted' \cup (Shares' \ pending'))
    BY <2>1, CoveredMore DEF Covers
  <2> QED
    BY <1>0, <2>2 DEF Covers
<1>5. ASSUME down = "relaying" PROVE Covered(answers', "mining", accepted' \cup refusals)
  <2> DEFINE S == accepted' \cup refusals
  <2>1. Covered(answers, "mining", S)
    BY <1>3, <1>5, CoveredMore DEF Reached
  <2>2. answers \in Seq(Answer)
    BY DEF AccInv, AccTypes
  <2>3. ASSUME NEW a \in Answer, a.kind # "mining", answers' = Append(answers, a)
        PROVE  Covered(answers', "mining", S)
    <3>1. Covered(Append(answers, a), "mining", S)
      BY <2>1, <2>2, <2>3, CoveredAppend DEF IsBatch
    <3> QED
      BY <2>3, <3>1
  <2>4. ASSUME NEW n \in atPool, PoolAnswers(n) PROVE Covered(answers', "mining", S)
    <3>1. n \in Nat
      BY DEF AccInv, AccSets, Known, Open, Sent, Shares
    <3>2. ASSUME NEW k \in {"ok", "error"}, answers' = Append(answers, [kind |-> k, share |-> n])
          PROVE  Covered(answers', "mining", S)
      <4> DEFINE a == [kind |-> k, share |-> n]
      <4>1. a \in Answer /\ a.kind # "mining"
        BY <3>1 DEF Answer
      <4> QED
        BY <2>3, <3>2, <4>1
    <3> QED
      BY <2>4, <3>2 DEF PoolAnswers
  <2>5. ASSUME PoolSends("unexpected") PROVE Covered(answers', "mining", S)
    <3> DEFINE a == [kind |-> "unexpected"]
    <3>1. a \in Answer /\ a.kind # "mining" /\ answers' = Append(answers, a)
      BY <2>5 DEF Answer, PoolSends
    <3> QED
      BY <2>3, <3>1
  <2>6. ASSUME NEW n \in atPool, PoolBatch(n) PROVE Covered(answers', "mining", S)
    <3> DEFINE all == {m \in atPool : m <= n}
               batch == IF Cardinality(all) > 1 THEN all ELSE {}
               a == [kind |-> "mining", share |-> n, count |-> Cardinality(batch)]
    <3>1. Cardinality(batch) \in Nat /\ (batch = {} => Cardinality(batch) = 0)
      BY BatchSize
    <3>2. accepted' = accepted \cup batch /\ answers' = Append(answers, a)
      BY <2>6 DEF PoolBatch
    <3>3. batch # {} => batch = all
      OBVIOUS
    <3>4. n \in Nat /\ 1 .. n \subseteq PassedOn
      BY <1>5 DEF AccInv, AccSets, Known, Open, Sent, Shares, Reached
    <3> HIDE DEF batch
    <3>5. a \in Answer /\ a.share = n /\ a.count = Cardinality(batch)
      BY <3>1, <3>4 DEF Answer
    <3> HIDE DEF a
    <3>6. ASSUME IsBatch(a, "mining"), NEW m \in 1 .. a.share PROVE m \in S \cup OfKind(answers, "error")
      <4>1. batch = all
        BY <3>1, <3>3, <3>5, <3>6 DEF IsBatch
      <4>2. m \in PassedOn /\ m <= n
        BY <3>4, <3>5
      <4> QED
        BY <3>2, <4>1, <4>2 DEF PassedOn, Denied
    <3>7. Covered(Append(answers, a), "mining", S)
      BY <2>1, <2>2, <3>5, <3>6, CoveredAppend
    <3> QED
      BY <3>2, <3>7
  <2> QED
    BY <2>4, <2>5, <2>6 DEF PoolStep
<1>6. Reached'
  BY <1>0, <1>1, <1>3, <1>5 DEF Reached
<1> QED
  BY <1>2, <1>4, <1>6

LEMMA BatchRelayDown ==
    ASSUME AccInv, ReplyInv, ~jd, Lined, Reached, Covers, RelayDownStep
    PROVE  Lined' /\ Reached' /\ Covers'
<1> DEFINE a == Head(answers)
           S == accepted \cup refusals'
           P == accepted \cup (Shares \ pending)
<1>0. /\ jobOf' = jobOf /\ pending' = pending /\ up' = up /\ down = "relaying"
      /\ jdQ' = jdQ /\ seeking' = seeking /\ jdReplies' = jdReplies
      /\ receiver' = receiver /\ holding' = holding /\ atPool' = atPool /\ accepted' = accepted
  BY DEF RelayDownStep, PathRelayDown, OnShareOk, SendSuccess, OnError, OnMining, OnUnexpected,
         SendDownFails, Relaying, Reply, upVars, poolVars, submitVars, jdVars, replyVars
<1>1. Shares' = Shares /\ Outside' = Outside /\ Queued' = Queued /\ Held' = Held
  BY <1>0 DEF Shares, Outside, Queued, Held
<1>2. Lined'
  BY <1>0, <1>1 DEF Lined
<1>3. refusals \subseteq refusals'
  BY AccRelayDown DEF Matched, Passed
<1>4. answers \in Seq(Answer) /\ replies \in Seq(Msg)
      /\ Covered(answers, "mining", accepted \cup refusals) /\ Covered(replies, "ok", P)
  BY <1>0 DEF AccInv, AccTypes, ReplyInv, Reached, Covers
<1>5. ASSUME answers # <<>>, answers' = Tail(answers), a.kind = "error" => a.share \in refusals'
      PROVE  /\ Covered(answers', "mining", S)
             /\ IsBatch(a, "mining") => \A m \in 1 .. a.share : m \in accepted \cup refusals
  <2>1. accepted \cup refusals \subseteq S
    BY <1>3
  <2> HIDE DEF S
  <2>2. a.kind = "error" => a.share \in S
    BY <1>5 DEF S
  <2>3. /\ Covered(Tail(answers), "mining", S)
        /\ IsBatch(a, "mining") => \A m \in 1 .. a.share : m \in accepted \cup refusals
    BY <1>4, <1>5, <2>1, <2>2, CoveredTail
  <2> QED
    BY <1>5, <2>3
<1>6. ASSUME down' = "relaying", Covered(answers', "mining", S) PROVE Reached'
  <2>1. PassedOn \subseteq PassedOn'
    BY <1>0, <1>6, AccRelayDown DEF Matched, Passed, PassedOn
  <2> QED
    BY <1>0, <1>1, <1>6, <2>1 DEF Reached
<1>7. ASSUME down' # "relaying" PROVE Reached'
  BY <1>7 DEF Reached
<1>8. ASSUME replies' = replies, refusals' = refusals PROVE Covers'
  BY <1>0, <1>1, <1>8 DEF Covers
<1>9. CASE (OnShareOk \/ OnUnexpected \/ SendDownFails) /\ UNCHANGED replyVars
  <2>1. replies' = replies /\ refusals' = refusals
    BY <1>9 DEF OnShareOk, OnUnexpected, SendDownFails, replyVars
  <2>2. down' = "relaying" => answers # <<>> /\ answers' = Tail(answers) /\ a.kind = "ok"
    BY <1>9 DEF OnShareOk, OnUnexpected, SendDownFails, Relaying
  <2> QED
    BY <1>2, <1>5, <1>6, <1>7, <1>8, <2>1, <2>2
<1>10. CASE SendSuccess /\ Reply([kind |-> "ok", share |-> acking, count |-> 1])
  <2> DEFINE r == [kind |-> "ok", share |-> acking, count |-> 1]
  <2>1. /\ replies' = Append(replies, r) /\ answers' = answers /\ refusals' = refusals
        /\ acking \in Nat
    BY <1>10 DEF SendSuccess, Reply, AccInv, AccTypes
  <2>2. r \in Msg /\ r.count = 1 /\ r.kind = "ok"
    BY <2>1 DEF Msg
  <2> HIDE DEF r
  <2>3. ~IsBatch(r, "ok")
    BY <2>2 DEF IsBatch
  <2>4. /\ Covered(Append(replies, r), "ok", P)
        /\ OfKind(Append(replies, r), "error") = OfKind(replies, "error")
    <3>1. Covered(Append(replies, r), "ok", P)
      BY <1>4, <2>2, <2>3, CoveredAppend
    <3>2. replies \in Seq(Msg) /\ r \in Msg
      BY <1>4, <2>2
    <3>3. OfKind(Append(replies, r), "error")
              = OfKind(replies, "error") \cup (IF r.kind = "error" THEN {r.share} ELSE {})
      BY <3>2, KindAppend
    <3> QED
      BY <2>2, <3>1, <3>3
  <2>5. Covers'
    BY <1>0, <1>1, <2>1, <2>4 DEF Covers
  <2>6. Covered(answers', "mining", S)
    BY <1>4, <2>1
  <2> QED
    BY <1>2, <1>6, <1>7, <2>5, <2>6
<1>11. CASE OnError /\ Reply([kind |-> "error", share |-> a.share])
  <2> DEFINE r == [kind |-> "error", share |-> a.share]
  <2>1. /\ answers # <<>> /\ answers' = Tail(answers) /\ a.kind = "error"
        /\ refusals' = refusals \cup {a.share} /\ replies' = Append(replies, r)
    BY <1>11 DEF OnError, Relaying, Reply
  <2>2. a.share \in Nat
    BY <2>1, AnswerTaken DEF AccInv, AccSets, Known, Open, Sent, Shares
  <2>3. r \in Msg /\ r.kind = "error" /\ r.share = a.share
    BY <2>2 DEF Msg
  <2> HIDE DEF r
  <2>4. /\ Covered(Append(replies, r), "ok", P)
        /\ OfKind(Append(replies, r), "error") = OfKind(replies, "error") \cup {a.share}
    BY <1>4, <2>3, CoveredAppend, KindAppend DEF IsBatch
  <2>5. Covers'
    BY <1>0, <1>1, <2>1, <2>4 DEF Covers
  <2>6. Covered(answers', "mining", S)
    BY <1>5, <2>1
  <2> QED
    BY <1>2, <1>6, <1>7, <2>5, <2>6
<1>12. CASE OnMining /\ Reply([kind |-> "ok", share |-> a.share, count |-> a.count])
  <2> DEFINE r == [kind |-> "ok", share |-> a.share, count |-> a.count]
  <2>1. /\ answers # <<>> /\ answers' = Tail(answers) /\ a.kind = "mining"
        /\ refusals' = refusals /\ replies' = Append(replies, r)
    BY <1>12 DEF OnMining, Relaying, Reply, downVars
  <2>2. a \in Range(answers)
    BY <1>4, <2>1, QueueTail
  <2>3. a.share \in Nat /\ a.count \in Nat /\ a.share \in Shares
    BY <2>1, <2>2 DEF ReplyInv, RightAnswers, Answer
  <2>4. r \in Msg /\ r.kind = "ok" /\ r.share = a.share /\ r.count = a.count
    BY <2>3 DEF Msg
  <2> HIDE DEF r
  <2>5. ASSUME IsBatch(r, "ok"), NEW m \in 1 .. r.share PROVE m \in P \cup OfKind(replies, "error")
    <3>1. m \in accepted \cup refusals
      BY <1>5, <2>1, <2>4, <2>5 DEF IsBatch
    <3>2. m \in Shares
      BY <2>3, <2>4 DEF Shares, AccInv, AccTypes
    <3> QED
      BY <3>1, <3>2 DEF Covers
  <2>6. /\ Covered(Append(replies, r), "ok", P)
        /\ OfKind(Append(replies, r), "error") = OfKind(replies, "error")
    <3>1. Covered(Append(replies, r), "ok", P)
      BY <1>4, <2>4, <2>5, CoveredAppend
    <3>2. replies \in Seq(Msg) /\ r \in Msg
      BY <1>4, <2>4
    <3>3. OfKind(Append(replies, r), "error")
              = OfKind(replies, "error") \cup (IF r.kind = "error" THEN {r.share} ELSE {})
      BY <3>2, KindAppend
    <3> QED
      BY <2>4, <3>1, <3>3
  <2>7. Covers'
    BY <1>0, <1>1, <2>1, <2>6 DEF Covers
  <2>8. Covered(answers', "mining", S)
    BY <1>5, <2>1
  <2> QED
    BY <1>2, <1>6, <1>7, <2>7, <2>8
<1> QED
  BY <1>9, <1>10, <1>11, <1>12 DEF RelayDownStep, PathRelayDown

-----------------------------------------------------------------------------
(* What the miners are told *)

Verdicts == {"waiting", "ok", "refused", "local"}

\* Every ticket is in one place, and waits until it has a number.
SettleTypes ==
    /\ result \in Seq(Verdicts) /\ Len(result) = Len(ticketJob)
    /\ ticketOf \in Seq(Nat) /\ Len(ticketOf) = Len(jobOf) /\ IsInjective(ticketOf)
    /\ Range(ticketOf) \subseteq Tickets /\ pending \subseteq Shares
    /\ IsInjective(bridgeQ) /\ IsInjective(submitQ)
    /\ Range(bridgeQ) \cap Range(submitQ) = {}
    /\ Range(ticketOf) \cap (Range(bridgeQ) \cup Range(submitQ)) = {}
    /\ ~over => \A t \in Range(bridgeQ) \cup Range(submitQ) : result[t] = "waiting"

OkShares == {n \in Shares : result[ticketOf[n]] = "ok"}
RefusedShares == {n \in Shares : result[ticketOf[n]] = "refused"}
Excused == {n \in Shares : jd /\ batched}

Settled ==
    /\ OkShares \subseteq Fine \cup Excused
    /\ ~over => RefusedShares \subseteq Gone

LEMMA ToldIs ==
    ASSUME result \in Seq(Verdicts), NEW T, NEW v \in Verdicts
    PROVE  /\ Told(T, v) \in Seq(Verdicts) /\ Len(Told(T, v)) = Len(result)
           /\ \A t \in 1 .. Len(result) :
                 /\ Told(T, v)[t] = result[t] \/ (t \in T /\ Told(T, v)[t] = v)
<1> DEFINE r == Told(T, v)
<1>1. DOMAIN result = 1 .. Len(result) /\ Len(result) \in Nat
      /\ \A t \in 1 .. Len(result) : result[t] \in Verdicts
  OBVIOUS
<1>2. r = [t \in 1 .. Len(result) |-> IF t \in T /\ result[t] = "waiting" THEN v ELSE result[t]]
  BY <1>1 DEF Told
<1> HIDE DEF r
<1>3. r \in [1 .. Len(result) -> Verdicts]
  BY <1>1, <1>2
<1>4. r \in Seq(Verdicts) /\ DOMAIN r = 1 .. Len(result)
  BY <1>1, <1>3, SeqDef
<1>5. Len(r) = Len(result)
  BY <1>1, <1>4
<1>6. \A t \in 1 .. Len(result) : r[t] = result[t] \/ (t \in T /\ r[t] = v)
  BY <1>2
<1> QED
  BY <1>4, <1>5, <1>6 DEF r

\* The verdicts on numbered shares stay what they are.
LEMMA SettledKept ==
    ASSUME Settled, Grow, Excused \subseteq Excused', ~over, Shares' = Shares,
           \A n \in Shares : result'[ticketOf'[n]] = result[ticketOf[n]]
    PROVE  Settled'
<1>1. OkShares' = OkShares /\ RefusedShares' = RefusedShares
  BY DEF OkShares, RefusedShares
<1> QED
  BY <1>1 DEF Settled, Grow

LEMMA TicketOfShare ==
    ASSUME AccTypes, SettleTypes, NEW n \in Shares
    PROVE  /\ ticketOf[n] \in Range(ticketOf) /\ ticketOf[n] \in 1 .. Len(result)
           /\ \A m \in Shares : ticketOf[m] = ticketOf[n] => m = n
<1>1. DOMAIN ticketOf = Shares
  BY DEF SettleTypes, Shares, AccTypes
<1>2. ticketOf[n] \in Range(ticketOf)
  BY <1>1 DEF Range
<1>3. \A m \in Shares : ticketOf[m] = ticketOf[n] => m = n
  BY <1>1 DEF SettleTypes, IsInjective
<1> QED
  BY <1>2, <1>3 DEF SettleTypes, Tickets

LEMMA SettleMiner ==
    ASSUME TicketTypes, AccTypes, SettleTypes, Settled, Grow, Excused \subseteq Excused', ~over, MinerStep
    PROVE  SettleTypes' /\ Settled'
<1>0. /\ jobOf' = jobOf /\ ticketOf' = ticketOf /\ submitQ' = submitQ /\ pending' = pending /\ over' = over
  BY DEF MinerStep, accounterVars, upVars, submitVars, modeVars
<1>1. PICK job \in Jobs : ForwardSubmitShare(job)
  BY DEF MinerStep
<1> DEFINE t == Len(ticketJob) + 1
<1>2. /\ ticketJob' = Append(ticketJob, job)
      /\ \/ bridgeQ' = Append(bridgeQ, t) /\ result' = Append(result, "waiting")
         \/ bridgeQ' = bridgeQ /\ result' = Append(result, "refused")
  BY <1>1 DEF ForwardSubmitShare
<1>3. /\ ticketJob \in Seq(Jobs) /\ bridgeQ \in Seq(Nat) /\ result \in Seq(Verdicts)
      /\ Len(result) = Len(ticketJob) /\ t \in Nat /\ t \notin Tickets
      /\ Range(bridgeQ) \cup Range(submitQ) \cup Range(ticketOf) \subseteq Tickets
  BY DEF TicketTypes, SettleTypes, Tickets
<1>4. /\ ticketJob' \in Seq(Jobs) /\ Len(ticketJob') = t /\ Tickets' = Tickets \cup {t}
  BY <1>2, <1>3 DEF Tickets
<1>5. /\ result' \in Seq(Verdicts) /\ Len(result') = t
      /\ \A u \in Tickets : result'[u] = result[u]
      /\ bridgeQ' = Append(bridgeQ, t) => result'[t] = "waiting"
  <2>1. ASSUME NEW v \in Verdicts
        PROVE  /\ Append(result, v) \in Seq(Verdicts) /\ Len(Append(result, v)) = t
               /\ Append(result, v)[t] = v
               /\ \A u \in Tickets : Append(result, v)[u] = result[u]
    BY <1>3 DEF Tickets
  <2>2. bridgeQ # Append(bridgeQ, t)
    <3>1. Len(Append(bridgeQ, t)) = Len(bridgeQ) + 1 /\ Len(bridgeQ) \in Nat
      BY <1>3
    <3> QED
      BY <3>1
  <2> QED
    BY <1>2, <2>1, <2>2 DEF Verdicts
<1> HIDE DEF t
<1>6. /\ Range(Append(bridgeQ, t)) = Range(bridgeQ) \cup {t}
      /\ IsInjective(bridgeQ) => IsInjective(Append(bridgeQ, t))
  BY <1>3, QueueAppend
<1>7. Shares' = Shares
  BY <1>0 DEF Shares
<1>8. SettleTypes'
  <2>1. CASE bridgeQ' = Append(bridgeQ, t)
    BY <1>0, <1>3, <1>4, <1>5, <1>6, <1>7, <2>1 DEF SettleTypes
  <2>2. CASE bridgeQ' = bridgeQ
    BY <1>0, <1>3, <1>4, <1>5, <1>7, <2>2 DEF SettleTypes
  <2> QED
    BY <1>2, <2>1, <2>2
<1>9. \A n \in Shares : result'[ticketOf'[n]] = result[ticketOf[n]]
  BY <1>0, <1>3, <1>5, TicketOfShare
<1> QED
  BY <1>7, <1>8, <1>9, SettledKept

LEMMA SettleBridge ==
    ASSUME TicketTypes, AccTypes, SettleTypes, Settled, Grow, Excused \subseteq Excused', ~over, BridgeStep
    PROVE  SettleTypes' /\ Settled'
<1>0. /\ jobOf' = jobOf /\ over' = over
  BY DEF BridgeStep, accounterVars, upVars, modeVars
<1>1. PICK t \in Tickets :
        /\ BridgeReceives(t) /\ ticketOf' = ticketOf /\ pending' = pending
        /\ \/ /\ bridgeQ' = Tail(bridgeQ) /\ submitQ' = submitQ
              /\ \E v \in {"refused", "local"} : result' = Told({t}, v)
           \/ bridgeQ' = <<>> /\ submitQ' = submitQ /\ result' = Told(Range(bridgeQ), "refused")
           \/ bridgeQ' = Tail(bridgeQ) /\ submitQ' = Append(submitQ, t) /\ result' = result
  BY DEF BridgeStep, Bridge, BridgeUnknownJob, BridgeUntranslatable, BridgeCheckFails,
         BridgeSubmits, BridgeRateLimits, BridgeAnswers, BridgeSettles, BridgeFails, submitVars
<1>2. /\ bridgeQ # <<>> /\ t = Head(bridgeQ) /\ ticketJob' = ticketJob
  BY <1>1 DEF BridgeReceives
<1>3. /\ bridgeQ \in Seq(Nat) /\ submitQ \in Seq(Nat) /\ result \in Seq(Verdicts)
      /\ Len(result) = Len(ticketJob) /\ Tickets = 1 .. Len(result)
      /\ Range(bridgeQ) \cup Range(submitQ) \cup Range(ticketOf) \subseteq Tickets
      /\ IsInjective(bridgeQ) /\ IsInjective(submitQ)
      /\ Range(bridgeQ) \cap Range(submitQ) = {}
      /\ Range(ticketOf) \cap (Range(bridgeQ) \cup Range(submitQ)) = {}
      /\ \A u \in Range(bridgeQ) \cup Range(submitQ) : result[u] = "waiting"
  BY DEF TicketTypes, SettleTypes, Tickets
<1>4. /\ t \in Nat /\ Range(bridgeQ) = Range(Tail(bridgeQ)) \cup {t}
      /\ IsInjective(Tail(bridgeQ)) /\ t \notin Range(Tail(bridgeQ))
  BY <1>2, <1>3, QueueTail
<1>5. Range(Append(submitQ, t)) = Range(submitQ) \cup {t} /\ IsInjective(Append(submitQ, t))
  BY <1>3, <1>4, QueueAppend
<1>6. Range(<<>>) = {} /\ IsInjective(<<>>)
  BY DEF Range, IsInjective
<1>7. Tickets' = Tickets /\ Shares' = Shares
  BY <1>0, <1>2 DEF Tickets, Shares
<1>8. /\ result' \in Seq(Verdicts) /\ Len(result') = Len(result)
      /\ \A u \in Tickets : u \notin Range(bridgeQ) => result'[u] = result[u]
      /\ bridgeQ' = Tail(bridgeQ) => \A u \in Tickets : u # t => result'[u] = result[u]
      /\ submitQ' = Append(submitQ, t) => result' = result
  <2>0. submitQ # Append(submitQ, t)
    <3>1. Len(Append(submitQ, t)) = Len(submitQ) + 1 /\ Len(submitQ) \in Nat
      BY <1>3, <1>4
    <3> QED
      BY <3>1
  <2>1. CASE \E v \in {"refused", "local"} : submitQ' = submitQ /\ result' = Told({t}, v)
    <3>1. PICK v \in {"refused", "local"} : submitQ' = submitQ /\ result' = Told({t}, v)
      BY <2>1
    <3>2. v \in Verdicts
      BY DEF Verdicts
    <3>3. /\ result' \in Seq(Verdicts) /\ Len(result') = Len(result)
          /\ \A u \in Tickets : result'[u] = result[u] \/ u \in {t}
      BY <1>3, <3>1, <3>2, ToldIs
    <3> QED
      BY <1>4, <2>0, <3>1, <3>3
  <2>2. CASE bridgeQ' = <<>> /\ submitQ' = submitQ /\ result' = Told(Range(bridgeQ), "refused")
    <3>1. bridgeQ' = Tail(bridgeQ) => Range(bridgeQ) = {t}
      BY <1>4, <1>6, <2>2
    <3> QED
      BY <1>3, <2>0, <2>2, <3>1, ToldIs DEF Verdicts
  <2>3. CASE result' = result
    BY <1>3, <2>3
  <2> QED
    BY <1>1, <2>1, <2>2, <2>3
<1>9. \A n \in Shares : result'[ticketOf'[n]] = result[ticketOf[n]]
  <2>1. \A n \in Shares : ticketOf[n] \in Range(ticketOf)
    BY TicketOfShare
  <2> QED
    BY <1>1, <1>3, <1>8, <2>1
<1>10. SettleTypes'
  <2>1. /\ result' \in Seq(Verdicts) /\ Len(result') = Len(ticketJob')
        /\ ticketOf' \in Seq(Nat) /\ Len(ticketOf') = Len(jobOf') /\ IsInjective(ticketOf')
        /\ Range(ticketOf') \subseteq Tickets' /\ pending' \subseteq Shares'
    BY <1>0, <1>1, <1>2, <1>3, <1>7, <1>8 DEF SettleTypes
  <2>2. /\ IsInjective(bridgeQ') /\ IsInjective(submitQ')
        /\ Range(bridgeQ') \cap Range(submitQ') = {}
        /\ Range(ticketOf') \cap (Range(bridgeQ') \cup Range(submitQ')) = {}
        /\ \A u \in Range(bridgeQ') \cup Range(submitQ') : result'[u] = "waiting"
    <3>1. CASE bridgeQ' = Tail(bridgeQ) /\ submitQ' = submitQ
      BY <1>1, <1>3, <1>4, <1>8, <3>1
    <3>2. CASE bridgeQ' = <<>> /\ submitQ' = submitQ
      BY <1>1, <1>3, <1>6, <1>8, <3>2
    <3>3. CASE bridgeQ' = Tail(bridgeQ) /\ submitQ' = Append(submitQ, t)
      BY <1>1, <1>3, <1>4, <1>5, <1>8, <3>3
    <3> QED
      BY <1>1, <3>1, <3>2, <3>3
  <2> QED
    BY <2>1, <2>2 DEF SettleTypes
<1> QED
  BY <1>7, <1>9, <1>10, SettledKept

\* The number is given to a ticket that waits; when relay_up has ended, the share is
\* settled as refused and goes nowhere.
LEMMA SettleSubmit ==
    ASSUME TicketTypes, AccInv, AccInv', SettleTypes, Settled, Grow, Excused \subseteq Excused', ~over,
           SubmitStep
    PROVE  SettleTypes' /\ Settled'
<1> DEFINE t == Head(submitQ)
           n == Len(jobOf) + 1
<1>1. /\ submitQ # <<>> /\ Len(jobOf') = n /\ ticketOf' = Append(ticketOf, t) /\ over' = over
      /\ ticketJob' = ticketJob /\ bridgeQ' = bridgeQ
      /\ \/ pending' = pending \cup {n} /\ submitQ' = Tail(submitQ) /\ result' = result
         \/ /\ pending' = pending /\ submitQ' = <<>> /\ result' = Told(Range(submitQ), "refused")
            /\ receiver' = receiver /\ jdQ' = jdQ
  <2>1. jobOf' \in Seq(Jobs) /\ jobOf \in Seq(Jobs) /\ jobOf' = Append(jobOf, JobOfTicket(t))
    BY DEF AccInv, AccTypes, SubmitStep, HandleSubmit
  <2>2. Len(jobOf') = n
    BY <2>1
  <2> QED
    BY <2>2 DEF SubmitStep, HandleSubmit, modeVars
<1>2. /\ bridgeQ \in Seq(Nat) /\ submitQ \in Seq(Nat) /\ ticketOf \in Seq(Nat)
      /\ result \in Seq(Verdicts)
      /\ Len(result) = Len(ticketJob) /\ Tickets = 1 .. Len(result)
      /\ Range(bridgeQ) \cup Range(submitQ) \cup Range(ticketOf) \subseteq Tickets
      /\ IsInjective(bridgeQ) /\ IsInjective(submitQ) /\ IsInjective(ticketOf)
      /\ Range(bridgeQ) \cap Range(submitQ) = {}
      /\ Range(ticketOf) \cap (Range(bridgeQ) \cup Range(submitQ)) = {}
      /\ \A u \in Range(bridgeQ) \cup Range(submitQ) : result[u] = "waiting"
  BY DEF TicketTypes, SettleTypes, Tickets
<1>3. /\ Len(ticketOf) = Len(jobOf) /\ Len(jobOf) \in Nat /\ pending \subseteq Shares
  BY DEF SettleTypes, AccInv, AccTypes
<1>4. /\ Shares' = Shares \cup {n} /\ n \notin Shares /\ Shares = DOMAIN ticketOf
  BY <1>1, <1>2, <1>3 DEF Shares
<1>5. /\ t \in Nat /\ Range(submitQ) = Range(Tail(submitQ)) \cup {t}
      /\ IsInjective(Tail(submitQ)) /\ t \notin Range(Tail(submitQ))
  BY <1>1, <1>2, QueueTail
<1>6. /\ ticketOf' \in Seq(Nat) /\ Len(ticketOf') = n /\ ticketOf'[n] = t
      /\ \A m \in Shares : ticketOf'[m] = ticketOf[m] /\ ticketOf[m] \in Range(ticketOf)
  <2>1. \A m \in Shares : ticketOf[m] \in Range(ticketOf)
    BY <1>4 DEF Range
  <2>2. Len(Append(ticketOf, t)) = n
    BY <1>2, <1>3, <1>5
  <2> QED
    BY <1>1, <1>2, <1>3, <1>4, <1>5, <2>1, <2>2, AppendAt
<1>7. Range(Append(ticketOf, t)) = Range(ticketOf) \cup {t} /\ IsInjective(Append(ticketOf, t))
  BY <1>2, <1>5, QueueAppend
<1>8. Range(<<>>) = {} /\ IsInjective(<<>>)
  BY DEF Range, IsInjective
<1>9. Tickets' = Tickets
  BY <1>1 DEF Tickets
<1> HIDE DEF t, n
<1>10. /\ result' \in Seq(Verdicts) /\ Len(result') = Len(result)
       /\ \A u \in Tickets : u \notin Range(submitQ) => result'[u] = result[u]
       /\ \A u \in Tickets : u \in Range(submitQ) => result'[u] # "ok"
  <2>1. CASE result' = result
    BY <1>2, <2>1
  <2>2. CASE result' = Told(Range(submitQ), "refused")
    <3>1. "refused" \in Verdicts
      BY DEF Verdicts
    <3>2. /\ result' \in Seq(Verdicts) /\ Len(result') = Len(result)
          /\ \A u \in Tickets :
                result'[u] = result[u] \/ (u \in Range(submitQ) /\ result'[u] = "refused")
      BY <1>2, <2>2, <3>1, ToldIs
    <3> QED
      BY <1>2, <3>2
  <2> QED
    BY <1>1, <2>1, <2>2
<1>11. SettleTypes'
  <2>1. /\ result' \in Seq(Verdicts) /\ Len(result') = Len(ticketJob')
        /\ ticketOf' \in Seq(Nat) /\ Len(ticketOf') = Len(jobOf') /\ IsInjective(ticketOf')
        /\ Range(ticketOf') \subseteq Tickets' /\ pending' \subseteq Shares'
    BY <1>1, <1>2, <1>3, <1>4, <1>5, <1>6, <1>7, <1>9, <1>10
  <2>2. /\ IsInjective(bridgeQ') /\ IsInjective(submitQ')
        /\ Range(bridgeQ') \cap Range(submitQ') = {}
        /\ Range(ticketOf') \cap (Range(bridgeQ') \cup Range(submitQ')) = {}
        /\ \A u \in Range(bridgeQ') \cup Range(submitQ') : result'[u] = "waiting"
    <3>1. CASE submitQ' = Tail(submitQ) /\ result' = result
      BY <1>1, <1>2, <1>5, <1>7, <3>1
    <3>2. CASE submitQ' = <<>>
      BY <1>1, <1>2, <1>5, <1>7, <1>8, <1>10, <3>2
    <3> QED
      BY <1>1, <3>1, <3>2
  <2> QED
    BY <2>1, <2>2 DEF SettleTypes
<1>12. \A m \in Shares : result'[ticketOf'[m]] = result[ticketOf[m]]
  BY <1>2, <1>6, <1>10
<1>13. OkShares' = OkShares
  BY <1>2, <1>4, <1>5, <1>6, <1>10, <1>12 DEF OkShares
<1>14. RefusedShares' \subseteq Gone'
  <2>1. ASSUME NEW m \in RefusedShares', m \in Shares PROVE m \in Gone'
    BY <1>12, <2>1 DEF RefusedShares, Settled, Grow
  <2>2. ASSUME n \in RefusedShares' PROVE n \in Gone'
    <3>1. result'[t] = "refused" /\ t \in Range(submitQ) /\ result[t] = "waiting"
      BY <1>2, <1>5, <1>6, <2>2 DEF RefusedShares
    <3>2. receiver' = receiver /\ jdQ' = jdQ
      BY <1>1, <3>1
    <3>3. UNCHANGED <<holding, atPool, accepted, seeking>>
      BY DEF SubmitStep, HandleSubmit, poolVars
    <3>4. /\ Outside' = Outside /\ Queued' = Queued /\ Held' = Held
      BY <3>2, <3>3 DEF Outside, Queued, Held
    <3>5. n \notin accepted \cup Outside \cup Queued \cup Held \cup atPool
      BY <1>4 DEF AccInv, AccSets, Known, Open, Sent
    <3> QED
      BY <1>4, <3>3, <3>4, <3>5 DEF Gone
  <2> QED
    BY <1>4, <2>1, <2>2 DEF RefusedShares
<1>15. Settled'
  BY <1>13, <1>14 DEF Settled, Grow
<1> QED
  BY <1>11, <1>15

\* resolve_submit_success: one share, none, or shares up to the one that is named.
LEMMA AcknowledgedIs ==
    ASSUME AccTypes, pending \subseteq Shares, NEW last \in Nat, NEW count \in Nat
    PROVE  /\ Acknowledged(last, count) \subseteq pending
           /\ \A n \in Acknowledged(last, count) : n <= last
           /\ count = 1 => Acknowledged(last, count) \subseteq {last}
           /\ count = 0 => Acknowledged(last, count) = {}
<1> DEFINE upTo == {n \in pending : n <= last}
           above(n) == {m \in upTo : m > n}
<1>1. Len(jobOf) \in Nat /\ \A n \in Shares : n \in Nat
  BY DEF AccTypes, Shares
<1>2. IsFiniteSet(Shares)
  BY <1>1, FS_Interval DEF Shares
<1>3. ASSUME NEW n PROVE Cardinality(above(n)) \in Nat
  <2>1. IsFiniteSet(above(n))
    BY <1>2, FS_Subset
  <2> QED
    BY <2>1, FS_CardinalityType
<1>4. CASE count = 1
  <2>1. Acknowledged(last, count) = pending \cap {last}
    BY <1>4 DEF Acknowledged
  <2> QED
    BY <1>4, <2>1
<1>5. CASE count # 1
  <2>1. Acknowledged(last, count) = {n \in upTo : Cardinality(above(n)) < count}
    BY <1>5 DEF Acknowledged
  <2>2. ASSUME count = 0, NEW n \in Acknowledged(last, count) PROVE FALSE
    <3>1. Cardinality(above(n)) < 0
      BY <2>1, <2>2
    <3>2. Cardinality(above(n)) \in Nat
      BY <1>3
    <3> HIDE DEF above
    <3> QED
      BY <3>1, <3>2
  <2>3. Acknowledged(last, count) \subseteq upTo
    BY <2>1
  <2> QED
    BY <1>5, <2>2, <2>3
<1> QED
  BY <1>4, <1>5

LEMMA SettleReply ==
    ASSUME TicketTypes, AccInv, ReplyInv, BatchInv, SettleTypes, Settled, Grow, Excused \subseteq Excused', ~over,
           ReplyStep
    PROVE  SettleTypes' /\ Settled' /\ BatchInv'
<1> DEFINE r == Head(replies)
           resolved == IF r.kind = "ok" THEN Acknowledged(r.share, r.count) ELSE pending \cap {r.share}
           v == IF r.kind = "ok" THEN "ok" ELSE "refused"
           T == {ticketOf[n] : n \in resolved}
<1>0. /\ UNCHANGED <<accounterVars, jdQ, seeking, jdReplies, jd>>
      /\ ticketJob' = ticketJob /\ ticketOf' = ticketOf /\ bridgeQ' = bridgeQ /\ submitQ' = submitQ
      /\ over' = over
  BY DEF ReplyStep, HandleReply, jdVars, modeVars
<1>1. /\ replies # <<>> /\ replies' = Tail(replies) /\ pending' = pending \ resolved
      /\ result' = Told(T, v)
  BY DEF ReplyStep, HandleReply
<1>2. replies \in Seq(Msg) /\ r \in RightMsgs
  <2>1. replies \in Seq(Msg) /\ r \in Range(replies)
    BY <1>1, QueueTail DEF ReplyInv
  <2> QED
    BY <2>1 DEF ReplyInv
<1>3. /\ r.kind \in {"ok", "error"} /\ r.share \in Nat /\ r.share \in Shares
      /\ r.kind = "ok" => /\ r.count \in Nat /\ (r.count = 1 => r.share \in Fine)
                          /\ r.count > 1 => batched
      /\ r.kind = "error" => r.share \in Gone
  BY <1>2 DEF RightMsgs, Msg, Gone
<1>4. pending \subseteq Shares /\ AccTypes
  BY DEF SettleTypes, AccInv
<1>5. /\ resolved \subseteq pending
      /\ r.kind = "ok" =>
            /\ \A n \in resolved : n <= r.share
            /\ r.count = 1 => resolved \subseteq {r.share}
            /\ r.count = 0 => resolved = {}
      /\ r.kind = "error" => resolved = pending \cap {r.share}
  BY <1>3, <1>4, AcknowledgedIs
<1> HIDE DEF r, resolved
<1>6. r.kind = "ok" => resolved \subseteq Fine \cup Excused
  <2>1. CASE r.kind = "ok" /\ r.count \in {0, 1}
    BY <1>3, <1>5, <2>1
  <2>2. CASE r.kind = "ok" /\ r.count > 1 /\ jd
    BY <1>3, <1>4, <1>5, <2>2 DEF Excused
  <2>3. CASE r.kind = "ok" /\ r.count > 1 /\ ~jd
    <3> DEFINE S == accepted \cup (Shares \ pending)
    <3>1. Covered(replies, "ok", S)
      BY <2>3 DEF BatchInv, Covers
    <3> HIDE DEF S
    <3>2. IsBatch(r, "ok") => \A m \in 1 .. r.share : m \in S
      <4>1. r.kind = "error" => r.share \in S
        BY <2>3
      <4> QED
        BY <1>1, <1>2, <3>1, <4>1, CoveredTail DEF r
    <3>3. ASSUME NEW n \in resolved PROVE n \in Fine
      <4>1. n \in pending /\ n \in Shares /\ n \in 1 .. r.share
        BY <1>3, <1>4, <1>5, <2>3 DEF Shares
      <4>2. n \in S
        BY <2>3, <3>2, <4>1 DEF IsBatch
      <4> QED
        BY <4>1, <4>2 DEF S, Fine
    <3> QED
      BY <3>3
  <2> QED
    BY <1>3, <2>1, <2>2, <2>3
<1>7. /\ result' \in Seq(Verdicts) /\ Len(result') = Len(result)
      /\ \A u \in 1 .. Len(result) : result'[u] = result[u] \/ (u \in T /\ result'[u] = v)
  <2>1. v \in Verdicts /\ result \in Seq(Verdicts)
    BY DEF Verdicts, SettleTypes
  <2> HIDE DEF v, T
  <2> QED
    BY <1>1, <2>1, ToldIs
<1>8. Shares' = Shares /\ Tickets' = Tickets
  BY <1>0 DEF Shares, Tickets, accounterVars, upVars
<1>9. \A n \in resolved : n \in Shares /\ ticketOf[n] \in Range(ticketOf)
  BY <1>4, <1>5, TicketOfShare
<1>10. SettleTypes'
  <2>1. \A u \in Range(bridgeQ) \cup Range(submitQ) : u \in 1 .. Len(result) => result'[u] = result[u]
    BY <1>7, <1>9 DEF SettleTypes
  <2>2. ASSUME NEW u \in Range(bridgeQ) \cup Range(submitQ), result[u] = "waiting"
        PROVE  result'[u] = "waiting"
    <3>1. CASE u \in 1 .. Len(result)
      BY <2>1, <2>2, <3>1
    <3>2. CASE u \notin 1 .. Len(result)
      <4>1. FALSE
        BY <3>2 DEF Tickets, SettleTypes, TicketTypes
      <4> QED
        BY <4>1
    <3> QED
      BY <3>1, <3>2
  <2> QED
    BY <1>0, <1>1, <1>4, <1>5, <1>7, <1>8, <2>2 DEF SettleTypes, accounterVars, upVars
<1>11. ASSUME NEW m \in Shares
       PROVE  result'[ticketOf[m]] = result[ticketOf[m]] \/ (m \in resolved /\ result'[ticketOf[m]] = v)
  <2>1. /\ ticketOf[m] \in 1 .. Len(result)
        /\ \A n \in Shares : ticketOf[n] = ticketOf[m] => n = m
    BY <1>4, TicketOfShare
  <2>2. ticketOf[m] \in T => m \in resolved
    BY <1>9, <2>1
  <2> HIDE DEF T
  <2> QED
    BY <1>7, <2>1, <2>2
<1>12. OkShares' \subseteq OkShares \cup (IF r.kind = "ok" THEN resolved ELSE {})
  BY <1>0, <1>8, <1>11 DEF OkShares
<1>13. RefusedShares' \subseteq RefusedShares \cup (IF r.kind = "ok" THEN {} ELSE resolved)
  BY <1>0, <1>8, <1>11 DEF RefusedShares
<1>14. Settled'
  <2>1. OkShares' \subseteq Fine \cup Excused
    BY <1>6, <1>12 DEF Settled
  <2>2. RefusedShares' \subseteq Gone
    BY <1>3, <1>5, <1>13 DEF Settled
  <2> QED
    BY <2>1, <2>2 DEF Settled, Grow
<1>15. ASSUME ~jd PROVE Lined' /\ Reached' /\ Covers'
  <2>0. Lined /\ Reached /\ Covers
    BY <1>15 DEF BatchInv
  <2>1. /\ Outside' = Outside /\ Queued' = Queued /\ Held' = Held /\ Denied' = Denied
    BY <1>0 DEF Outside, Queued, Held, Denied, accounterVars, upVars
  <2>2. Lined'
    BY <1>0, <2>0, <2>1 DEF Lined, accounterVars, upVars
  <2>3. Reached'
    BY <1>0, <1>8, <2>0, <2>1 DEF Reached, PassedOn, accounterVars, upVars, poolVars, downVars
  <2>4. accepted' = accepted /\ refusals' = refusals
    BY <1>0 DEF accounterVars, poolVars, downVars
  <2> DEFINE S == accepted \cup (Shares \ pending)
             U == accepted \cup (Shares \ pending')
  <2>5. S \subseteq U /\ Covered(replies, "ok", S)
    BY <1>1, <2>0 DEF Covers
  <2>6. r.kind = "error" => r.share \in U
    BY <1>1, <1>3, <1>5
  <2> HIDE DEF S, U
  <2>7. Covered(Tail(replies), "ok", U)
    BY <1>1, <1>2, <2>5, <2>6, CoveredTail DEF r
  <2>8. OfKind(replies, "error")
            = OfKind(Tail(replies), "error") \cup (IF r.kind = "error" THEN {r.share} ELSE {})
    BY <1>1, <1>2, KindTail DEF r
  <2>9. refusals \cap pending' \subseteq OfKind(Tail(replies), "error")
    BY <1>1, <1>5, <2>0, <2>8 DEF Covers
  <2>10. Covers'
    BY <1>1, <1>8, <2>4, <2>7, <2>9 DEF Covers, U
  <2> QED
    BY <2>2, <2>3, <2>10
<1>16. BatchInv'
  BY <1>0, <1>15 DEF BatchInv
<1> QED
  BY <1>10, <1>14, <1>16

\* Steps that tell the miners nothing.
LEMMA SettleKept ==
    ASSUME AccTypes, SettleTypes, Settled, Grow, Excused \subseteq Excused', ~over,
           UNCHANGED <<jobOf, ticketJob, result, bridgeQ, submitQ, ticketOf, pending, over>>
    PROVE  SettleTypes' /\ Settled'
<1>1. Shares' = Shares /\ Tickets' = Tickets
  BY DEF Shares, Tickets
<1>2. SettleTypes'
  BY <1>1 DEF SettleTypes
<1> QED
  BY <1>1, <1>2, SettledKept

LEMMA SettleMonitor ==
    ASSUME TicketTypes, AccTypes, SettleTypes, Settled, Grow, Excused \subseteq Excused', MonitorStep
    PROVE  SettleTypes' /\ Settled'
<1>0. /\ jobOf' = jobOf /\ ticketJob' = ticketJob /\ bridgeQ' = bridgeQ /\ submitQ' = submitQ
      /\ ticketOf' = ticketOf /\ pending' = pending /\ over' = TRUE
      /\ result' = Told(DOMAIN result, "refused")
  BY DEF MonitorStep, EndSession, accounterVars, upVars, submitVars
<1>1. /\ result' \in Seq(Verdicts) /\ Len(result') = Len(result)
      /\ \A t \in 1 .. Len(result) : result'[t] = result[t] \/ result'[t] = "refused"
  <2>1. "refused" \in Verdicts /\ result \in Seq(Verdicts)
    BY DEF Verdicts, SettleTypes
  <2> QED
    BY <1>0, <2>1, ToldIs
<1>2. Shares' = Shares /\ Tickets' = Tickets
  BY <1>0 DEF Shares, Tickets
<1>3. SettleTypes'
  BY <1>0, <1>1, <1>2 DEF SettleTypes
<1>4. OkShares' \subseteq OkShares
  BY <1>0, <1>1, <1>2, TicketOfShare DEF OkShares
<1> QED
  BY <1>0, <1>3, <1>4 DEF Settled, Grow

\* Without job declaration its channels stay empty.
LEMMA NoJdSteps ==
    ASSUME AccInv, Lined PROVE ~JdStep /\ ~RelayShareStep
<1>1. Range(jdQ) = {} /\ seeking = {} /\ jdReplies = <<>>
  BY DEF Lined, Outside
<1>2. jdQ = <<>>
  <2>1. jdQ \in Seq(Nat)
    BY DEF AccInv, AccTypes
  <2>2. jdQ # <<>> => Head(jdQ) \in Range(jdQ)
    BY <2>1, QueueTail
  <2> QED
    BY <1>1, <2>2
<1>3. ~JdStep
  BY <1>1, <1>2 DEF JdStep, JdClientTasks, JdRefuses, JdDrops, JdRelays, JdReceives, JobIdTimeout,
                    JdRelaysReply
<1>4. ~RelayShareStep
  BY <1>1 DEF RelayShareStep, RelayShare
<1> QED
  BY <1>3, <1>4

LEMMA BatchNext ==
    ASSUME TicketTypes, AccInv, ReplyInv, BatchInv, PathNext, ~ReplyStep PROVE BatchInv'
<1>0. jd' = jd
  BY DEF PathNext, MinerStep, BridgeStep, SubmitStep, JdStep, JobIdStep, RelayShareStep,
         RelayUpStep, RelayDownStep, PoolStep, MonitorStep, modeVars
<1>1. ASSUME ~jd PROVE Lined' /\ Reached' /\ Covers'
  <2>0. Lined /\ Reached /\ Covers
    BY <1>1 DEF BatchInv
  <2>1. CASE MinerStep \/ BridgeStep \/ MonitorStep \/ JobIdStep
    <3>1. UNCHANGED <<accounterVars, jdQ, seeking, replies, jdReplies, pending>>
      <4>1. CASE MinerStep
        BY <4>1 DEF MinerStep, jdVars, replyVars, submitVars
      <4>2. CASE BridgeStep
        BY <4>2 DEF BridgeStep, Bridge, BridgeUnknownJob, BridgeUntranslatable, BridgeCheckFails,
                    BridgeSubmits, BridgeRateLimits, BridgeAnswers, jdVars, replyVars, submitVars
      <4>3. CASE MonitorStep
        BY <4>3 DEF MonitorStep, jdVars, replyVars, submitVars
      <4>4. CASE JobIdStep
        BY <4>4 DEF JobIdStep, RegisterJobId, replyVars, submitVars
      <4> QED
        BY <2>1, <4>1, <4>2, <4>3, <4>4
    <3> QED
      BY <2>0, <3>1, BatchUnchanged
  <2>2. ~JdStep /\ ~RelayShareStep
    BY <2>0, NoJdSteps
  <2> QED
    BY <1>1, <2>0, <2>1, <2>2, BatchSubmit, BatchRelayUp, BatchPool, BatchRelayDown DEF PathNext
<1> QED
  BY <1>0, <1>1 DEF BatchInv

LEMMA SettleNext ==
    ASSUME TicketTypes, AccInv, ReplyInv, BatchInv, SettleTypes, Settled, PathNext
    PROVE  SettleTypes' /\ Settled' /\ BatchInv'
<1>0. AccTypes /\ AccInv' /\ Grow /\ ~over
  BY AccNext, GrowNext DEF AccInv, PathNext
<1>1. Excused \subseteq Excused'
  <2>1. batched => batched'
    BY DEF PathNext, MinerStep, BridgeStep, SubmitStep, ReplyStep, JdStep, JobIdStep,
           RelayShareStep, RelayUpStep, RelayDownStep, PoolStep, PoolBatch, MonitorStep, modeVars
  <2>2. jd' = jd
    BY DEF PathNext, MinerStep, BridgeStep, SubmitStep, ReplyStep, JdStep, JobIdStep,
           RelayShareStep, RelayUpStep, RelayDownStep, PoolStep, MonitorStep, modeVars
  <2> QED
    BY <1>0, <2>1, <2>2 DEF Excused, Grow
<1>2. ASSUME JdStep \/ JobIdStep \/ RelayShareStep \/ RelayUpStep \/ RelayDownStep \/ PoolStep
      PROVE  SettleTypes' /\ Settled'
  <2>1. UNCHANGED <<ticketJob, result, bridgeQ, submitQ, ticketOf, pending, over>>
    BY <1>2 DEF JdStep, JobIdStep, RelayShareStep, RelayUpStep, RelayDownStep, PoolStep,
                minerVars, submitVars, modeVars
  <2>2. jobOf' = jobOf
    <3>1. CASE JdStep \/ JobIdStep
      BY <3>1 DEF JdStep, JobIdStep, accounterVars, upVars
    <3>2. CASE RelayShareStep \/ RelayUpStep
      BY <3>2 DEF RelayShareStep, RelayShare, RelayUpStep, RelayUp, Record, SendUp, SendUpFails
    <3>3. CASE RelayDownStep
      BY <3>3 DEF RelayDownStep, PathRelayDown, OnShareOk, SendSuccess, OnError, OnMining,
                  OnUnexpected, SendDownFails, upVars
    <3>4. CASE PoolStep
      BY <3>4 DEF PoolStep, PoolAnswers, PoolSends, PoolBatch, upVars
    <3> QED
      BY <1>2, <3>1, <3>2, <3>3, <3>4
  <2> QED
    BY <1>0, <1>1, <2>1, <2>2, SettleKept
<1>3. SettleTypes' /\ Settled'
  BY <1>0, <1>1, <1>2, SettleMiner, SettleBridge, SettleSubmit, SettleReply, SettleMonitor DEF PathNext
<1>4. BatchInv'
  BY <1>0, <1>1, BatchNext, SettleReply
<1> QED
  BY <1>3, <1>4

\* The inductive invariant behind SettledAsAnswered.
SettleInv == TicketTypes /\ AccInv /\ ReplyInv /\ BatchInv /\ SettleTypes /\ Settled

LEMMA SettleInit == PathInit => SettleInv
<1> SUFFICES ASSUME PathInit PROVE SettleInv
  OBVIOUS
<1>1. TicketTypes /\ AccInv
  BY AccInit
<1> USE DEF PathInit, Init
<1>2. /\ Range(<<>>) = {} /\ IsInjective(<<>>) /\ Increasing(<<>>) /\ OfKind(<<>>, "error") = {}
      /\ \A kind, S : Covered(<<>>, kind, S)
  BY DEF Range, IsInjective, Increasing, OfKind, Covered
<1>3. /\ Outside = {} /\ Queued = {} /\ Shares = {} /\ Tickets = {}
  BY <1>2 DEF Outside, Queued, Shares, Tickets
<1>4. ReplyInv
  <2>1. batched \in BOOLEAN
    OBVIOUS
  <2>2. replies \in Seq(Msg) /\ jdReplies \in Seq(Msg)
    <3>1. <<>> \in Seq(Msg)
      OBVIOUS
    <3> QED
      BY <3>1
  <2>3. Range(replies) = {} /\ Range(jdReplies) = {} /\ Range(answers) = {}
    BY <1>2
  <2> QED
    BY <2>1, <2>2, <2>3 DEF ReplyInv
<1>5. BatchInv
  BY <1>2, <1>3 DEF BatchInv, Lined, Reached, Covers
<1>6. SettleTypes
  BY <1>2, <1>3 DEF SettleTypes
<1>7. Settled
  BY <1>3 DEF Settled, OkShares, RefusedShares
<1> QED
  BY <1>1, <1>4, <1>5, <1>6, <1>7 DEF SettleInv

LEMMA SettleStutter ==
    ASSUME SettleInv, UNCHANGED pathVars PROVE SettleInv'
<1>1. TicketTypes' /\ AccInv' /\ ReplyInv'
  BY AccNext, ReplyNext DEF SettleInv
<1>2. /\ UNCHANGED <<accounterVars, minerVars, submitVars, jdVars, replyVars, modeVars>>
  BY DEF pathVars
<1>3. /\ UNCHANGED <<accounterVars, jdQ, seeking, replies, jdReplies, pending, jd>>
  BY <1>2 DEF submitVars, jdVars, replyVars, modeVars
<1>4. BatchInv'
  BY <1>3, BatchUnchanged DEF SettleInv, BatchInv
<1>5. Shares' = Shares /\ Tickets' = Tickets
  BY <1>2 DEF Shares, Tickets, accounterVars, upVars, minerVars
<1>6. SettleTypes'
  BY <1>2, <1>5 DEF SettleInv, SettleTypes, accounterVars, upVars, minerVars, submitVars, modeVars
<1>7. Grow
  BY <1>3, GrowUnchanged
<1>8. OkShares' = OkShares /\ RefusedShares' = RefusedShares /\ Excused' = Excused
  BY <1>2, <1>5 DEF OkShares, RefusedShares, Excused, minerVars, submitVars, modeVars
<1>9. Settled'
  BY <1>2, <1>7, <1>8 DEF SettleInv, Settled, Grow, modeVars
<1> QED
  BY <1>1, <1>4, <1>6, <1>9 DEF SettleInv

\* A miner is told "accepted" only of a share the pool accepted, and "refused" by an
\* answer only of a share it did not accept, through the bridge, handle_submit, the
\* job-declaration client, the accounter and resolve_submit_success, for shares in
\* any number: except for jobs with two shares on their way, and for batches with
\* job declaration.
THEOREM SettledAsAnsweredHolds == PathSpec => []SettledAsAnswered
<1>1. PathInit => SettleInv
  BY SettleInit
<1>2. SettleInv /\ [PathNext]_pathVars => SettleInv'
  <2>1. ASSUME SettleInv, PathNext PROVE SettleInv'
    BY <2>1, AccNext, ReplyNext, SettleNext DEF SettleInv
  <2> QED
    BY <2>1, SettleStutter
<1>3. SettleInv => SettledAsAnswered
  <2> SUFFICES ASSUME SettleInv, NEW n \in Shares
               PROVE  /\ result[ticketOf[n]] = "ok" =>
                             n \in accepted \/ jobOf[n] \in burst \/ (jd /\ batched)
                      /\ result[ticketOf[n]] = "refused" => n \notin accepted \/ over
    BY DEF SettledAsAnswered
  <2>1. result[ticketOf[n]] = "ok" => n \in Fine \cup Excused
    BY DEF SettleInv, Settled, OkShares
  <2>2. result[ticketOf[n]] = "refused" => over \/ n \in Gone
    BY DEF SettleInv, Settled, RefusedShares
  <2> QED
    BY <2>1, <2>2 DEF Fine, Excused, Gone
<1> QED
  BY <1>1, <1>2, <1>3, PTL DEF PathSpec

=============================================================================
