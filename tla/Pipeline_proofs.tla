---------------------------- MODULE Pipeline_proofs ----------------------------
(***************************************************************************)
(* The way of a job to the miners implements JobFeed, and its binding      *)
(* travels with it and stays protected, for every number of jobs, blocks   *)
(* and sessions and every limit of the queues and of the context.          *)
(***************************************************************************)
EXTENDS Pipeline, SequenceTheorems, WellFoundedInduction, TLAPS

-----------------------------------------------------------------------------
(* The order of the messages *)

Messages ==
    [type : {"open"}] \cup [type : {"job"}, id : Nat, with : Nat]
        \cup [type : {"prevhash"}, id : Nat, block : Nat, with : Nat]

PublishedJob == [future : BOOLEAN, binding : Nat, block : Nat]

\* The messages whose place among the others matters, and the block they are
\* about: the prev hashes, and the jobs that are not future ones.
OnLine(pub, m) == m.type = "prevhash" \/ (m.type = "job" /\ ~pub[m.id].future)
BlockOf(pub, m) == IF m.type = "prevhash" THEN m.block ELSE pub[m.id].block

\* m may stand before n: each job once, no block after a later one, and nothing
\* of a block before its prev hash.
Before(pub, m, n) ==
    /\ m.type = "job" /\ n.type = "job" => m.id # n.id
    /\ OnLine(pub, m) /\ OnLine(pub, n) =>
           /\ BlockOf(pub, m) <= BlockOf(pub, n)
           /\ n.type = "prevhash" => BlockOf(pub, m) < BlockOf(pub, n)

Sorted(pub, q) == \A i, j \in 1 .. Len(q) : i < j => Before(pub, q[i], q[j])
Ahead(pub, P, Q) == \A m \in P, n \in Q : Before(pub, m, n)

\* The least of a non-empty set of positions is one of them.
LEMMA MinIsMember ==
    ASSUME NEW S \in SUBSET Nat, S # {}
    PROVE  Min(S) \in S
<1>1. \E x \in S : \A y \in S : ~ (<<y, x>> \in OpToRel(<, Nat))
  BY WFMin, NatLessThanWellFounded, Zenon
<1>2. PICK x \in S : \A y \in S : ~ (<<y, x>> \in OpToRel(<, Nat))
  BY <1>1
<1>3. \A y \in S : x =< y
  <2> TAKE y \in S
  <2>1. x \in Nat /\ y \in Nat /\ <<y, x>> \in Nat \X Nat
    OBVIOUS
  <2>2. ~(y < x)
    BY <2>1, <1>2 DEF OpToRel
  <2> QED BY <2>1, <2>2
<1> QED BY <1>3 DEF Min

LEMMA MessageFacts ==
    /\ \A m \in Messages :
           /\ m.type \in {"open", "job", "prevhash"}
           /\ m.type # "open" => m.id \in Nat
           /\ m.type = "prevhash" => m.block \in Nat
    /\ [type |-> "open"] \in Messages
    /\ \A id \in Nat : Job(id) \in Messages /\ Job(id).type = "job" /\ Job(id).id = id
    /\ \A id, b \in Nat :
           /\ PrevHash(id, b) \in Messages
           /\ PrevHash(id, b).type = "prevhash"
           /\ PrevHash(id, b).id = id /\ PrevHash(id, b).block = b
BY DEF Messages, Job, PrevHash

LEMMA SentWith ==
    ASSUME NEW m \in Messages, m.type = "prevhash", NEW f \in Nat
    PROVE  LET s == [m EXCEPT !.with = f]
           IN s \in Messages /\ s.type = "prevhash" /\ s.id = m.id /\ s.block = m.block
BY DEF Messages

LEMMA RangeFacts ==
    ASSUME NEW S, NEW q \in Seq(S)
    PROVE  /\ Range(q) = {q[i] : i \in 1 .. Len(q)}
           /\ Range(q) \subseteq S
           /\ Len(q) \in Nat
<1>1. DOMAIN q = 1 .. Len(q) /\ Len(q) \in Nat /\ \A i \in 1 .. Len(q) : q[i] \in S
  BY ElementOfSeq, LenProperties
<1> QED
  BY <1>1 DEF Range

LEMMA RangeAppend ==
    ASSUME NEW S, NEW q \in Seq(S), NEW m \in S
    PROVE  /\ Append(q, m) \in Seq(S)
           /\ Range(Append(q, m)) = Range(q) \cup {m}
<1> DEFINE a == Append(q, m)
<1>1. /\ a \in Seq(S) /\ Len(a) = Len(q) + 1 /\ a[Len(q) + 1] = m
      /\ \A i \in 1 .. Len(q) : a[i] = q[i]
  BY AppendProperties, LenProperties
<1> HIDE DEF a
<1>2. /\ Range(q) = {q[i] : i \in 1 .. Len(q)} /\ Len(q) \in Nat
      /\ Range(a) = {a[i] : i \in 1 .. Len(q) + 1}
  BY <1>1, RangeFacts
<1>3. ASSUME NEW x \in Range(a) PROVE x \in Range(q) \cup {m}
  BY <1>1, <1>2
<1>4. ASSUME NEW x \in Range(q) PROVE x \in Range(a)
  <2>1. PICK i \in 1 .. Len(q) : x = q[i]
    BY <1>2
  <2>2. i \in 1 .. Len(q) + 1 /\ a[i] = x
    BY <1>1, <1>2, <2>1
  <2> QED
    BY <1>2, <2>2
<1>5. m \in Range(a)
  <2>1. Len(q) + 1 \in 1 .. Len(q) + 1
    BY <1>2
  <2> QED
    BY <1>1, <1>2, <2>1
<1>6. a \in Seq(S) /\ Range(a) = Range(q) \cup {m}
  BY <1>1, <1>3, <1>4, <1>5
<1> QED
  BY <1>6 DEF a

LEMMA SortedAppend ==
    ASSUME NEW S, NEW q \in Seq(S), NEW m \in S, NEW pub,
           Sorted(pub, q), \A n \in Range(q) : Before(pub, n, m)
    PROVE  Sorted(pub, Append(q, m))
<1> DEFINE a == Append(q, m)
<1>1. /\ Len(a) = Len(q) + 1 /\ a[Len(q) + 1] = m
      /\ \A i \in 1 .. Len(q) : a[i] = q[i]
  BY AppendProperties, LenProperties
<1> HIDE DEF a
<1>2. Range(q) = {q[i] : i \in 1 .. Len(q)} /\ Len(q) \in Nat
  BY RangeFacts
<1>3. SUFFICES ASSUME NEW i \in 1 .. Len(a), NEW j \in 1 .. Len(a), i < j
               PROVE  Before(pub, a[i], a[j])
  BY DEF Sorted, a
<1>4. i \in 1 .. Len(q) /\ a[i] = q[i] /\ q[i] \in Range(q)
  BY <1>1, <1>2, <1>3
<1>5. CASE j = Len(q) + 1
  BY <1>1, <1>4, <1>5
<1>6. CASE j \in 1 .. Len(q)
  BY <1>1, <1>3, <1>4, <1>6 DEF Sorted
<1> QED
  BY <1>1, <1>2, <1>5, <1>6

LEMMA RangeTail ==
    ASSUME NEW S, NEW q \in Seq(S), q # << >>
    PROVE  /\ Tail(q) \in Seq(S) /\ Head(q) \in S
           /\ Len(q) \in Nat /\ Len(q) >= 1 /\ Len(Tail(q)) = Len(q) - 1
           /\ Head(q) = q[1]
           /\ \A i \in 1 .. Len(q) - 1 : Tail(q)[i] = q[i + 1]
           /\ Range(Tail(q)) = {Tail(q)[i] : i \in 1 .. Len(q) - 1}
           /\ Range(q) = Range(Tail(q)) \cup {Head(q)}
<1> DEFINE t == Tail(q)
<1>1. /\ t \in Seq(S) /\ Head(q) \in S /\ Head(q) = q[1]
      /\ Len(q) \in Nat /\ Len(q) >= 1 /\ Len(t) = Len(q) - 1
      /\ \A i \in 1 .. Len(q) - 1 : t[i] = q[i + 1]
  <2>1. Len(q) \in Nat /\ Len(q) # 0
    BY LenProperties, EmptySeq
  <2> QED
    BY <2>1, HeadTailProperties
<1>2. Range(q) = {q[i] : i \in 1 .. Len(q)} /\ Range(t) = {t[i] : i \in 1 .. Len(q) - 1}
  BY <1>1, RangeFacts
<1> HIDE DEF t
<1>3. ASSUME NEW x \in Range(q) PROVE x \in Range(t) \cup {Head(q)}
  <2>1. PICK i \in 1 .. Len(q) : x = q[i]
    BY <1>2
  <2>2. CASE i = 1
    BY <1>1, <2>1, <2>2
  <2>3. CASE i # 1
    <3>1. i - 1 \in 1 .. Len(q) - 1 /\ i - 1 + 1 = i
      BY <1>1, <2>3
    <3> QED
      BY <1>1, <1>2, <2>1, <3>1
  <2> QED
    BY <2>2, <2>3
<1>4. ASSUME NEW x \in Range(t) PROVE x \in Range(q)
  <2>1. PICK i \in 1 .. Len(q) - 1 : x = t[i]
    BY <1>2
  <2>2. i + 1 \in 1 .. Len(q) /\ x = q[i + 1]
    BY <1>1, <2>1
  <2> QED
    BY <1>2, <2>2
<1>5. Head(q) \in Range(q)
  BY <1>1, <1>2
<1>6. Range(q) = Range(t) \cup {Head(q)}
  BY <1>3, <1>4, <1>5
<1> QED
  BY <1>1, <1>2, <1>6 DEF t

LEMMA SortedTail ==
    ASSUME NEW S, NEW q \in Seq(S), q # << >>, NEW pub, Sorted(pub, q)
    PROVE  /\ Sorted(pub, Tail(q))
           /\ \A n \in Range(Tail(q)) : Before(pub, Head(q), n)
<1> DEFINE t == Tail(q)
<1>1. /\ Len(q) \in Nat /\ Len(q) >= 1 /\ Len(t) = Len(q) - 1 /\ Head(q) = q[1]
      /\ \A i \in 1 .. Len(q) - 1 : t[i] = q[i + 1]
      /\ Range(t) = {t[i] : i \in 1 .. Len(q) - 1}
  BY RangeTail
<1> HIDE DEF t
<1>2. Sorted(pub, t)
  <2>1. SUFFICES ASSUME NEW i \in 1 .. Len(t), NEW j \in 1 .. Len(t), i < j
                 PROVE  Before(pub, t[i], t[j])
    BY DEF Sorted
  <2>2. /\ i + 1 \in 1 .. Len(q) /\ j + 1 \in 1 .. Len(q) /\ i + 1 < j + 1
        /\ t[i] = q[i + 1] /\ t[j] = q[j + 1]
    BY <1>1, <2>1
  <2> QED
    BY <2>2 DEF Sorted
<1>3. ASSUME NEW n \in Range(t) PROVE Before(pub, Head(q), n)
  <2>1. PICK i \in 1 .. Len(q) - 1 : n = t[i]
    BY <1>1
  <2>2. 1 \in 1 .. Len(q) /\ i + 1 \in 1 .. Len(q) /\ 1 < i + 1 /\ n = q[i + 1]
    BY <1>1, <2>1
  <2> QED
    BY <1>1, <2>2 DEF Sorted
<1> QED
  BY <1>2, <1>3 DEF t

LEMMA SortedShort ==
    ASSUME NEW S, NEW m \in S, NEW pub
    PROVE  <<m>> \in Seq(S) /\ Range(<<m>>) = {m} /\ Sorted(pub, <<m>>)
BY DEF Range, Sorted

LEMMA SortedPair ==
    ASSUME NEW S, NEW m \in S, NEW n \in S, NEW pub, Before(pub, m, n)
    PROVE  <<m, n>> \in Seq(S) /\ Range(<<m, n>>) = {m, n} /\ Sorted(pub, <<m, n>>)
<1>1. <<m, n>> \in Seq(S) /\ Range(<<m, n>>) = {m, n}
  BY DEF Range
<1>2. SUFFICES ASSUME NEW i \in 1 .. 2, NEW j \in 1 .. 2, i < j
               PROVE  Before(pub, <<m, n>>[i], <<m, n>>[j])
  BY <1>1 DEF Sorted
<1>3. i = 1 /\ j = 2
  BY <1>2
<1> QED
  BY <1>3

LEMMA EmptyQueue ==
    ASSUME NEW pub
    PROVE  << >> \in Seq(Messages) /\ Range(<< >>) = {} /\ Sorted(pub, << >>)
BY DEF Range, Sorted

\* A job more does not change the order of the messages about the jobs before it.
LEMMA BeforeKept ==
    ASSUME NEW pub, NEW more, NEW Q, NEW D,
           \A id \in D : more[id] = pub[id],
           \A m \in Q : m.type \in {"job", "prevhash"} => m.id \in D
    PROVE  /\ \A m \in Q : OnLine(more, m) <=> OnLine(pub, m)
           /\ \A m \in Q : OnLine(pub, m) => BlockOf(more, m) = BlockOf(pub, m)
           /\ \A m, n \in Q : Before(pub, m, n) => Before(more, m, n)
<1>1. \A m \in Q : OnLine(more, m) <=> OnLine(pub, m)
  BY DEF OnLine
<1>2. \A m \in Q : OnLine(pub, m) => BlockOf(more, m) = BlockOf(pub, m)
  BY DEF OnLine, BlockOf
<1> QED
  BY <1>1, <1>2 DEF Before

-----------------------------------------------------------------------------
(* The inductive invariant *)

\* What lies between the publisher and the bridge, the bridge's end first.
Line == Range(workQ) \cup Range(outbox) \cup Range(inbox)

PipeTypes ==
    /\ published \in Seq(PublishedJob) /\ tip \in Nat /\ nextBinding \in Nat
    /\ inbox \in Seq(Messages) /\ outbox \in Seq(Messages) /\ workQ \in Seq(Messages)
    /\ futureJ \in Nat /\ futureJobs \in Seq(Nat) /\ lastPHash \in Nat

\* The line lies ahead of the bridge's last_p_hash and behind the tip, and a prev
\* hash names a job made for its block.
LineKnown ==
    \A m \in Line :
        /\ m.type \in {"job", "prevhash"} => m.id \in DOMAIN published
        /\ m.type = "prevhash" => published[m.id].block = m.block /\ lastPHash < m.block
        /\ OnLine(published, m) => BlockOf(published, m) \in lastPHash .. tip

LineSorted ==
    /\ Sorted(published, workQ) /\ Sorted(published, outbox) /\ Sorted(published, inbox)
    /\ Ahead(published, Range(workQ), Range(outbox))
    /\ Ahead(published, Range(workQ), Range(inbox))
    /\ Ahead(published, Range(outbox), Range(inbox))

\* No block is lost on the way.
LineComplete ==
    \A b \in lastPHash + 1 .. tip : \E m \in Line : m.type = "prevhash" /\ m.block = b

\* A job is at one place: on its way, held back by the main loop or by the bridge,
\* or shown.
OnePlace ==
    /\ futureJ # 0 =>
           /\ futureJ \in DOMAIN published /\ published[futureJ].future
           /\ futureJ \notin shown \cup Range(futureJobs)
    /\ shown \cap Range(futureJobs) = {}
    /\ shown \cup Range(futureJobs) \subseteq DOMAIN published
    /\ \A m \in Line :
           m.type = "job" => m.id \notin shown \cup Range(futureJobs) \cup {futureJ}

\* The miners are not ahead of the bridge, nor the bridge of the publisher.
NotAhead ==
    /\ lastNotify.block \in 0 .. lastPHash
    /\ lastPHash \in 0 .. tip

PipeInv == PipeTypes /\ LineKnown /\ LineSorted /\ LineComplete /\ OnePlace /\ NotAhead

-----------------------------------------------------------------------------
(* What a step does to the line, whichever action takes it *)

heldVars == <<futureJobs, lastPHash, lastNotify, shown>>

PublishesJob ==
    /\ \E future \in BOOLEAN, binding \in Nat :
           published' = Append(published, [future |-> future, binding |-> binding,
                                           block |-> IF future THEN tip + 1 ELSE tip])
    /\ inbox' = Append(inbox, Job(Len(published) + 1))
    /\ UNCHANGED <<tip, futureJ, outbox, workQ, heldVars>>
PublishesPrevHash ==
    /\ \E id \in DOMAIN published :
           /\ published[id].block = tip + 1
           /\ inbox' = Append(inbox, PrevHash(id, tip + 1))
    /\ tip' = tip + 1
    /\ UNCHANGED <<published, futureJ, outbox, workQ, heldVars>>
Takes(type) ==
    /\ outbox = <<>> /\ inbox # <<>> /\ Head(inbox).type = type /\ inbox' = Tail(inbox)
    /\ UNCHANGED <<published, tip, workQ, heldVars>>
TakesOpen == Takes("open") /\ UNCHANGED <<futureJ, outbox>>
TakesFuture ==
    /\ Takes("job") /\ published[Head(inbox).id].future
    /\ futureJ' = Head(inbox).id /\ UNCHANGED outbox
TakesCurrent ==
    /\ Takes("job") /\ ~published[Head(inbox).id].future
    /\ outbox' = <<Job(Head(inbox).id)>> /\ UNCHANGED futureJ
TakesPrevHash ==
    Takes("prevhash") /\ outbox' = WorkOfPrevHash(Head(inbox)) /\ futureJ' = 0
PassesOn ==
    /\ outbox # <<>> /\ workQ' = Append(workQ, Head(outbox)) /\ outbox' = Tail(outbox)
    /\ UNCHANGED <<published, tip, inbox, futureJ, heldVars>>
Works(type) ==
    /\ workQ # <<>> /\ Head(workQ).type = type /\ workQ' = Tail(workQ)
    /\ UNCHANGED <<published, tip, inbox, futureJ, outbox>>
KeepsFuture ==
    /\ Works("job") /\ futureJobs' = Append(futureJobs, Head(workQ).id)
    /\ UNCHANGED <<lastPHash, lastNotify, shown>>
Shows(id, block) ==
    /\ lastNotify'.job = id /\ lastNotify'.block = block
    /\ shown' = shown \cup {id}
ShowsCurrent ==
    /\ Works("job") /\ ~published[Head(workQ).id].future
    /\ Shows(Head(workQ).id, lastPHash)
    /\ UNCHANGED <<futureJobs, lastPHash>>
DropsJob == Works("job") /\ UNCHANGED heldVars
MovesToBlock ==
    /\ Works("prevhash") /\ lastPHash' = Head(workQ).block
    /\ futureJobs' \in {futureJobs, <<>>}
    /\ UNCHANGED <<lastNotify, shown>>
ShowsFuture ==
    /\ Works("prevhash") /\ lastPHash' = Head(workQ).block
    /\ Head(workQ).id \in Range(futureJobs) /\ futureJobs' = <<>>
    /\ Shows(Head(workQ).id, Head(workQ).block)
StartsAnew ==
    /\ published' = <<>> /\ tip' = 0 /\ inbox' = <<[type |-> "open"]>>
    /\ futureJ' = 0 /\ outbox' = <<>> /\ workQ' = <<>> /\ futureJobs' = <<>>
    /\ lastPHash' = 0 /\ lastNotify' = NoNotify /\ shown' = {}
LeavesLine == UNCHANGED <<published, tip, inbox, futureJ, outbox, workQ, heldVars>>

PipeMove ==
    \/ PublishesJob \/ PublishesPrevHash \/ TakesOpen \/ TakesFuture \/ TakesCurrent
    \/ TakesPrevHash \/ PassesOn \/ KeepsFuture \/ ShowsCurrent \/ DropsJob
    \/ MovesToBlock \/ ShowsFuture \/ StartsAnew \/ LeavesLine

\* Every step of the publisher, the main loop and the bridge is one of these.
LEMMA PipeMoves ==
    ASSUME PipeTypes, [PipeNext]_pipeVars
    PROVE  PipeMove /\ nextBinding' \in Nat
<1> USE DEF publisherVars, loopVars, bridgeVars, contextVars, heldVars
<1>0. nextBinding \in Nat
  BY DEF PipeTypes
<1>1. CASE \E future \in BOOLEAN : OnNewTemplate(future)
  <2> PICK future \in BOOLEAN : OnNewTemplate(future)
    BY <1>1
  <2>1. /\ Publish(future, nextBinding) \/ Publish(future, NoId)
        /\ nextBinding' \in {nextBinding, nextBinding + 1}
        /\ UNCHANGED <<loopVars, workQ, bridgeVars>>
    BY DEF OnNewTemplate, BindJobGeneration, AnnounceUnboundJob
  <2>2. PICK binding \in Nat : Publish(future, binding)
    BY <1>0, <2>1 DEF NoId
  <2>3. PublishesJob
    BY <2>1, <2>2 DEF Publish, PublishesJob
  <2> QED
    BY <1>0, <2>1, <2>3 DEF PipeMove
<1>2. CASE \E future \in BOOLEAN : PoolSendsJob(future)
  <2> PICK future \in BOOLEAN : PoolSendsJob(future)
    BY <1>2
  <2>1. NoId \in Nat /\ Publish(future, NoId) /\ UNCHANGED <<contextVars, loopVars, workQ, bridgeVars>>
    BY DEF PoolSendsJob, NoId
  <2>2. PublishesJob
    BY <2>1 DEF Publish, PublishesJob
  <2> QED
    BY <1>0, <2>1, <2>2 DEF PipeMove
<1>3. CASE \E id \in DOMAIN published : OnSetNewPrevHash(id)
  <2>1. PublishesPrevHash /\ nextBinding' = nextBinding
    BY <1>3 DEF OnSetNewPrevHash, FutureJobs, PublishesPrevHash
  <2> QED
    BY <1>0, <2>1 DEF PipeMove
<1>4. CASE HandleOpenChannel
  <2>1. TakesOpen /\ nextBinding' = nextBinding
    BY <1>4 DEF HandleOpenChannel, Receives, TakesOpen, Takes
  <2> QED
    BY <1>0, <2>1 DEF PipeMove
<1>5. CASE HandleJob
  <2>1. /\ Takes("job") /\ nextBinding' = nextBinding
        /\ HandleFutureJob(Head(inbox).id) \/ HandleCurrentJob(Head(inbox).id)
    BY <1>5 DEF HandleJob, Receives, Takes, HandleFutureJob, HandleCurrentJob, ClaimJobBinding
  <2>2. TakesFuture \/ TakesCurrent
    BY <2>1 DEF TakesFuture, TakesCurrent, HandleFutureJob, HandleCurrentJob
  <2> QED
    BY <1>0, <2>1, <2>2 DEF PipeMove
<1>6. CASE HandlePrevHash
  <2>1. TakesPrevHash /\ nextBinding' = nextBinding
    BY <1>6 DEF HandlePrevHash, Receives, TakesPrevHash, Takes
  <2> QED
    BY <1>0, <2>1 DEF PipeMove
<1>7. CASE SendWork
  <2>1. PassesOn /\ nextBinding' = nextBinding
    BY <1>7 DEF SendWork, PassesOn
  <2> QED
    BY <1>0, <2>1 DEF PipeMove
<1>8. CASE SendWorkFails \/ HandleSetTarget \/ HandleClose \/ UNCHANGED pipeVars
  <2>1. LeavesLine /\ nextBinding' = nextBinding
    BY <1>8 DEF SendWorkFails, ClearPendingJobBinding, HandleSetTarget, HandleClose,
                pipeVars, LeavesLine
  <2> QED
    BY <1>0, <2>1 DEF PipeMove
<1>9. CASE BridgeJob
  <2> DEFINE id == Head(workQ).id
  <2>1. /\ Works("job") /\ lastPHash' = lastPHash
        /\ BridgeKeepsFuture(id) \/ BridgeNotifies(id) \/ BridgeRefusesJob
    BY <1>9 DEF BridgeJob, Work, Works
  <2>2. nextBinding' = nextBinding
    BY <2>1 DEF BridgeKeepsFuture, BridgeNotifies, BridgeRefusesJob, Notify, SetActiveJobBinding
  <2>3. KeepsFuture \/ ShowsCurrent \/ DropsJob
    BY <2>1 DEF BridgeKeepsFuture, BridgeNotifies, BridgeRefusesJob, Notify, NoNewNotify,
                KeepsFuture, ShowsCurrent, DropsJob, Shows
  <2> QED
    BY <1>0, <2>2, <2>3 DEF PipeMove
<1>10. CASE BridgePrevHash
  <2> DEFINE m == Head(workQ)
  <2>1. /\ Works("prevhash")
        /\ PrevHashMissesJob(m) \/ PrevHashActivatesJob(m) \/ PrevHashFails(m)
    BY <1>10 DEF BridgePrevHash, Work, Works
  <2>2. nextBinding' = nextBinding
    BY <2>1 DEF PrevHashMissesJob, PrevHashActivatesJob, PrevHashFails
  <2>3. MovesToBlock \/ ShowsFuture
    BY <2>1 DEF PrevHashMissesJob, PrevHashActivatesJob, PrevHashFails, NoNewNotify,
                MovesToBlock, ShowsFuture, Shows
  <2> QED
    BY <1>0, <2>2, <2>3 DEF PipeMove
<1>11. CASE \E m \in {"jd", "pool"} : Restart(m)
  <2>1. StartsAnew /\ nextBinding' = nextBinding
    BY <1>11 DEF Restart, StartsAnew, ContextOfSession, BeginTemplateSession
  <2> QED
    BY <1>0, <2>1 DEF PipeMove
<1> QED
  BY <1>1, <1>2, <1>3, <1>4, <1>5, <1>6, <1>7, <1>8, <1>9, <1>10, <1>11
  DEF PipeNext, Publisher, Loop, BridgeWork

LEMMA PipeFacts ==
    ASSUME PipeTypes
    PROVE  /\ Len(published) \in Nat /\ DOMAIN published = 1 .. Len(published)
           /\ \A id \in DOMAIN published :
                  published[id].future \in BOOLEAN /\ published[id].block \in Nat
           /\ tip \in Nat /\ futureJ \in Nat /\ lastPHash \in Nat
           /\ Line \subseteq Messages
           /\ Range(futureJobs) \subseteq Nat
<1>1. published \in Seq(PublishedJob) /\ tip \in Nat /\ futureJ \in Nat /\ lastPHash \in Nat
  BY DEF PipeTypes
<1>2. Line \subseteq Messages /\ Range(futureJobs) \subseteq Nat
  BY RangeFacts DEF PipeTypes, Line
<1>3. /\ Len(published) \in Nat /\ DOMAIN published = 1 .. Len(published)
      /\ \A id \in DOMAIN published : published[id] \in PublishedJob
  BY <1>1, ElementOfSeq, LenProperties
<1> QED
  BY <1>1, <1>2, <1>3 DEF PublishedJob

LEMMA JobPublished ==
    ASSUME PipeInv, PublishesJob, nextBinding' \in Nat
    PROVE  PipeInv'
<1> DEFINE n == Len(published) + 1
           j == Job(n)
<1> USE DEF heldVars
<1>1. PICK future \in BOOLEAN, binding \in Nat :
          published' = Append(published, [future |-> future, binding |-> binding,
                                          block |-> IF future THEN tip + 1 ELSE tip])
  BY DEF PublishesJob
<1>2. /\ inbox' = Append(inbox, j)
      /\ UNCHANGED <<tip, futureJ, outbox, workQ, futureJobs, lastPHash, lastNotify, shown>>
  BY DEF PublishesJob
<1>3. PipeTypes /\ LineKnown /\ LineSorted /\ LineComplete /\ OnePlace /\ NotAhead
  BY DEF PipeInv
<1>4. /\ Len(published) \in Nat /\ DOMAIN published = 1 .. Len(published)
      /\ \A id \in DOMAIN published :
             published[id].future \in BOOLEAN /\ published[id].block \in Nat
      /\ tip \in Nat /\ futureJ \in Nat /\ lastPHash \in Nat
      /\ Line \subseteq Messages
  BY <1>3, PipeFacts
<1>5. j \in Messages /\ j.type = "job" /\ j.id = n /\ n \in Nat /\ n \notin DOMAIN published
      /\ n # 0
  BY <1>4, MessageFacts
<1> HIDE DEF j
<1>6. /\ published' \in Seq(PublishedJob)
      /\ DOMAIN published' = 1 .. n
      /\ \A id \in DOMAIN published : published'[id] = published[id]
      /\ published'[n].future = future
      /\ published'[n].block = IF future THEN tip + 1 ELSE tip
  <2> DEFINE r == [future |-> future, binding |-> binding,
                   block |-> IF future THEN tip + 1 ELSE tip]
  <2>1. r \in PublishedJob /\ published \in Seq(PublishedJob)
        /\ r.future = future /\ r.block = IF future THEN tip + 1 ELSE tip
    BY <1>3, <1>4 DEF PublishedJob, PipeTypes
  <2>2. published' = Append(published, r)
    BY <1>1
  <2> HIDE DEF r
  <2> QED
    BY <1>4, <2>1, <2>2, AppendProperties, LenProperties
<1>7. /\ inbox' \in Seq(Messages)
      /\ Range(inbox') = Range(inbox) \cup {j}
      /\ Sorted(published', inbox) /\ (\A m \in Range(inbox) : Before(published', m, j)) =>
            Sorted(published', inbox')
  BY <1>2, <1>3, <1>5, RangeAppend, SortedAppend DEF PipeTypes
<1>8. Line' = Line \cup {j}
  BY <1>2, <1>7 DEF Line
<1>9. /\ \A m \in Line : OnLine(published', m) <=> OnLine(published, m)
      /\ \A m \in Line : OnLine(published, m) => BlockOf(published', m) = BlockOf(published, m)
      /\ \A m, k \in Line : Before(published, m, k) => Before(published', m, k)
  <2>1. \A m \in Line : m.type \in {"job", "prevhash"} => m.id \in DOMAIN published
    BY <1>3 DEF LineKnown
  <2> QED
    BY <1>6, <2>1, BeforeKept
<1>10. PipeTypes'
  BY <1>2, <1>3, <1>6, <1>7 DEF PipeTypes
<1>11. OnLine(published', j) => BlockOf(published', j) = tip
  BY <1>5, <1>6 DEF OnLine, BlockOf
<1>12. \A m \in Line : Before(published', m, j)
  <2>1. SUFFICES ASSUME NEW m \in Line PROVE Before(published', m, j)
    OBVIOUS
  <2>2. m.type = "job" => m.id # j.id
    BY <1>3, <1>5 DEF LineKnown
  <2>3. OnLine(published', m) => BlockOf(published', m) \in lastPHash .. tip
    BY <1>3, <1>9 DEF LineKnown
  <2> QED
    BY <1>4, <1>5, <1>11, <2>2, <2>3 DEF Before
<1>13. LineKnown'
  <2>1. SUFFICES ASSUME NEW m \in Line'
                 PROVE  /\ m.type \in {"job", "prevhash"} => m.id \in DOMAIN published'
                        /\ m.type = "prevhash" =>
                               published'[m.id].block = m.block /\ lastPHash < m.block
                        /\ OnLine(published', m) => BlockOf(published', m) \in lastPHash .. tip
    BY <1>2 DEF LineKnown
  <2>2. CASE m \in Line
    <3>1. /\ m.type \in {"job", "prevhash"} => m.id \in DOMAIN published
          /\ m.type = "prevhash" => published[m.id].block = m.block /\ lastPHash < m.block
          /\ OnLine(published, m) => BlockOf(published, m) \in lastPHash .. tip
      BY <1>3, <2>2 DEF LineKnown
    <3> QED
      BY <1>4, <1>6, <1>9, <2>2, <3>1
  <2>3. CASE m = j
    BY <1>3, <1>4, <1>5, <1>6, <1>11, <2>3 DEF NotAhead
  <2> QED
    BY <1>8, <2>2, <2>3
<1>14. LineSorted'
  <2>1. Range(workQ) \subseteq Line /\ Range(outbox) \subseteq Line /\ Range(inbox) \subseteq Line
    BY DEF Line
  <2>2. Sorted(published', workQ) /\ Sorted(published', outbox) /\ Sorted(published', inbox)
    <3>1. ASSUME NEW q \in {workQ, outbox, inbox} PROVE Sorted(published', q)
      <4>1. Sorted(published, q) /\ q \in Seq(Messages)
        BY <1>3 DEF LineSorted, PipeTypes
      <4>2. \A i \in 1 .. Len(q) : q[i] \in Line
        BY <2>1, <4>1, RangeFacts
      <4> QED
        BY <1>9, <4>1, <4>2 DEF Sorted
    <3> QED
      BY <3>1
  <2>3. Sorted(published', inbox')
    BY <1>7, <1>12, <2>1, <2>2
  <2>4. /\ Ahead(published', Range(workQ), Range(outbox))
        /\ Ahead(published', Range(workQ), Range(inbox'))
        /\ Ahead(published', Range(outbox), Range(inbox'))
    <3>1. /\ Ahead(published, Range(workQ), Range(outbox))
          /\ Ahead(published, Range(workQ), Range(inbox))
          /\ Ahead(published, Range(outbox), Range(inbox))
      BY <1>3 DEF LineSorted
    <3> QED
      BY <1>7, <1>9, <1>12, <2>1, <3>1 DEF Ahead
  <2> QED
    BY <1>2, <2>2, <2>3, <2>4 DEF LineSorted
<1>15. LineComplete'
  BY <1>2, <1>3, <1>8 DEF LineComplete
<1>16. OnePlace'
  <2>1. /\ futureJ # 0 => futureJ \in DOMAIN published' /\ published'[futureJ].future
        /\ shown \cup Range(futureJobs) \subseteq DOMAIN published'
    BY <1>3, <1>4, <1>6 DEF OnePlace
  <2>2. n \notin shown \cup Range(futureJobs) \cup {futureJ}
    BY <1>3, <1>4, <1>5 DEF OnePlace
  <2> QED
    BY <1>2, <1>3, <1>5, <1>8, <2>1, <2>2 DEF OnePlace
<1> QED
  BY <1>2, <1>3, <1>10, <1>13, <1>14, <1>15, <1>16 DEF PipeInv, NotAhead

LEMMA PrevHashPublished ==
    ASSUME PipeInv, PublishesPrevHash, nextBinding' \in Nat
    PROVE  PipeInv'
<1> USE DEF heldVars
<1>1. PICK id \in DOMAIN published :
          published[id].block = tip + 1 /\ inbox' = Append(inbox, PrevHash(id, tip + 1))
  BY DEF PublishesPrevHash
<1> DEFINE p == PrevHash(id, tip + 1)
<1>2. /\ tip' = tip + 1
      /\ UNCHANGED <<published, futureJ, outbox, workQ, futureJobs, lastPHash, lastNotify, shown>>
  BY DEF PublishesPrevHash
<1>3. PipeTypes /\ LineKnown /\ LineSorted /\ LineComplete /\ OnePlace /\ NotAhead
  BY DEF PipeInv
<1>4. tip \in Nat /\ lastPHash \in Nat /\ Line \subseteq Messages /\ id \in Nat
  BY <1>3, PipeFacts
<1>5. p \in Messages /\ p.type = "prevhash" /\ p.id = id /\ p.block = tip + 1
  BY <1>4, MessageFacts
<1>6. inbox' = Append(inbox, p)
  BY <1>1
<1> HIDE DEF p
<1>7. /\ inbox' \in Seq(Messages)
      /\ Range(inbox') = Range(inbox) \cup {p}
      /\ Sorted(published, inbox) /\ (\A m \in Range(inbox) : Before(published, m, p)) =>
            Sorted(published, inbox')
  BY <1>3, <1>5, <1>6, RangeAppend, SortedAppend DEF PipeTypes
<1>8. Line' = Line \cup {p}
  BY <1>2, <1>7 DEF Line
<1>9. OnLine(published, p) /\ BlockOf(published, p) = tip + 1
  BY <1>5 DEF OnLine, BlockOf
<1>10. \A m \in Line : OnLine(published, m) => BlockOf(published, m) \in lastPHash .. tip
  BY <1>3 DEF LineKnown
<1>11. \A m \in Line : Before(published, m, p)
  BY <1>4, <1>5, <1>9, <1>10 DEF Before
<1>12. PipeTypes'
  BY <1>2, <1>3, <1>4, <1>7 DEF PipeTypes
<1>13. LineKnown'
  <2>1. SUFFICES ASSUME NEW m \in Line'
                 PROVE  /\ m.type \in {"job", "prevhash"} => m.id \in DOMAIN published
                        /\ m.type = "prevhash" =>
                               published[m.id].block = m.block /\ lastPHash < m.block
                        /\ OnLine(published, m) => BlockOf(published, m) \in lastPHash .. tip + 1
    BY <1>2 DEF LineKnown
  <2>2. CASE m \in Line
    <3>1. /\ m.type \in {"job", "prevhash"} => m.id \in DOMAIN published
          /\ m.type = "prevhash" => published[m.id].block = m.block /\ lastPHash < m.block
      BY <1>3, <2>2 DEF LineKnown
    <3> QED
      BY <1>4, <1>10, <2>2, <3>1
  <2>3. CASE m = p
    BY <1>1, <1>3, <1>4, <1>5, <1>9, <2>3 DEF NotAhead
  <2> QED
    BY <1>8, <2>2, <2>3
<1>14. LineSorted'
  BY <1>2, <1>3, <1>7, <1>11 DEF LineSorted, Ahead, Line
<1>15. LineComplete'
  <2>1. SUFFICES ASSUME NEW b \in lastPHash + 1 .. tip + 1
                 PROVE  \E m \in Line' : m.type = "prevhash" /\ m.block = b
    BY <1>2 DEF LineComplete
  <2>2. CASE b = tip + 1
    BY <1>5, <1>8, <2>2
  <2>3. CASE b # tip + 1
    <3>1. b \in lastPHash + 1 .. tip
      BY <1>4, <2>3
    <3> QED
      BY <1>3, <1>8, <3>1 DEF LineComplete
  <2> QED
    BY <2>2, <2>3
<1>16. OnePlace'
  BY <1>2, <1>3, <1>5, <1>8 DEF OnePlace
<1>17. NotAhead'
  BY <1>2, <1>3, <1>4 DEF NotAhead
<1> QED
  BY <1>12, <1>13, <1>14, <1>15, <1>16, <1>17 DEF PipeInv

-----------------------------------------------------------------------------
(* The main loop *)

\* What the order looks at is the same.
Like(m, h) == m.type = h.type /\ m.id = h.id /\ (m.type = "prevhash" => m.block = h.block)

LEMMA LikeBefore ==
    ASSUME NEW pub, NEW m, NEW h, Like(m, h), m.type \in {"job", "prevhash"}
    PROVE  /\ OnLine(pub, m) <=> OnLine(pub, h)
           /\ BlockOf(pub, m) = BlockOf(pub, h)
           /\ \A n : Before(pub, n, h) => Before(pub, n, m)
           /\ \A n : Before(pub, h, n) => Before(pub, m, n)
<1>1. OnLine(pub, m) <=> OnLine(pub, h)
  BY DEF Like, OnLine
<1>2. BlockOf(pub, m) = BlockOf(pub, h)
  BY DEF Like, BlockOf
<1> QED
  BY <1>1, <1>2 DEF Like, Before

\* The main loop puts in place of the message it takes nothing, or a message like
\* it, perhaps behind the job it held back.
LEMMA TakenInOrder ==
    ASSUME PipeInv, NEW type, Takes(type),
           outbox' \in Seq(Messages), Sorted(published, outbox'),
           \A m \in Range(outbox') :
               \/ Like(m, Head(inbox)) /\ m.type \in {"job", "prevhash"}
               \/ futureJ # 0 /\ m = Job(futureJ),
           type = "prevhash" => \E m \in Range(outbox') : Like(m, Head(inbox))
    PROVE  /\ LineKnown' /\ LineSorted' /\ LineComplete' /\ NotAhead'
           /\ inbox' \in Seq(Messages)
           /\ Line' = Range(workQ) \cup Range(outbox') \cup Range(inbox')
           /\ Line = Range(workQ) \cup Range(inbox') \cup {Head(inbox)}
           /\ Head(inbox) \in Messages
           /\ \A m \in Range(workQ) : Before(published, m, Head(inbox))
           /\ \A m \in Range(inbox') : Before(published, Head(inbox), m)
<1> DEFINE h == Head(inbox)
<1> USE DEF heldVars
<1>1. /\ outbox = <<>> /\ inbox # <<>> /\ h.type = type /\ inbox' = Tail(inbox)
      /\ UNCHANGED <<published, tip, workQ, lastPHash, lastNotify>>
  BY DEF Takes
<1>2. PipeTypes /\ LineKnown /\ LineSorted /\ LineComplete /\ OnePlace /\ NotAhead
  BY DEF PipeInv
<1>3. /\ inbox' \in Seq(Messages) /\ h \in Messages
      /\ Range(inbox) = Range(inbox') \cup {h}
      /\ Sorted(published, inbox') /\ \A m \in Range(inbox') : Before(published, h, m)
  BY <1>1, <1>2, RangeTail, SortedTail DEF PipeTypes, LineSorted
<1>4. Range(outbox) = {}
  BY <1>1, EmptyQueue
<1>5. \A m \in Range(workQ) : Before(published, m, h)
  BY <1>2, <1>3 DEF LineSorted, Ahead
<1>6. /\ Line = Range(workQ) \cup Range(inbox') \cup {h}
      /\ Line' = Range(workQ) \cup Range(outbox') \cup Range(inbox')
  BY <1>1, <1>3, <1>4 DEF Line
<1>7. ASSUME futureJ # 0
      PROVE  LET f == Job(futureJ)
             IN /\ f.type = "job" /\ f.id = futureJ /\ futureJ \in DOMAIN published
                /\ ~OnLine(published, f)
                /\ \A m \in Line : Before(published, m, f) /\ Before(published, f, m)
  <2> DEFINE f == Job(futureJ)
  <2>1. f.type = "job" /\ f.id = futureJ
    BY <1>2, PipeFacts, MessageFacts
  <2> HIDE DEF f
  <2>2. futureJ \in DOMAIN published /\ published[futureJ].future
    BY <1>2, <1>7 DEF OnePlace
  <2>3. ~OnLine(published, f)
    BY <2>1, <2>2 DEF OnLine
  <2>4. \A m \in Line : m.type = "job" => m.id # futureJ
    BY <1>2 DEF OnePlace
  <2>5. f.type = "job" /\ f.id = futureJ /\ futureJ \in DOMAIN published
        /\ ~OnLine(published, f)
        /\ \A m \in Line : Before(published, m, f) /\ Before(published, f, m)
    BY <2>1, <2>2, <2>3, <2>4 DEF Before
  <2> QED
    BY <2>5 DEF f
<1>8. h \in Line
  BY <1>6
<1> HIDE DEF h
<1>9. \A m \in Range(outbox') :
          \/ Like(m, h) /\ m.type \in {"job", "prevhash"}
          \/ futureJ # 0 /\ m = Job(futureJ)
  BY DEF h
<1>10. LineKnown'
  <2>1. SUFFICES ASSUME NEW m \in Line'
                 PROVE  /\ m.type \in {"job", "prevhash"} => m.id \in DOMAIN published
                        /\ m.type = "prevhash" =>
                               published[m.id].block = m.block /\ lastPHash < m.block
                        /\ OnLine(published, m) => BlockOf(published, m) \in lastPHash .. tip
    BY <1>1 DEF LineKnown
  <2>2. CASE m \in Line
    BY <1>2, <2>2 DEF LineKnown
  <2>3. CASE Like(m, h) /\ m.type \in {"job", "prevhash"}
    <3>1. /\ h.type \in {"job", "prevhash"} => h.id \in DOMAIN published
          /\ h.type = "prevhash" => published[h.id].block = h.block /\ lastPHash < h.block
          /\ OnLine(published, h) => BlockOf(published, h) \in lastPHash .. tip
      BY <1>2, <1>8 DEF LineKnown
    <3>2. (OnLine(published, m) <=> OnLine(published, h))
          /\ BlockOf(published, m) = BlockOf(published, h)
      BY <2>3, LikeBefore
    <3> QED
      BY <2>3, <3>1, <3>2 DEF Like
  <2>4. CASE futureJ # 0 /\ m = Job(futureJ)
    BY <1>7, <2>4
  <2> QED
    BY <1>6, <1>9, <2>2, <2>3, <2>4
<1>11. \A m \in Range(outbox') :
           /\ \A n \in Range(workQ) : Before(published, n, m)
           /\ \A n \in Range(inbox') : Before(published, m, n)
  <2>1. SUFFICES ASSUME NEW m \in Range(outbox')
                 PROVE  /\ \A n \in Range(workQ) : Before(published, n, m)
                        /\ \A n \in Range(inbox') : Before(published, m, n)
    OBVIOUS
  <2>2. CASE Like(m, h) /\ m.type \in {"job", "prevhash"}
    <3>1. /\ \A n : Before(published, n, h) => Before(published, n, m)
          /\ \A n : Before(published, h, n) => Before(published, m, n)
      BY <2>2, LikeBefore
    <3> QED
      BY <1>3, <1>5, <3>1 DEF h
  <2>3. CASE futureJ # 0 /\ m = Job(futureJ)
    BY <1>6, <1>7, <2>3
  <2> QED
    BY <1>9, <2>2, <2>3
<1>12. LineSorted'
  <2>1. /\ Sorted(published, workQ) /\ Sorted(published, inbox') /\ Sorted(published, outbox')
        /\ Ahead(published, Range(workQ), Range(inbox'))
    BY <1>2, <1>3 DEF LineSorted, Ahead
  <2>2. /\ Ahead(published, Range(workQ), Range(outbox'))
        /\ Ahead(published, Range(outbox'), Range(inbox'))
    BY <1>11 DEF Ahead
  <2> QED
    BY <1>1, <2>1, <2>2 DEF LineSorted
<1>13. LineComplete'
  <2>1. SUFFICES ASSUME NEW b \in lastPHash + 1 .. tip
                 PROVE  \E m \in Line' : m.type = "prevhash" /\ m.block = b
    BY <1>1 DEF LineComplete
  <2>2. PICK m \in Line : m.type = "prevhash" /\ m.block = b
    BY <1>2 DEF LineComplete
  <2>3. CASE m = h
    <3>1. PICK o \in Range(outbox') : Like(o, h)
      BY <1>1, <2>2, <2>3 DEF h
    <3>2. o.type = "prevhash" /\ o.block = b /\ o \in Line'
      BY <1>6, <2>2, <2>3, <3>1 DEF Like
    <3> QED
      BY <3>2
  <2>4. CASE m # h
    BY <1>6, <2>2, <2>4
  <2> QED
    BY <2>3, <2>4
<1>14. NotAhead'
  BY <1>1, <1>2 DEF NotAhead
<1> QED
  BY <1>3, <1>5, <1>6, <1>10, <1>12, <1>13, <1>14 DEF h

LEMMA OpenTaken ==
    ASSUME PipeInv, TakesOpen, nextBinding' \in Nat
    PROVE  PipeInv'
<1>1. Takes("open") /\ UNCHANGED <<futureJ, outbox>> /\ outbox = <<>> /\ PipeTypes /\ OnePlace
  BY DEF TakesOpen, Takes, PipeInv
<1>2. /\ outbox' \in Seq(Messages) /\ Sorted(published, outbox') /\ Range(outbox') = {}
      /\ UNCHANGED <<published, tip, workQ, futureJobs, lastPHash, lastNotify, shown>>
  BY <1>1, EmptyQueue DEF Takes, heldVars
<1>3. /\ LineKnown' /\ LineSorted' /\ LineComplete' /\ NotAhead' /\ inbox' \in Seq(Messages)
      /\ Line' \subseteq Line
  BY <1>1, <1>2, TakenInOrder
<1>4. PipeTypes' /\ OnePlace'
  BY <1>1, <1>2, <1>3 DEF PipeTypes, OnePlace
<1> QED
  BY <1>3, <1>4 DEF PipeInv

LEMMA FutureTaken ==
    ASSUME PipeInv, TakesFuture, nextBinding' \in Nat
    PROVE  PipeInv'
<1> DEFINE h == Head(inbox)
<1>1. /\ Takes("job") /\ futureJ' = h.id /\ published[h.id].future /\ h.type = "job"
      /\ outbox' = outbox /\ outbox = <<>> /\ PipeTypes /\ OnePlace /\ LineKnown
  BY DEF TakesFuture, Takes, PipeInv
<1>2. /\ outbox' \in Seq(Messages) /\ Sorted(published, outbox') /\ Range(outbox') = {}
      /\ UNCHANGED <<published, tip, workQ, futureJobs, lastPHash, lastNotify, shown>>
  BY <1>1, EmptyQueue DEF Takes, heldVars
<1>3. /\ LineKnown' /\ LineSorted' /\ LineComplete' /\ NotAhead' /\ inbox' \in Seq(Messages)
      /\ Line' = Range(workQ) \cup Range(inbox') /\ Line' \subseteq Line /\ h \in Line
      /\ h \in Messages
      /\ \A m \in Range(workQ) : Before(published, m, h)
      /\ \A m \in Range(inbox') : Before(published, h, m)
  <2>1. "job" # "prevhash"
    OBVIOUS
  <2> QED
    BY <1>1, <1>2, <2>1, TakenInOrder
<1>4. h.id \in Nat /\ h.id \in DOMAIN published /\ h.id \notin shown \cup Range(futureJobs)
  BY <1>1, <1>3, MessageFacts DEF LineKnown, OnePlace
<1>5. \A m \in Line' : m.type = "job" => m.id # h.id
  BY <1>1, <1>3 DEF Before
<1>6. PipeTypes'
  BY <1>1, <1>2, <1>3, <1>4 DEF PipeTypes
<1>7. OnePlace'
  <2>1. \A m \in Line' : m.type = "job" => m.id \notin shown \cup Range(futureJobs)
    BY <1>1, <1>3 DEF OnePlace
  <2> QED
    BY <1>1, <1>2, <1>4, <1>5, <2>1 DEF OnePlace
<1> QED
  BY <1>3, <1>6, <1>7 DEF PipeInv

LEMMA CurrentTaken ==
    ASSUME PipeInv, TakesCurrent, nextBinding' \in Nat
    PROVE  PipeInv'
<1> DEFINE h == Head(inbox)
           j == Job(h.id)
<1>1. /\ Takes("job") /\ futureJ' = futureJ /\ h.type = "job" /\ inbox # <<>>
      /\ outbox' = <<j>> /\ PipeTypes /\ OnePlace /\ LineKnown
  BY DEF TakesCurrent, Takes, PipeInv
<1>2. h \in Messages /\ h.id \in Nat
  BY <1>1, RangeTail, SortedTail, MessageFacts DEF PipeTypes
<1>3. j \in Messages /\ j.type = "job" /\ j.id = h.id
  BY <1>2, MessageFacts
<1> HIDE DEF j
<1>4. /\ outbox' \in Seq(Messages) /\ Sorted(published, outbox') /\ Range(outbox') = {j}
      /\ UNCHANGED <<published, tip, workQ, futureJobs, lastPHash, lastNotify, shown>>
  BY <1>1, <1>3, SortedShort DEF Takes, heldVars
<1>5. Like(j, h)
  BY <1>1, <1>3 DEF Like
<1>6. /\ LineKnown' /\ LineSorted' /\ LineComplete' /\ NotAhead' /\ inbox' \in Seq(Messages)
      /\ Line' = Range(workQ) \cup Range(inbox') \cup {j}
      /\ Line = Range(workQ) \cup Range(inbox') \cup {h}
  BY <1>1, <1>3, <1>4, <1>5, TakenInOrder
<1>7. PipeTypes'
  BY <1>1, <1>4, <1>6 DEF PipeTypes
<1>8. OnePlace'
  <2>1. \A m \in Line' : m.type = "job" => m.id \notin shown \cup Range(futureJobs) \cup {futureJ}
    BY <1>1, <1>3, <1>6 DEF OnePlace
  <2> QED
    BY <1>1, <1>4, <2>1 DEF OnePlace
<1> QED
  BY <1>6, <1>7, <1>8 DEF PipeInv

LEMMA PrevHashTaken ==
    ASSUME PipeInv, TakesPrevHash, nextBinding' \in Nat
    PROVE  PipeInv'
<1> DEFINE h == Head(inbox)
           f == Job(futureJ)
           s == [h EXCEPT !.with = futureJ]
<1>1. /\ Takes("prevhash") /\ futureJ' = 0 /\ h.type = "prevhash" /\ inbox # <<>>
      /\ outbox' = IF futureJ = 0 THEN <<h>> ELSE <<f, s>>
      /\ PipeTypes /\ OnePlace /\ LineKnown
  BY DEF TakesPrevHash, Takes, WorkOfPrevHash, PipeInv
<1>2. h \in Messages /\ futureJ \in Nat
  BY <1>1, RangeTail, SortedTail DEF PipeTypes
<1>3. s \in Messages /\ s.type = "prevhash" /\ s.id = h.id /\ s.block = h.block
  BY <1>1, <1>2, SentWith
<1>4. f \in Messages /\ f.type = "job" /\ f.id = futureJ
  BY <1>2, MessageFacts
<1> HIDE DEF s, f
<1>5. Like(h, h) /\ Like(s, h)
  BY <1>1, <1>3 DEF Like
<1>6. futureJ # 0 => Before(published, f, s)
  <2>1. futureJ # 0 => ~OnLine(published, f)
    BY <1>1, <1>4 DEF OnePlace, OnLine
  <2> QED
    BY <1>3, <2>1 DEF Before
<1>7. /\ outbox' \in Seq(Messages) /\ Sorted(published, outbox')
      /\ Range(outbox') = IF futureJ = 0 THEN {h} ELSE {f, s}
      /\ UNCHANGED <<published, tip, workQ, futureJobs, lastPHash, lastNotify, shown>>
  <2>1. CASE futureJ = 0
    BY <1>1, <1>2, <2>1, SortedShort DEF Takes, heldVars
  <2>2. CASE futureJ # 0
    <3>1. /\ <<f, s>> \in Seq(Messages) /\ Range(<<f, s>>) = {f, s}
          /\ Sorted(published, <<f, s>>)
      <4>1. Before(published, f, s)
        BY <1>6, <2>2
      <4> QED
        BY <1>3, <1>4, <4>1, SortedPair
    <3> QED
      BY <1>1, <2>2, <3>1 DEF Takes, heldVars
  <2> QED
    BY <2>1, <2>2
<1>8. /\ LineKnown' /\ LineSorted' /\ LineComplete' /\ NotAhead' /\ inbox' \in Seq(Messages)
      /\ Line' = Range(workQ) \cup Range(inbox') \cup Range(outbox')
      /\ Line = Range(workQ) \cup Range(inbox') \cup {h}
  <2>1. \A m \in Range(outbox') :
            \/ Like(m, Head(inbox)) /\ m.type \in {"job", "prevhash"}
            \/ futureJ # 0 /\ m = Job(futureJ)
    BY <1>1, <1>3, <1>5, <1>7 DEF f
  <2>2. \E m \in Range(outbox') : Like(m, Head(inbox))
    BY <1>5, <1>7
  <2> QED
    BY <1>1, <1>7, <2>1, <2>2, TakenInOrder
<1>9. PipeTypes'
  BY <1>1, <1>7, <1>8 DEF PipeTypes
<1>10. OnePlace'
  <2>1. ASSUME NEW m \in Line', m.type = "job"
        PROVE  m.id \notin shown \cup Range(futureJobs) \cup {0}
    <3>1. CASE m \in Line
      <4>1. m.id \in DOMAIN published /\ m.id \notin shown \cup Range(futureJobs)
        BY <1>1, <2>1, <3>1 DEF LineKnown, OnePlace
      <4> QED
        BY <1>1, <4>1, PipeFacts
    <3>2. CASE m = f /\ futureJ # 0
      BY <1>1, <1>4, <3>2 DEF OnePlace
    <3> QED
      BY <1>1, <1>3, <1>7, <1>8, <2>1, <3>1, <3>2
  <2> QED
    BY <1>1, <1>7, <2>1 DEF OnePlace
<1> QED
  BY <1>8, <1>9, <1>10 DEF PipeInv

LEMMA PassedOn ==
    ASSUME PipeInv, PassesOn, nextBinding' \in Nat
    PROVE  PipeInv'
<1> DEFINE h == Head(outbox)
<1>1. /\ outbox # <<>> /\ workQ' = Append(workQ, h) /\ outbox' = Tail(outbox)
      /\ UNCHANGED <<published, tip, inbox, futureJ, futureJobs, lastPHash, lastNotify, shown>>
  BY DEF PassesOn, heldVars
<1>2. PipeTypes /\ LineKnown /\ LineSorted /\ LineComplete /\ OnePlace /\ NotAhead
  BY DEF PipeInv
<1>3. /\ outbox' \in Seq(Messages) /\ h \in Messages
      /\ Range(outbox) = Range(outbox') \cup {h}
      /\ Sorted(published, outbox') /\ \A m \in Range(outbox') : Before(published, h, m)
  BY <1>1, <1>2, RangeTail, SortedTail DEF PipeTypes, LineSorted
<1>4. /\ workQ' \in Seq(Messages)
      /\ Range(workQ') = Range(workQ) \cup {h}
      /\ Sorted(published, workQ')
  BY <1>1, <1>2, <1>3, RangeAppend, SortedAppend DEF PipeTypes, LineSorted, Ahead
<1>5. Line' = Line
  BY <1>1, <1>3, <1>4 DEF Line
<1>6. LineSorted'
  BY <1>1, <1>2, <1>3, <1>4 DEF LineSorted, Ahead
<1>7. PipeTypes'
  BY <1>1, <1>2, <1>3, <1>4 DEF PipeTypes
<1>8. LineKnown' /\ LineComplete' /\ OnePlace' /\ NotAhead'
  BY <1>1, <1>2, <1>5 DEF LineKnown, LineComplete, OnePlace, NotAhead
<1> QED
  BY <1>6, <1>7, <1>8 DEF PipeInv

-----------------------------------------------------------------------------
(* The bridge *)

\* The bridge takes the head of the line; with a prev hash it moves to its block.
LEMMA WorkedInOrder ==
    ASSUME PipeInv, NEW type \in {"job", "prevhash"}, Works(type),
           lastPHash' = IF type = "prevhash" THEN Head(workQ).block ELSE lastPHash
    PROVE  /\ LineKnown' /\ LineSorted' /\ LineComplete'
           /\ workQ' \in Seq(Messages)
           /\ Line = Line' \cup {Head(workQ)}
           /\ Head(workQ) \in Messages
           /\ \A m \in Line' : Before(published, Head(workQ), m)
           /\ lastPHash' \in lastPHash .. tip
<1> DEFINE h == Head(workQ)
<1>1. /\ workQ # <<>> /\ h.type = type /\ workQ' = Tail(workQ)
      /\ UNCHANGED <<published, tip, inbox, futureJ, outbox>>
  BY DEF Works
<1>2. PipeTypes /\ LineKnown /\ LineSorted /\ LineComplete /\ OnePlace /\ NotAhead
  BY DEF PipeInv
<1>3. /\ workQ' \in Seq(Messages) /\ h \in Messages
      /\ Range(workQ) = Range(workQ') \cup {h}
      /\ Sorted(published, workQ') /\ \A m \in Range(workQ') : Before(published, h, m)
  BY <1>1, <1>2, RangeTail, SortedTail DEF PipeTypes, LineSorted
<1>4. Line = Line' \cup {h}
  BY <1>1, <1>3 DEF Line
<1>5. \A m \in Line' : Before(published, h, m)
  BY <1>1, <1>2, <1>3 DEF Line, LineSorted, Ahead
<1>6. LineSorted'
  BY <1>1, <1>2, <1>3 DEF LineSorted, Ahead
<1>7. /\ tip \in Nat /\ lastPHash \in Nat /\ Line \subseteq Messages
      /\ \A id \in DOMAIN published : published[id].block \in Nat
  BY <1>2, PipeFacts
<1>8. /\ h.type \in {"job", "prevhash"} => h.id \in DOMAIN published
      /\ h.type = "prevhash" => published[h.id].block = h.block /\ lastPHash < h.block
      /\ OnLine(published, h) => BlockOf(published, h) \in lastPHash .. tip
  BY <1>2, <1>4 DEF LineKnown
<1>9. h.type = "prevhash" =>
          /\ OnLine(published, h) /\ BlockOf(published, h) = h.block
          /\ h.block \in lastPHash .. tip /\ h.block \in Nat
  BY <1>3, <1>8, MessageFacts DEF OnLine, BlockOf
<1>10. lastPHash' \in lastPHash .. tip
  BY <1>1, <1>2, <1>7, <1>9 DEF NotAhead
<1> HIDE DEF h
<1>11. LineKnown'
  <2>1. SUFFICES ASSUME NEW m \in Line'
                 PROVE  /\ m.type \in {"job", "prevhash"} => m.id \in DOMAIN published
                        /\ m.type = "prevhash" =>
                               published[m.id].block = m.block /\ lastPHash' < m.block
                        /\ OnLine(published, m) => BlockOf(published, m) \in lastPHash' .. tip
    BY <1>1 DEF LineKnown
  <2>2. /\ m.type \in {"job", "prevhash"} => m.id \in DOMAIN published
        /\ m.type = "prevhash" => published[m.id].block = m.block /\ lastPHash < m.block
        /\ OnLine(published, m) => BlockOf(published, m) \in lastPHash .. tip
    BY <1>2, <1>4 DEF LineKnown
  <2>3. CASE type = "job"
    BY <1>1, <2>2, <2>3
  <2>4. CASE type = "prevhash"
    <3>1. /\ lastPHash' = h.block /\ OnLine(published, h) /\ BlockOf(published, h) = h.block
          /\ h.block \in Nat
      BY <1>1, <1>9, <2>4 DEF h
    <3>2. OnLine(published, m) =>
              /\ h.block <= BlockOf(published, m)
              /\ m.type = "prevhash" => h.block < BlockOf(published, m)
      BY <1>5, <3>1 DEF Before
    <3>3. m.type = "prevhash" => OnLine(published, m) /\ BlockOf(published, m) = m.block
      BY DEF OnLine, BlockOf
    <3> QED
      BY <1>7, <2>2, <3>1, <3>2, <3>3
  <2> QED
    BY <2>3, <2>4
<1>12. LineComplete'
  <2>1. SUFFICES ASSUME NEW b \in lastPHash' + 1 .. tip
                 PROVE  \E m \in Line' : m.type = "prevhash" /\ m.block = b
    BY <1>1 DEF LineComplete
  <2>2. b \in lastPHash + 1 .. tip
    BY <1>7, <1>10
  <2>3. PICK m \in Line : m.type = "prevhash" /\ m.block = b
    BY <1>2, <2>2 DEF LineComplete
  <2>4. m # h
    BY <1>1, <1>7, <1>10, <2>3 DEF h
  <2> QED
    BY <1>4, <2>3, <2>4 DEF h
<1> QED
  BY <1>3, <1>4, <1>5, <1>6, <1>10, <1>11, <1>12 DEF h

\* A job that is not a future one reaches the bridge in its own block: the prev
\* hash of a later block would have to be before it.
LEMMA JobOnItsBlock ==
    ASSUME PipeInv, Works("job"), ~published[Head(workQ).id].future
    PROVE  /\ Head(workQ).id \in DOMAIN published
           /\ published[Head(workQ).id].block = lastPHash
           /\ Head(workQ).id \notin shown
<1> DEFINE h == Head(workQ)
<1>1. /\ workQ # <<>> /\ h.type = "job" /\ workQ' = Tail(workQ)
      /\ UNCHANGED <<published, tip, inbox, futureJ, outbox>>
  BY DEF Works
<1>2. PipeTypes /\ LineKnown /\ LineSorted /\ LineComplete /\ OnePlace /\ NotAhead
  BY DEF PipeInv
<1>3. /\ Range(workQ) = Range(Tail(workQ)) \cup {h}
      /\ \A m \in Range(Tail(workQ)) : Before(published, h, m)
  BY <1>1, <1>2, RangeTail, SortedTail DEF PipeTypes, LineSorted
<1>4. h \in Line
  BY <1>3 DEF Line
<1>5. \A m \in Line : m = h \/ Before(published, h, m)
  BY <1>2, <1>3 DEF Line, LineSorted, Ahead
<1>6. /\ OnLine(published, h) /\ BlockOf(published, h) = published[h.id].block
      /\ h.id \in DOMAIN published /\ h.id \notin shown
      /\ published[h.id].block \in lastPHash .. tip
  BY <1>1, <1>2, <1>4 DEF OnLine, BlockOf, LineKnown, OnePlace
<1>7. lastPHash \in Nat /\ tip \in Nat /\ published[h.id].block \in Nat
  BY <1>2, <1>6, PipeFacts
<1> HIDE DEF h
<1>8. ASSUME published[h.id].block # lastPHash PROVE FALSE
  <2>1. lastPHash + 1 \in lastPHash + 1 .. tip /\ lastPHash + 1 <= published[h.id].block
    BY <1>6, <1>7, <1>8
  <2>2. PICK m \in Line : m.type = "prevhash" /\ m.block = lastPHash + 1
    BY <1>2, <2>1 DEF LineComplete
  <2>3. m # h
    BY <1>1, <2>2 DEF h
  <2>4. OnLine(published, m) /\ BlockOf(published, m) = lastPHash + 1
    BY <2>2 DEF OnLine, BlockOf
  <2>5. BlockOf(published, h) < BlockOf(published, m)
    BY <1>5, <1>6, <2>2, <2>3, <2>4 DEF Before
  <2> QED
    BY <1>6, <1>7, <2>1, <2>4, <2>5
<1> QED
  BY <1>6, <1>8 DEF h

\* What holds of the head of the line.
LEMMA HeadOfLine ==
    ASSUME PipeInv, NEW type \in {"job", "prevhash"}, Works(type)
    PROVE  LET h == Head(workQ)
           IN /\ h \in Line /\ h \in Messages /\ h.type = type
              /\ h.id \in DOMAIN published /\ h.id \in Nat
              /\ type = "job" => h.id \notin shown \cup Range(futureJobs) \cup {futureJ}
              /\ type = "prevhash" =>
                     published[h.id].block = h.block /\ h.block \in lastPHash + 1 .. tip
<1> DEFINE h == Head(workQ)
<1>1. workQ # <<>> /\ h.type = type
  BY DEF Works
<1>2. PipeTypes /\ LineKnown /\ OnePlace
  BY DEF PipeInv
<1>3. h \in Range(workQ) /\ h \in Messages
  BY <1>1, <1>2, RangeTail, SortedTail DEF PipeTypes
<1>4. h \in Line
  BY <1>3 DEF Line
<1>5. h.id \in Nat /\ (type = "prevhash" => h.block \in Nat)
  BY <1>1, <1>3, MessageFacts
<1>6. /\ h.id \in DOMAIN published
      /\ type = "prevhash" => published[h.id].block = h.block /\ lastPHash < h.block
      /\ OnLine(published, h) => BlockOf(published, h) \in lastPHash .. tip
  BY <1>1, <1>2, <1>4 DEF LineKnown
<1>7. type = "prevhash" => h.block \in lastPHash + 1 .. tip
  <2>1. type = "prevhash" => OnLine(published, h) /\ BlockOf(published, h) = h.block
    BY <1>1 DEF OnLine, BlockOf
  <2>2. lastPHash \in Nat /\ tip \in Nat
    BY <1>2, PipeFacts
  <2> QED
    BY <1>5, <1>6, <2>1, <2>2
<1> QED
  BY <1>1, <1>2, <1>3, <1>4, <1>5, <1>6, <1>7 DEF OnePlace

LEMMA JobWorked ==
    ASSUME PipeInv, KeepsFuture \/ ShowsCurrent \/ DropsJob, nextBinding' \in Nat
    PROVE  PipeInv'
<1> DEFINE h == Head(workQ)
<1>1. Works("job") /\ lastPHash' = lastPHash
  BY DEF KeepsFuture, ShowsCurrent, DropsJob, heldVars
<1>2. PipeTypes /\ OnePlace /\ NotAhead
  BY DEF PipeInv
<1>3. /\ LineKnown' /\ LineSorted' /\ LineComplete' /\ workQ' \in Seq(Messages)
      /\ Line = Line' \cup {h}
      /\ \A m \in Line' : Before(published, h, m)
  <2>1. lastPHash' = IF "job" = "prevhash" THEN h.block ELSE lastPHash
    BY <1>1
  <2> QED
    BY <1>1, <2>1, WorkedInOrder
<1>4. UNCHANGED <<published, tip, inbox, futureJ, outbox>>
  BY <1>1 DEF Works
<1>5. /\ h.type = "job" /\ h.id \in DOMAIN published /\ h.id \in Nat
      /\ h.id \notin shown \cup Range(futureJobs) \cup {futureJ}
  BY <1>1, HeadOfLine
<1>6. lastPHash \in Nat /\ tip \in Nat
  BY <1>2, PipeFacts
<1> HIDE DEF h
<1>7. \A m \in Line' : m.type = "job" => m.id # h.id
  BY <1>3, <1>5 DEF Before
<1>8. \A m \in Line' :
          m.type = "job" => m.id \notin shown \cup Range(futureJobs) \cup {futureJ}
  BY <1>2, <1>3 DEF OnePlace
<1>9. CASE KeepsFuture
  <2>1. futureJobs' = Append(futureJobs, h.id) /\ UNCHANGED <<lastNotify, shown>>
    BY <1>9 DEF KeepsFuture, h
  <2>2. /\ futureJobs' \in Seq(Nat)
        /\ Range(futureJobs') = Range(futureJobs) \cup {h.id}
    <3>1. futureJobs \in Seq(Nat) /\ h.id \in Nat
      BY <1>2, <1>5 DEF PipeTypes
    <3>2. /\ Append(futureJobs, h.id) \in Seq(Nat)
          /\ Range(Append(futureJobs, h.id)) = Range(futureJobs) \cup {h.id}
      BY <3>1, RangeAppend
    <3> QED
      BY <2>1, <3>2
  <2>3. PipeTypes'
    BY <1>1, <1>2, <1>3, <1>4, <2>2 DEF PipeTypes
  <2>4. OnePlace'
    BY <1>2, <1>4, <1>5, <1>7, <1>8, <2>1, <2>2 DEF OnePlace
  <2> QED
    BY <1>1, <1>2, <1>3, <1>4, <2>1, <2>3, <2>4 DEF PipeInv, NotAhead
<1>10. CASE ShowsCurrent
  <2>1. /\ lastNotify'.block = lastPHash /\ shown' = shown \cup {h.id}
        /\ futureJobs' = futureJobs
    BY <1>10 DEF ShowsCurrent, Shows, h
  <2>2. PipeTypes'
    BY <1>1, <1>2, <1>3, <1>4, <2>1 DEF PipeTypes
  <2>3. OnePlace'
    BY <1>2, <1>4, <1>5, <1>7, <1>8, <2>1 DEF OnePlace
  <2>4. NotAhead'
    BY <1>1, <1>2, <1>4, <1>6, <2>1 DEF NotAhead
  <2> QED
    BY <1>3, <2>2, <2>3, <2>4 DEF PipeInv
<1>11. CASE DropsJob
  <2>1. UNCHANGED <<futureJobs, lastNotify, shown>>
    BY <1>11 DEF DropsJob, heldVars
  <2>2. PipeTypes'
    BY <1>1, <1>2, <1>3, <1>4, <2>1 DEF PipeTypes
  <2>3. OnePlace'
    BY <1>2, <1>4, <1>8, <2>1 DEF OnePlace
  <2> QED
    BY <1>1, <1>2, <1>3, <1>4, <2>1, <2>2, <2>3 DEF PipeInv, NotAhead
<1> QED
  BY <1>9, <1>10, <1>11

LEMMA PrevHashWorked ==
    ASSUME PipeInv, MovesToBlock \/ ShowsFuture, nextBinding' \in Nat
    PROVE  PipeInv'
<1> DEFINE h == Head(workQ)
<1>1. Works("prevhash") /\ lastPHash' = h.block
  BY DEF MovesToBlock, ShowsFuture
<1>2. PipeTypes /\ OnePlace /\ NotAhead
  BY DEF PipeInv
<1>3. /\ LineKnown' /\ LineSorted' /\ LineComplete' /\ workQ' \in Seq(Messages)
      /\ Line = Line' \cup {h}
  <2>1. lastPHash' = IF "prevhash" = "prevhash" THEN h.block ELSE lastPHash
    BY <1>1
  <2> QED
    BY <1>1, <2>1, WorkedInOrder
<1>4. UNCHANGED <<published, tip, inbox, futureJ, outbox>>
  BY <1>1 DEF Works
<1>5. h.id \in DOMAIN published /\ h.block \in lastPHash + 1 .. tip
  BY <1>1, HeadOfLine
<1>6. lastPHash \in Nat /\ tip \in Nat
  BY <1>2, PipeFacts
<1> HIDE DEF h
<1>7. \A m \in Line' :
          m.type = "job" => m.id \notin shown \cup Range(futureJobs) \cup {futureJ}
  BY <1>2, <1>3 DEF OnePlace
<1>8. << >> \in Seq(Nat) /\ Range(<< >>) = {}
  BY EmptyQueue
<1>9. CASE MovesToBlock
  <2>1. futureJobs' \in {futureJobs, <<>>} /\ UNCHANGED <<lastNotify, shown>>
    BY <1>9 DEF MovesToBlock
  <2>2. futureJobs' \in Seq(Nat) /\ Range(futureJobs') \subseteq Range(futureJobs)
    BY <1>2, <1>8, <2>1 DEF PipeTypes
  <2>3. PipeTypes'
    BY <1>1, <1>2, <1>3, <1>4, <1>5, <1>6, <2>2 DEF PipeTypes
  <2>4. OnePlace'
    BY <1>2, <1>4, <1>7, <2>1, <2>2 DEF OnePlace
  <2>5. NotAhead'
    BY <1>1, <1>2, <1>4, <1>5, <1>6, <2>1 DEF NotAhead
  <2> QED
    BY <1>3, <2>3, <2>4, <2>5 DEF PipeInv
<1>10. CASE ShowsFuture
  <2>1. /\ h.id \in Range(futureJobs) /\ futureJobs' = <<>>
        /\ lastNotify'.block = h.block /\ shown' = shown \cup {h.id}
    BY <1>10 DEF ShowsFuture, Shows, h
  <2>2. PipeTypes'
    BY <1>1, <1>2, <1>3, <1>4, <1>5, <1>6, <1>8, <2>1 DEF PipeTypes
  <2>3. OnePlace'
    BY <1>2, <1>4, <1>5, <1>7, <1>8, <2>1 DEF OnePlace
  <2>4. NotAhead'
    BY <1>1, <1>2, <1>4, <1>5, <1>6, <2>1 DEF NotAhead
  <2> QED
    BY <1>3, <2>2, <2>3, <2>4 DEF PipeInv
<1> QED
  BY <1>9, <1>10

-----------------------------------------------------------------------------
(* The invariant holds *)

EmptyLine ==
    /\ published = <<>> /\ tip = 0 /\ nextBinding \in Nat
    /\ inbox = <<[type |-> "open"]>> /\ futureJ = 0 /\ outbox = <<>>
    /\ workQ = <<>> /\ futureJobs = <<>> /\ lastPHash = 0
    /\ lastNotify = NoNotify /\ shown = {}

LEMMA StartsEmpty == EmptyLine => PipeInv
<1> SUFFICES ASSUME EmptyLine PROVE PipeInv
  OBVIOUS
<1> USE DEF EmptyLine
<1>1. /\ inbox \in Seq(Messages) /\ Range(inbox) = {[type |-> "open"]}
      /\ Sorted(published, inbox)
  BY MessageFacts, SortedShort
<1>2. /\ << >> \in Seq(Messages) /\ << >> \in Seq(Nat) /\ << >> \in Seq(PublishedJob)
      /\ Range(<< >>) = {} /\ Sorted(published, << >>)
  BY EmptyQueue
<1>3. Line = {[type |-> "open"]}
  BY <1>1, <1>2 DEF Line
<1>4. PipeTypes
  BY <1>1, <1>2 DEF PipeTypes
<1>5. LineKnown
  BY <1>3 DEF LineKnown, OnLine
<1>6. LineSorted
  BY <1>1, <1>2 DEF LineSorted, Ahead
<1>7. LineComplete
  BY DEF LineComplete
<1>8. OnePlace
  BY <1>2, <1>3 DEF OnePlace
<1>9. NotAhead
  BY DEF NotAhead, NoNotify
<1> QED
  BY <1>4, <1>5, <1>6, <1>7, <1>8, <1>9 DEF PipeInv

LEMMA LineLeft ==
    ASSUME PipeInv, LeavesLine, nextBinding' \in Nat
    PROVE  PipeInv'
<1>1. UNCHANGED <<published, tip, inbox, futureJ, outbox, workQ, futureJobs, lastPHash,
                  lastNotify, shown>>
  BY DEF LeavesLine, heldVars
<1>2. Line' = Line
  BY <1>1 DEF Line
<1> QED
  BY <1>1, <1>2 DEF PipeInv, PipeTypes, LineKnown, LineSorted, LineComplete, OnePlace, NotAhead

LEMMA PipeStep ==
    ASSUME PipeInv, [PipeNext]_pipeVars
    PROVE  PipeInv'
<1>1. PipeMove /\ nextBinding' \in Nat
  BY PipeMoves DEF PipeInv
<1>2. CASE PublishesJob
  BY <1>1, <1>2, JobPublished
<1>3. CASE PublishesPrevHash
  BY <1>1, <1>3, PrevHashPublished
<1>4. CASE TakesOpen
  BY <1>1, <1>4, OpenTaken
<1>5. CASE TakesFuture
  BY <1>1, <1>5, FutureTaken
<1>6. CASE TakesCurrent
  BY <1>1, <1>6, CurrentTaken
<1>7. CASE TakesPrevHash
  BY <1>1, <1>7, PrevHashTaken
<1>8. CASE PassesOn
  BY <1>1, <1>8, PassedOn
<1>9. CASE KeepsFuture \/ ShowsCurrent \/ DropsJob
  BY <1>1, <1>9, JobWorked
<1>10. CASE MovesToBlock \/ ShowsFuture
  BY <1>1, <1>10, PrevHashWorked
<1>11. CASE StartsAnew
  <2>1. EmptyLine'
    BY <1>1, <1>11 DEF StartsAnew, EmptyLine
  <2> QED
    BY <2>1, StartsEmpty, PTL
<1>12. CASE LeavesLine
  BY <1>1, <1>12, LineLeft
<1> QED
  BY <1>1, <1>2, <1>3, <1>4, <1>5, <1>6, <1>7, <1>8, <1>9, <1>10, <1>11, <1>12 DEF PipeMove

LEMMA PipeInit_PipeInv == PipeInit => PipeInv
<1>1. PipeInit => EmptyLine
  BY DEF PipeInit, FreshTranslator, EmptyLine
<1> QED
  BY <1>1, StartsEmpty

-----------------------------------------------------------------------------
(* The refinement *)

Offers(pub) == [id \in DOMAIN pub |-> pub[id].block]

LEMMA OffersGrow ==
    ASSUME NEW pub \in Seq(PublishedJob), NEW r \in PublishedJob
    PROVE  Offers(Append(pub, r)) = Append(Offers(pub), r.block)
<1> DEFINE a == Append(pub, r)
           o == Offers(pub)
<1>1. /\ DOMAIN pub = 1 .. Len(pub) /\ Len(pub) \in Nat
      /\ \A i \in 1 .. Len(pub) : pub[i] \in PublishedJob
  BY ElementOfSeq, LenProperties
<1>2. /\ a \in Seq(PublishedJob) /\ Len(a) = Len(pub) + 1 /\ a[Len(pub) + 1] = r
      /\ \A i \in 1 .. Len(pub) : a[i] = pub[i]
      /\ DOMAIN a = 1 .. Len(pub) + 1
  BY AppendProperties, LenProperties
<1>3. /\ o \in Seq(Nat) /\ Len(o) = Len(pub)
      /\ \A i \in 1 .. Len(pub) : o[i] = pub[i].block
  <2>1. o = [i \in 1 .. Len(pub) |-> pub[i].block]
    BY <1>1 DEF Offers
  <2>2. \A i \in 1 .. Len(pub) : pub[i].block \in Nat
    BY <1>1 DEF PublishedJob
  <2> HIDE DEF o
  <2> QED
    BY <1>1, <2>1, <2>2
<1>4. Offers(a) = [i \in 1 .. Len(pub) + 1 |-> a[i].block]
  BY <1>2 DEF Offers
<1>5. r.block \in Nat
  BY DEF PublishedJob
<1> HIDE DEF a, o
<1>6. /\ Append(o, r.block) \in Seq(Nat) /\ Len(Append(o, r.block)) = Len(pub) + 1
      /\ \A i \in 1 .. Len(pub) : Append(o, r.block)[i] = o[i]
      /\ Append(o, r.block)[Len(pub) + 1] = r.block
  BY <1>1, <1>3, <1>5, AppendProperties
<1>7. Append(o, r.block) = [i \in 1 .. Len(pub) + 1 |-> Append(o, r.block)[i]]
  BY <1>6, LenProperties
<1>8. ASSUME NEW i \in 1 .. Len(pub) + 1 PROVE Append(o, r.block)[i] = a[i].block
  <2>1. CASE i = Len(pub) + 1
    BY <1>2, <1>6, <2>1
  <2>2. CASE i # Len(pub) + 1
    <3>1. i \in 1 .. Len(pub)
      BY <1>1, <2>2
    <3> QED
      BY <1>2, <1>3, <1>6, <3>1
  <2> QED
    BY <2>1, <2>2
<1>9. Offers(a) = Append(o, r.block)
  BY <1>4, <1>7, <1>8
<1> QED
  BY <1>9 DEF a, o

\* What the miners see changes by a step of JobFeed, or not at all.
LEMMA FeedOfMove ==
    ASSUME PipeInv, [PipeNext]_pipeVars
    PROVE  [Feed!FeedNext]_(Feed!feedVars)
<1> USE DEF heldVars
<1>1. PipeMove
  BY PipeMoves DEF PipeInv
<1>2. PipeTypes /\ NotAhead /\ OnePlace
  BY DEF PipeInv
<1>3. /\ tip \in Nat /\ lastPHash \in Nat
      /\ \A id \in DOMAIN published : published[id].block \in Nat
      /\ published \in Seq(PublishedJob)
  BY <1>2, PipeFacts DEF PipeTypes
<1>4. CASE PublishesJob
  <2>1. PICK future \in BOOLEAN, binding \in Nat :
            published' = Append(published, [future |-> future, binding |-> binding,
                                            block |-> IF future THEN tip + 1 ELSE tip])
    BY <1>4 DEF PublishesJob
  <2> DEFINE r == [future |-> future, binding |-> binding,
                   block |-> IF future THEN tip + 1 ELSE tip]
  <2>2. r \in PublishedJob /\ r.block \in {tip, tip + 1}
    BY <1>3 DEF PublishedJob
  <2>3. published' = Append(published, r)
    BY <2>1
  <2> HIDE DEF r
  <2>4. Offers(published') = Append(Offers(published), r.block)
    BY <1>3, <2>2, <2>3, OffersGrow
  <2>5. UNCHANGED <<tip, lastNotify, shown>>
    BY <1>4 DEF PublishesJob
  <2>6. Feed!Offer
    BY <2>2, <2>4, <2>5 DEF Feed!Offer, Offers
  <2> QED
    BY <2>6 DEF Feed!FeedNext
<1>5. CASE PublishesPrevHash
  <2>1. Feed!Advance
    BY <1>5 DEF PublishesPrevHash, Feed!Advance
  <2> QED
    BY <2>1 DEF Feed!FeedNext
<1>6. ASSUME NEW id \in DOMAIN published, id \notin shown,
             lastNotify'.job = id, shown' = shown \cup {id},
             lastNotify'.block = published[id].block,
             published[id].block \in lastNotify.block .. tip,
             UNCHANGED <<published, tip>>
      PROVE  Feed!FeedNext
  <2>1. Offers(published)[id] = published[id].block /\ DOMAIN Offers(published) = DOMAIN published
    BY DEF Offers
  <2>2. Feed!Show(id)
    BY <1>6, <2>1 DEF Feed!Show, Offers
  <2> QED
    BY <2>1, <2>2 DEF Feed!FeedNext, Offers
<1>7. CASE ShowsCurrent
  <2> DEFINE id == Head(workQ).id
  <2>1. /\ Works("job") /\ ~published[id].future /\ UNCHANGED <<published, tip>>
        /\ lastNotify'.job = id /\ lastNotify'.block = lastPHash /\ shown' = shown \cup {id}
    BY <1>7 DEF ShowsCurrent, Shows, Works
  <2>2. id \in DOMAIN published /\ published[id].block = lastPHash /\ id \notin shown
    BY <2>1, JobOnItsBlock
  <2>3. published[id].block \in lastNotify.block .. tip
    BY <1>2, <1>3, <2>2 DEF NotAhead
  <2> QED
    BY <1>6, <2>1, <2>2, <2>3
<1>8. CASE ShowsFuture
  <2> DEFINE id == Head(workQ).id
  <2>1. /\ Works("prevhash") /\ id \in Range(futureJobs) /\ UNCHANGED <<published, tip>>
        /\ lastNotify'.job = id /\ lastNotify'.block = Head(workQ).block
        /\ shown' = shown \cup {id}
    BY <1>8 DEF ShowsFuture, Shows, Works
  <2>2. /\ id \in DOMAIN published /\ published[id].block = Head(workQ).block
        /\ Head(workQ).block \in lastPHash + 1 .. tip
    BY <2>1, HeadOfLine
  <2>3. published[id].block \in lastNotify.block .. tip
    BY <1>2, <1>3, <2>2 DEF NotAhead
  <2>4. id \notin shown
    BY <1>2, <2>1 DEF OnePlace
  <2> QED
    BY <1>6, <2>1, <2>2, <2>3, <2>4
<1>9. CASE StartsAnew
  <2>1. Offers(<<>>) = <<>>
    BY DEF Offers
  <2>2. Feed!NewSession
    BY <1>9, <2>1 DEF StartsAnew, Feed!NewSession, Feed!NoWork, NoNotify, Offers
  <2> QED
    BY <2>2 DEF Feed!FeedNext
<1>10. CASE \/ TakesOpen \/ TakesFuture \/ TakesCurrent \/ TakesPrevHash \/ PassesOn
            \/ KeepsFuture \/ DropsJob \/ MovesToBlock \/ LeavesLine
  <2>1. UNCHANGED <<published, tip, lastNotify, shown>>
    BY <1>10 DEF TakesOpen, TakesFuture, TakesCurrent, TakesPrevHash, Takes, PassesOn,
                 KeepsFuture, DropsJob, MovesToBlock, Works, LeavesLine
  <2> QED
    BY <2>1 DEF Feed!feedVars
<1> QED
  BY <1>1, <1>4, <1>5, <1>7, <1>8, <1>9, <1>10 DEF PipeMove

\* Through hold-back, coalescing and the shared FIFO between the translator's
\* upstream loop and its bridge, the miners see what JobFeed promises, for every
\* number of jobs, blocks and sessions and every capacity of the work channel:
\* each job at most once, on the block it was made for, never going back.
THEOREM PipelineImplementsFeed == PipeSpec => ImplementsFeed
<1>1. PipeInit => PipeInv
  BY PipeInit_PipeInv
<1>2. PipeInv /\ [PipeNext]_pipeVars => PipeInv'
  BY PipeStep
<1>3. PipeInit => Feed!FeedInit
  <2>1. Offers(<<>>) = <<>>
    BY DEF Offers
  <2> QED
    BY <2>1 DEF PipeInit, FreshTranslator, Feed!FeedInit, Feed!NoWork, NoNotify, Offers
<1>4. PipeInv /\ [PipeNext]_pipeVars => [Feed!FeedNext]_(Feed!feedVars)
  BY FeedOfMove
<1> QED
  BY <1>1, <1>2, <1>3, <1>4, PTL DEF PipeSpec, ImplementsFeed, Feed!FeedSpec

-----------------------------------------------------------------------------
(* The announcements a binding travels in *)

Announcements == [job : Nat, binding : Nat]

\* r is a without its first k entries.
Later(a, r, k) ==
    /\ k \in 0 .. Len(a)
    /\ r \in Seq(Announcements) /\ Len(r) = Len(a) - k
    /\ \A i \in 1 .. Len(r) : r[i] = a[i + k]

BindingsOf(a) == {x.binding : x \in Range(a)}

\* No binding is announced for two jobs.
OnceBound(a) ==
    \A i, j \in 1 .. Len(a) : i # j /\ a[i].binding = a[j].binding => a[i].binding = NoId

LEMMA LaterFacts ==
    ASSUME NEW a \in Seq(Announcements), NEW r, NEW k, Later(a, r, k)
    PROVE  /\ Range(r) \subseteq Range(a)
           /\ OnceBound(a) => OnceBound(r)
           /\ \A p \in 1 .. k : a[p] \in Range(a)
           /\ OnceBound(a) =>
                  \A p \in 1 .. k : a[p].binding \in BindingsOf(r) => a[p].binding = NoId
<1>1. /\ Range(a) = {a[i] : i \in 1 .. Len(a)} /\ Len(a) \in Nat
      /\ Range(r) = {r[i] : i \in 1 .. Len(r)} /\ Len(r) \in Nat
  BY RangeFacts DEF Later
<1>2. /\ k \in 0 .. Len(a) /\ Len(r) = Len(a) - k
      /\ \A i \in 1 .. Len(r) : r[i] = a[i + k] /\ i + k \in 1 .. Len(a)
  BY <1>1 DEF Later
<1>3. Range(r) \subseteq Range(a)
  BY <1>1, <1>2
<1>4. ASSUME OnceBound(a) PROVE OnceBound(r)
  <2> SUFFICES ASSUME NEW i \in 1 .. Len(r), NEW j \in 1 .. Len(r), i # j,
                      r[i].binding = r[j].binding
               PROVE  r[i].binding = NoId
    BY DEF OnceBound
  <2>1. i + k \in 1 .. Len(a) /\ j + k \in 1 .. Len(a) /\ i + k # j + k
    BY <1>1, <1>2
  <2> QED
    BY <1>2, <1>4, <2>1 DEF OnceBound
<1>5. ASSUME NEW p \in 1 .. k PROVE a[p] \in Range(a)
  BY <1>1, <1>2
<1>6. ASSUME OnceBound(a), NEW p \in 1 .. k, a[p].binding \in BindingsOf(r)
      PROVE  a[p].binding = NoId
  <2>1. PICK i \in 1 .. Len(r) : a[p].binding = r[i].binding
    BY <1>1, <1>6 DEF BindingsOf
  <2>2. p \in 1 .. Len(a) /\ i + k \in 1 .. Len(a) /\ p # i + k
    BY <1>1, <1>2
  <2> QED
    BY <1>2, <1>6, <2>1, <2>2 DEF OnceBound
<1> QED
  BY <1>3, <1>4, <1>5, <1>6

LEMMA BoundOnceMore ==
    ASSUME NEW r \in Seq(Announcements), NEW x \in Announcements,
           OnceBound(r), x.binding \in BindingsOf(r) => x.binding = NoId
    PROVE  OnceBound(Append(r, x))
<1> DEFINE a == Append(r, x)
<1>1. /\ Len(r) \in Nat /\ Len(a) = Len(r) + 1 /\ a[Len(r) + 1] = x
      /\ \A i \in 1 .. Len(r) : a[i] = r[i]
  BY AppendProperties, LenProperties
<1>2. \A i \in 1 .. Len(r) : r[i].binding \in BindingsOf(r)
  BY RangeFacts DEF BindingsOf
<1> HIDE DEF a
<1>3. SUFFICES ASSUME NEW i \in 1 .. Len(a), NEW j \in 1 .. Len(a), i # j,
                      a[i].binding = a[j].binding
               PROVE  a[i].binding = NoId
  BY DEF OnceBound, a
<1>4. CASE i \in 1 .. Len(r) /\ j \in 1 .. Len(r)
  BY <1>1, <1>3, <1>4 DEF OnceBound
<1>5. CASE i = Len(r) + 1 /\ j \in 1 .. Len(r)
  BY <1>1, <1>2, <1>3, <1>5
<1>6. CASE j = Len(r) + 1 /\ i \in 1 .. Len(r)
  BY <1>1, <1>2, <1>3, <1>6
<1> QED
  BY <1>1, <1>3, <1>4, <1>5, <1>6

\* announce_job drops the oldest announcement of a full queue.
LEMMA EnqueueLater ==
    ASSUME NEW a \in Seq(Announcements), NEW x
    PROVE  \E r, k : Later(a, r, k) /\ Enqueue(a, x) = Append(r, x)
<1>1. CASE Len(a) >= MaxAnnouncements
  <2>1. a # <<>>
    BY <1>1, ContextAssumption
  <2>2. Later(a, Tail(a), 1)
    <3> DEFINE r == Tail(a)
    <3>1. /\ r \in Seq(Announcements) /\ Len(a) \in Nat /\ Len(a) >= 1 /\ Len(r) = Len(a) - 1
          /\ \A i \in 1 .. Len(a) - 1 : r[i] = a[i + 1]
      BY <2>1, RangeTail
    <3> HIDE DEF r
    <3>2. Later(a, r, 1)
      BY <3>1 DEF Later
    <3> QED
      BY <3>2 DEF r
  <2> QED
    BY <1>1, <2>2 DEF Enqueue
<1>2. CASE ~(Len(a) >= MaxAnnouncements)
  <2>1. Later(a, a, 0)
    BY LenProperties DEF Later
  <2> QED
    BY <1>2, <2>1 DEF Enqueue
<1> QED
  BY <1>1, <1>2

\* What claim_job_binding_pending leaves of the announcements.
Unclaimed(job) ==
    IF AnnouncedAt(job) = {} THEN announcements
    ELSE SubSeq(announcements, Min(AnnouncedAt(job)) + 1, Len(announcements))

LEMMA ClaimLater ==
    ASSUME announcements \in Seq(Announcements), NEW job
    PROVE  \E k : /\ Later(announcements, Unclaimed(job), k)
                  /\ \/ ClaimedBinding(job) = NoId
                     \/ \E p \in 1 .. k : /\ announcements[p].job = job
                                          /\ announcements[p].binding = ClaimedBinding(job)
<1>0. Len(announcements) \in Nat
  BY LenProperties
<1>1. CASE AnnouncedAt(job) = {}
  <2>1. Later(announcements, announcements, 0)
    BY <1>0 DEF Later
  <2> QED
    BY <1>1, <2>1 DEF Unclaimed, ClaimedBinding
<1>2. CASE AnnouncedAt(job) # {}
  <2> DEFINE p == Min(AnnouncedAt(job))
             r == SubSeq(announcements, p + 1, Len(announcements))
  <2>1. AnnouncedAt(job) \in SUBSET Nat
    BY <1>0 DEF AnnouncedAt
  <2>2. p \in AnnouncedAt(job)
    BY <1>2, <2>1, MinIsMember
  <2> HIDE DEF p
  <2>3. p \in 1 .. Len(announcements) /\ announcements[p].job = job
    BY <2>2 DEF AnnouncedAt
  <2>4. Unclaimed(job) = r /\ ClaimedBinding(job) = announcements[p].binding
    BY <1>2 DEF Unclaimed, ClaimedBinding, p
  <2>5. /\ r \in Seq(Announcements) /\ Len(r) = Len(announcements) - p
        /\ \A i \in 1 .. Len(r) : r[i] = announcements[i + p]
    <3>1. p + 1 \in 1 .. Len(announcements) + 1 /\ Len(announcements) \in p .. Len(announcements)
      BY <1>0, <2>3
    <3> QED
      BY <1>0, <2>3, <3>1, SubSeqProperties
  <2> HIDE DEF r
  <2>6. Later(announcements, r, p)
    BY <1>0, <2>3, <2>5 DEF Later
  <2>7. p \in 1 .. p
    BY <2>3
  <2> QED
    BY <2>3, <2>4, <2>6, <2>7
<1> QED
  BY <1>1, <1>2

-----------------------------------------------------------------------------
(* The invariant about bindings *)

Claims == {claimed[id] : id \in DOMAIN claimed}
OnceClaimed(f) == \A i, j \in DOMAIN f : i # j /\ f[i] = f[j] => f[i] = NoId

\* Every identifier is below the counter, and what is protected is a binding.
BindTypes ==
    /\ announcements \in Seq(Announcements)
    /\ nextBinding \in Nat \ {0}
    /\ NoId \notin DOMAIN claimed
    /\ BindingsOf(announcements) \cup Claims \cup {active} \subseteq 0 .. nextBinding - 1
    /\ pending \cup leftover \cup DOMAIN jobs \subseteq 1 .. nextBinding - 1

\* A binding is announced, claimed or left behind by an earlier session, for one job.
Apart ==
    /\ BindingsOf(announcements) \cap (Claims \cup pending \cup leftover) \subseteq {NoId}
    /\ Claims \cap leftover = {}
    /\ OnceBound(announcements) /\ OnceClaimed(claimed)

\* The announcements of the session name its jobs with their bindings.
Owned ==
    /\ lastNotify.job \in DOMAIN published \cup {0}
    /\ DOMAIN claimed \subseteq DOMAIN published
    /\ ~stale =>
           /\ \A x \in Range(announcements) :
                  x.job \in DOMAIN published /\ x.binding = published[x.job].binding
           /\ \A id \in DOMAIN claimed : claimed[id] \in {NoId, published[id].binding}
           /\ lastNotify.job # 0 => active \in {NoId, published[lastNotify.job].binding}

\* Jobs that are claimed and not notified.
QueuedIds == {m.id : m \in Queued}
Flying == InFlight \ {0}

Alive == loop = "running" /\ bridge # "ended"
BindInv == BindTypes /\ Apart /\ Owned /\ PendingIsQueued

LEMMA BindingFacts ==
    ASSUME BindTypes
    PROVE  /\ \A id : Binding(id) \in Claims \cup {NoId}
           /\ \A id : Binding(id) # NoId => id \in DOMAIN claimed /\ Binding(id) = claimed[id]
           /\ Binding(0) = NoId
           /\ NoId \notin pending \cup leftover \cup DOMAIN jobs
           /\ nextBinding \notin BindingsOf(announcements) \cup Claims \cup {active}
                                     \cup pending \cup leftover \cup DOMAIN jobs
<1>1. nextBinding \notin 0 .. nextBinding - 1 /\ nextBinding \notin 1 .. nextBinding - 1
  BY DEF BindTypes
<1>2. \A id : \/ id \in DOMAIN claimed /\ Binding(id) = claimed[id] /\ claimed[id] \in Claims
              \/ id \notin DOMAIN claimed /\ Binding(id) = NoId
  BY DEF Binding, Claims
<1>3. 0 \notin DOMAIN claimed /\ NoId \notin 1 .. nextBinding - 1
  BY DEF BindTypes, NoId
<1>4. Binding(0) = NoId
  BY <1>2, <1>3
<1>5. /\ NoId \notin pending \cup leftover \cup DOMAIN jobs
      /\ nextBinding \notin BindingsOf(announcements) \cup Claims \cup {active}
                                \cup pending \cup leftover \cup DOMAIN jobs
  BY <1>1, <1>3 DEF BindTypes
<1> QED
  BY <1>2, <1>4, <1>5

LEMMA InFlightIds == InFlight = {futureJ} \cup QueuedIds \cup Range(futureJobs)
BY DEF InFlight, QueuedIds

LEMMA PendingFlying ==
    ASSUME BindTypes
    PROVE  PendingIsQueued <=> (Alive => pending = (Bindings(Flying) \cap DOMAIN jobs) \cup leftover)
<1>1. Bindings(Flying) \cap DOMAIN jobs = Bindings(InFlight) \cap DOMAIN jobs
  BY BindingFacts DEF Bindings, Flying
<1> QED
  BY <1>1 DEF PendingIsQueued, Alive

-----------------------------------------------------------------------------
(* What a step does to the bindings, whichever action takes it *)

NewJob(r) == r \in PublishedJob /\ published' = Append(published, r)

keptVars == <<active, pending, claimed, leftover, stale, loop, bridge, lastNotify>>

\* A job is published with a new binding; e is the binding that is retired for it.
Binds ==
    /\ \E r : NewJob(r) /\ r.binding = nextBinding
    /\ announcements' = Enqueue(announcements, [job |-> Len(published) + 1,
                                                binding |-> nextBinding])
    /\ nextBinding' = nextBinding + 1
    /\ DOMAIN jobs' \subseteq DOMAIN jobs \cup {nextBinding}
    /\ pending \cap DOMAIN jobs \subseteq DOMAIN jobs'
    /\ Flying' = Flying
    /\ UNCHANGED keptVars
Announces ==
    /\ \E r : NewJob(r) /\ r.binding = NoId
    /\ announcements' = Enqueue(announcements, [job |-> Len(published) + 1, binding |-> NoId])
    /\ Flying' = Flying
    /\ UNCHANGED <<nextBinding, jobs, keptVars>>
PublishesOnly ==
    /\ \E r : NewJob(r)
    /\ Flying' = Flying
    /\ UNCHANGED <<nextBinding, jobs, announcements, keptVars>>
\* A job is claimed, and S is given up.
Claiming(id, S) ==
    /\ id \in DOMAIN published /\ id # 0 /\ id \notin Flying
    /\ announcements' = Unclaimed(id)
    /\ claimed' = Put(claimed, id, ClaimedBinding(id))
    /\ pending' = (pending \cup ({ClaimedBinding(id)} \cap DOMAIN jobs)) \ Bindings(S)
    /\ S \subseteq Flying \cup {0}
    /\ Flying' = (Flying \ S) \cup {id}
    /\ UNCHANGED <<nextBinding, jobs, active, leftover, stale, loop, bridge, lastNotify,
                   published>>
Releasing(S) ==
    /\ pending' = pending \ Bindings(S)
    /\ Flying' = Flying \ S
    /\ UNCHANGED <<nextBinding, jobs, announcements, claimed, leftover, stale, published>>
\* Jobs are given up.
Releases ==
    /\ \E S : Releasing(S)
    /\ UNCHANGED <<active, lastNotify>>
    /\ Alive' => Alive
\* A job is notified.
Activates ==
    /\ \E id, S :
        /\ Releasing(S)
        /\ id \in DOMAIN published
        /\ active' = IF Binding(id) \in DOMAIN jobs THEN Binding(id) ELSE NoId
        /\ lastNotify'.job = id
    /\ Alive' => Alive
\* A task of the session ends.
Loses ==
    /\ ~Alive'
    /\ pending' \subseteq pending
    /\ UNCHANGED <<nextBinding, jobs, announcements, claimed, leftover, stale, published,
                   active, lastNotify>>
\* The next session.
Begins ==
    /\ announcements' \in {announcements, <<>>}
    /\ ~stale' => announcements' = <<>>
    /\ pending' \subseteq pending /\ leftover' = pending'
    /\ claimed' = <<>> /\ published' = <<>> /\ lastNotify' = NoNotify
    /\ Flying' = {}
    /\ UNCHANGED <<nextBinding, jobs, active>>

BindMove ==
    \/ Binds \/ Announces \/ PublishesOnly
    \/ \E id, S : Claiming(id, S)
    \/ Releases \/ Activates \/ Loses \/ Begins

-----------------------------------------------------------------------------
(* Every move keeps the invariant *)

LEMMA NewJobFacts ==
    ASSUME PipeTypes, NEW r, NewJob(r)
    PROVE  /\ DOMAIN published = 1 .. Len(published) /\ Len(published) \in Nat
           /\ DOMAIN published' = DOMAIN published \cup {Len(published) + 1}
           /\ published'[Len(published) + 1] = r
           /\ \A id \in DOMAIN published : published'[id] = published[id]
<1> DEFINE q == Append(published, r)
<1>1. /\ q \in Seq(PublishedJob) /\ Len(q) = Len(published) + 1 /\ q[Len(published) + 1] = r
      /\ \A i \in 1 .. Len(published) : q[i] = published[i]
  BY AppendProperties DEF PipeTypes, NewJob
<1>2. DOMAIN published = 1 .. Len(published) /\ Len(published) \in Nat
  BY LenProperties DEF PipeTypes
<1>3. DOMAIN q = 1 .. Len(q)
  BY <1>1, LenProperties
<1> HIDE DEF q
<1>4. published' = q
  BY DEF NewJob, q
<1> QED
  BY <1>1, <1>2, <1>3, <1>4

\* A published job and its announcement, with or without a binding.
LEMMA OwnedByNewJob ==
    ASSUME PipeTypes, Owned, NEW r, NewJob(r),
           UNCHANGED <<lastNotify, claimed, stale, active>>,
           \A x \in Range(announcements)' :
               \/ x \in Range(announcements)
               \/ x.job = Len(published) + 1 /\ x.binding = r.binding
    PROVE  Owned'
<1> USE DEF Owned
<1>1. /\ DOMAIN published' = DOMAIN published \cup {Len(published) + 1}
      /\ published'[Len(published) + 1] = r
      /\ \A id \in DOMAIN published : published'[id] = published[id]
  BY NewJobFacts
<1>2. lastNotify'.job \in DOMAIN published' \cup {0} /\ DOMAIN claimed' \subseteq DOMAIN published'
  BY <1>1
<1>3. ASSUME ~stale' PROVE
          /\ \A x \in Range(announcements)' :
                 x.job \in DOMAIN published' /\ x.binding = published'[x.job].binding
          /\ \A id \in DOMAIN claimed' : claimed'[id] \in {NoId, published'[id].binding}
          /\ lastNotify'.job # 0 => active' \in {NoId, published'[lastNotify'.job].binding}
  <2>1. ASSUME NEW x \in Range(announcements)'
        PROVE  x.job \in DOMAIN published' /\ x.binding = published'[x.job].binding
    <3>1. CASE x \in Range(announcements)
      BY <1>1, <1>3, <3>1
    <3>2. CASE x.job = Len(published) + 1 /\ x.binding = r.binding
      BY <1>1, <3>2
    <3> QED
      BY <2>1, <3>1, <3>2
  <2>2. ASSUME NEW id \in DOMAIN claimed' PROVE claimed'[id] \in {NoId, published'[id].binding}
    BY <1>1, <1>3
  <2>3. ASSUME lastNotify'.job # 0
        PROVE  active' \in {NoId, published'[lastNotify'.job].binding}
    BY <1>1, <1>3, <2>3
  <2> QED
    BY <2>1, <2>2, <2>3
<1> QED
  BY <1>2, <1>3

\* announce_job: what an announcement with a binding b adds.
LEMMA Announcing ==
    ASSUME BindTypes, Apart, NEW b \in Nat, b = NoId \/ b = nextBinding,
           NEW j \in Nat,
           announcements' = Enqueue(announcements, [job |-> j, binding |-> b])
    PROVE  /\ announcements' \in Seq(Announcements)
           /\ \A x \in Range(announcements') :
                  x \in Range(announcements) \/ (x.job = j /\ x.binding = b)
           /\ BindingsOf(announcements') \subseteq BindingsOf(announcements) \cup {b}
           /\ OnceBound(announcements')
<1> DEFINE x == [job |-> j, binding |-> b]
<1>1. x \in Announcements /\ x.job = j /\ x.binding = b
  BY DEF Announcements
<1>2. announcements \in Seq(Announcements) /\ OnceBound(announcements)
  BY DEF BindTypes, Apart
<1> HIDE DEF x
<1>3. announcements' = Enqueue(announcements, x)
  BY DEF x
<1>4. PICK r, k : Later(announcements, r, k) /\ Enqueue(announcements, x) = Append(r, x)
  BY <1>2, EnqueueLater
<1>5. r \in Seq(Announcements) /\ Range(r) \subseteq Range(announcements) /\ OnceBound(r)
  BY <1>2, <1>4, LaterFacts DEF Later
<1>6. /\ Append(r, x) \in Seq(Announcements)
      /\ Range(Append(r, x)) = Range(r) \cup {x}
  BY <1>1, <1>5, RangeAppend
<1>7. BindingsOf(r) \subseteq BindingsOf(announcements) /\ nextBinding \notin BindingsOf(announcements)
  BY <1>5, BindingFacts DEF BindingsOf
<1>8. x.binding \in BindingsOf(r) => x.binding = NoId
  BY <1>1, <1>7
<1>9. OnceBound(Append(r, x))
  BY <1>1, <1>5, <1>8, BoundOnceMore
<1>10. BindingsOf(Append(r, x)) \subseteq BindingsOf(announcements) \cup {b}
  BY <1>1, <1>5, <1>6 DEF BindingsOf
<1> QED
  BY <1>1, <1>3, <1>4, <1>5, <1>6, <1>9, <1>10

LEMMA BoundKept ==
    ASSUME PipeTypes, BindInv, Binds
    PROVE  BindInv'
<1> USE DEF keptVars
<1>1. PICK r : NewJob(r) /\ r.binding = nextBinding
  BY DEF Binds
<1>2. Len(published) + 1 \in Nat
  BY <1>1, NewJobFacts
<1>3. BindTypes /\ Apart /\ Owned
  BY DEF BindInv
<1>4. nextBinding \in Nat /\ nextBinding' = nextBinding + 1 /\ UNCHANGED keptVars
  BY <1>3 DEF Binds, BindTypes
<1>5. /\ announcements' \in Seq(Announcements)
      /\ \A x \in Range(announcements') :
             x \in Range(announcements) \/ (x.job = Len(published) + 1 /\ x.binding = nextBinding)
      /\ BindingsOf(announcements') \subseteq BindingsOf(announcements) \cup {nextBinding}
      /\ OnceBound(announcements')
  BY <1>2, <1>3, <1>4, Announcing DEF Binds
<1>6. /\ 0 .. nextBinding - 1 \subseteq 0 .. nextBinding' - 1
      /\ 1 .. nextBinding - 1 \subseteq 1 .. nextBinding' - 1
      /\ nextBinding \in 0 .. nextBinding' - 1 /\ nextBinding \in 1 .. nextBinding' - 1
  BY <1>3, <1>4 DEF BindTypes
<1>7. BindTypes'
  <2>1. DOMAIN jobs' \subseteq DOMAIN jobs \cup {nextBinding}
    BY DEF Binds
  <2>2. Claims' = Claims
    BY <1>4 DEF Claims
  <2> QED
    BY <1>3, <1>4, <1>5, <1>6, <2>1, <2>2 DEF BindTypes
<1>8. Apart'
  <2>1. nextBinding \notin Claims \cup pending \cup leftover /\ Claims' = Claims
    BY <1>3, <1>4, BindingFacts DEF Claims
  <2> QED
    BY <1>3, <1>4, <1>5, <2>1 DEF Apart
<1>9. Owned'
  BY <1>1, <1>3, <1>4, <1>5, OwnedByNewJob
<1>10. PendingIsQueued'
  <2>1. Bindings(Flying)' = Bindings(Flying)
    BY <1>4 DEF Binds, Bindings, Binding
  <2>2. nextBinding \notin Bindings(Flying)
    <3>1. nextBinding # NoId /\ nextBinding \notin Claims
      BY <1>3, BindingFacts DEF BindTypes, NoId
    <3> QED
      BY <1>3, <3>1, BindingFacts DEF Bindings
  <2>3. SUFFICES ASSUME Alive'
                 PROVE  pending' = (Bindings(Flying)' \cap DOMAIN jobs') \cup leftover'
    <3>1. (PendingIsQueued <=>
              (Alive => pending = (Bindings(Flying) \cap DOMAIN jobs) \cup leftover))'
      BY <1>7, PendingFlying, PTL
    <3> QED
      BY <3>1
  <2>4. Alive /\ pending = (Bindings(Flying) \cap DOMAIN jobs) \cup leftover
    BY <1>3, <1>4, <2>3, PendingFlying DEF BindInv, Alive
  <2>5. /\ DOMAIN jobs' \subseteq DOMAIN jobs \cup {nextBinding}
        /\ pending \cap DOMAIN jobs \subseteq DOMAIN jobs'
    BY DEF Binds
  <2> QED
    BY <1>4, <2>1, <2>2, <2>4, <2>5
<1> QED
  BY <1>7, <1>8, <1>9, <1>10 DEF BindInv

LEMMA AnnouncedKept ==
    ASSUME PipeTypes, BindInv, Announces
    PROVE  BindInv'
<1> USE DEF keptVars
<1>1. PICK r : NewJob(r) /\ r.binding = NoId
  BY DEF Announces
<1>2. Len(published) + 1 \in Nat /\ NoId \in Nat
  BY <1>1, NewJobFacts DEF NoId
<1>3. BindTypes /\ Apart /\ Owned /\ PendingIsQueued
  BY DEF BindInv
<1>4. UNCHANGED <<nextBinding, jobs, keptVars>> /\ Flying' = Flying /\ Claims' = Claims
  BY DEF Announces, Claims
<1>5. /\ announcements' \in Seq(Announcements)
      /\ \A x \in Range(announcements') :
             x \in Range(announcements) \/ (x.job = Len(published) + 1 /\ x.binding = NoId)
      /\ BindingsOf(announcements') \subseteq BindingsOf(announcements) \cup {NoId}
      /\ OnceBound(announcements')
  BY <1>2, <1>3, Announcing DEF Announces
<1>6. BindTypes'
  <2>1. NoId \in 0 .. nextBinding - 1
    BY <1>3 DEF BindTypes, NoId
  <2> QED
    BY <1>3, <1>4, <1>5, <2>1 DEF BindTypes
<1>7. Apart'
  BY <1>3, <1>4, <1>5 DEF Apart
<1>8. Owned'
  BY <1>1, <1>3, <1>4, <1>5, OwnedByNewJob
<1>9. PendingIsQueued'
  <2>1. Bindings(Flying)' = Bindings(Flying) /\ Alive' = Alive
    BY <1>4 DEF Bindings, Binding, Alive
  <2>2. (PendingIsQueued <=>
            (Alive => pending = (Bindings(Flying) \cap DOMAIN jobs) \cup leftover))'
    BY <1>6, PendingFlying, PTL
  <2> QED
    BY <1>3, <1>4, <2>1, <2>2, PendingFlying
<1> QED
  BY <1>6, <1>7, <1>8, <1>9 DEF BindInv

LEMMA PublishedKept ==
    ASSUME PipeTypes, BindInv, PublishesOnly
    PROVE  BindInv'
<1> USE DEF keptVars
<1>1. PICK r : NewJob(r)
  BY DEF PublishesOnly
<1>2. BindTypes /\ Apart /\ Owned /\ PendingIsQueued
  BY DEF BindInv
<1>3. /\ UNCHANGED <<nextBinding, jobs, announcements, keptVars>> /\ Flying' = Flying
      /\ Claims' = Claims
  BY DEF PublishesOnly, Claims
<1>4. BindTypes'
  BY <1>2, <1>3 DEF BindTypes
<1>5. Apart'
  BY <1>2, <1>3 DEF Apart
<1>6. Owned'
  <2>1. Range(announcements)' = Range(announcements)
    BY <1>3
  <2> QED
    BY <1>1, <1>2, <1>3, <2>1, OwnedByNewJob
<1>7. PendingIsQueued'
  <2>1. Bindings(Flying)' = Bindings(Flying) /\ Alive' = Alive
    BY <1>3 DEF Bindings, Binding, Alive
  <2>2. (PendingIsQueued <=>
            (Alive => pending = (Bindings(Flying) \cap DOMAIN jobs) \cup leftover))'
    BY <1>4, PendingFlying, PTL
  <2> QED
    BY <1>2, <1>3, <2>1, <2>2, PendingFlying
<1> QED
  BY <1>4, <1>5, <1>6, <1>7 DEF BindInv

\* A binding that is taken off pending is of no other job on its way.
LEMMA NotAnothers ==
    ASSUME BindTypes, Apart, NEW S, NEW id, id \notin S, Binding(id) # NoId
    PROVE  Binding(id) \notin Bindings(S)
<1> SUFFICES ASSUME NEW s \in S, Binding(s) = Binding(id) PROVE FALSE
  BY DEF Bindings
<1>1. /\ s \in DOMAIN claimed /\ Binding(s) = claimed[s]
      /\ id \in DOMAIN claimed /\ Binding(id) = claimed[id]
  BY BindingFacts
<1> QED
  BY <1>1 DEF Apart, OnceClaimed

LEMMA NotLeftover ==
    ASSUME BindTypes, Apart, NEW S, NEW b \in leftover
    PROVE  b \notin Bindings(S)
BY BindingFacts DEF Bindings, Apart

LEMMA ReleasingKept ==
    ASSUME BindInv, NEW S, Releasing(S), Alive' => Alive,
           active' \in 0 .. nextBinding - 1
    PROVE  BindTypes' /\ Apart' /\ PendingIsQueued'
<1>1. BindTypes /\ Apart /\ PendingIsQueued
  BY DEF BindInv
<1>2. /\ UNCHANGED <<nextBinding, jobs, announcements, claimed, leftover>>
      /\ pending' = pending \ Bindings(S) /\ Flying' = Flying \ S /\ Claims' = Claims
  BY DEF Releasing, Claims
<1>3. BindTypes'
  BY <1>1, <1>2 DEF BindTypes
<1>4. Apart'
  BY <1>1, <1>2 DEF Apart
<1>5. PendingIsQueued'
  <2>1. SUFFICES ASSUME Alive'
                 PROVE  pending' = (Bindings(Flying)' \cap DOMAIN jobs') \cup leftover'
    <3>1. (PendingIsQueued <=>
              (Alive => pending = (Bindings(Flying) \cap DOMAIN jobs) \cup leftover))'
      BY <1>3, PendingFlying, PTL
    <3> QED
      BY <3>1
  <2>2. pending = (Bindings(Flying) \cap DOMAIN jobs) \cup leftover
    BY <1>1, <2>1, PendingFlying
  <2>3. Bindings(Flying)' = {Binding(f) : f \in Flying \ S}
    BY <1>2 DEF Bindings, Binding
  <2>4. ASSUME NEW b \in pending, b \notin Bindings(S)
        PROVE  b \in (Bindings(Flying)' \cap DOMAIN jobs) \cup leftover
    <3>1. CASE b \in leftover
      BY <3>1
    <3>2. CASE b \in Bindings(Flying) \cap DOMAIN jobs
      <4>1. PICK f \in Flying : b = Binding(f)
        BY <3>2 DEF Bindings
      <4>2. f \notin S
        BY <2>4, <4>1 DEF Bindings
      <4> QED
        BY <2>3, <3>2, <4>1, <4>2
    <3> QED
      BY <2>2, <2>4, <3>1, <3>2
  <2>5. ASSUME NEW b \in (Bindings(Flying)' \cap DOMAIN jobs) \cup leftover
        PROVE  b \in pending /\ b \notin Bindings(S)
    <3>1. CASE b \in leftover
      BY <1>1, <2>2, <3>1, NotLeftover
    <3>2. CASE b \in Bindings(Flying)' \cap DOMAIN jobs
      <4>1. PICK f \in Flying \ S : b = Binding(f)
        BY <2>3, <3>2
      <4>2. b # NoId
        BY <1>1, <3>2, BindingFacts
      <4>3. b \notin Bindings(S)
        BY <1>1, <4>1, <4>2, NotAnothers
      <4>4. b \in Bindings(Flying)
        BY <4>1 DEF Bindings
      <4> QED
        BY <2>2, <3>2, <4>3, <4>4
    <3> QED
      BY <2>5, <3>1, <3>2
  <2> QED
    BY <1>2, <2>4, <2>5
<1> QED
  BY <1>3, <1>4, <1>5

LEMMA ReleasedKept ==
    ASSUME BindInv, Releases
    PROVE  BindInv'
<1>1. PICK S : Releasing(S)
  BY DEF Releases
<1>2. UNCHANGED <<active, lastNotify>> /\ (Alive' => Alive)
  BY DEF Releases
<1>3. active' \in 0 .. nextBinding - 1
  BY <1>2 DEF BindInv, BindTypes
<1>4. BindTypes' /\ Apart' /\ PendingIsQueued'
  BY <1>1, <1>2, <1>3, ReleasingKept
<1>5. UNCHANGED <<announcements, claimed, stale, published>>
  BY <1>1 DEF Releasing
<1>6. Owned'
  BY <1>2, <1>5 DEF BindInv, Owned
<1> QED
  BY <1>4, <1>6 DEF BindInv

LEMMA ActivatedKept ==
    ASSUME BindInv, Activates
    PROVE  BindInv'
<1>1. PICK id, S : /\ Releasing(S)
                   /\ id \in DOMAIN published
                   /\ active' = IF Binding(id) \in DOMAIN jobs THEN Binding(id) ELSE NoId
                   /\ lastNotify'.job = id
  BY DEF Activates
<1>2. Alive' => Alive
  BY DEF Activates
<1>3. BindTypes /\ Owned
  BY DEF BindInv
<1>4. active' \in {NoId, Binding(id)}
  BY <1>1
<1>5. active' \in 0 .. nextBinding - 1
  <2>1. NoId \in 0 .. nextBinding - 1 /\ Claims \subseteq 0 .. nextBinding - 1
    BY <1>3 DEF BindTypes, NoId
  <2> QED
    BY <1>3, <1>4, <2>1, BindingFacts
<1>6. BindTypes' /\ Apart' /\ PendingIsQueued'
  BY <1>1, <1>2, <1>5, ReleasingKept
<1>7. UNCHANGED <<announcements, claimed, stale, published>>
  BY <1>1 DEF Releasing
<1>8. ~stale => active' \in {NoId, published[id].binding}
  <2>1. ~stale => Binding(id) \in {NoId, published[id].binding}
    BY <1>3 DEF Owned, Binding
  <2> QED
    BY <1>4, <2>1
<1>9. Owned'
  BY <1>1, <1>3, <1>7, <1>8 DEF Owned
<1> QED
  BY <1>6, <1>9 DEF BindInv

LEMMA LostKept ==
    ASSUME BindInv, Loses
    PROVE  BindInv'
<1>1. /\ ~Alive' /\ pending' \subseteq pending
      /\ UNCHANGED <<nextBinding, jobs, announcements, claimed, leftover, stale, published,
                     active, lastNotify>>
      /\ Claims' = Claims
  BY DEF Loses, Claims
<1>2. BindTypes'
  BY <1>1 DEF BindInv, BindTypes
<1>3. Apart'
  BY <1>1 DEF BindInv, Apart
<1>4. Owned'
  BY <1>1 DEF BindInv, Owned
<1>5. PendingIsQueued'
  BY <1>1 DEF PendingIsQueued, Alive
<1> QED
  BY <1>2, <1>3, <1>4, <1>5 DEF BindInv

LEMMA BegunKept ==
    ASSUME BindInv, Begins
    PROVE  BindInv'
<1>1. /\ announcements' \in {announcements, <<>>}
      /\ ~stale' => announcements' = <<>>
      /\ pending' \subseteq pending /\ leftover' = pending'
      /\ claimed' = <<>> /\ published' = <<>> /\ lastNotify' = NoNotify
      /\ Flying' = {}
      /\ UNCHANGED <<nextBinding, jobs, active>>
  BY DEF Begins
<1>2. BindTypes /\ Apart
  BY DEF BindInv
<1>3. /\ DOMAIN claimed' = {} /\ Claims' = {} /\ OnceClaimed(claimed)'
  BY <1>1 DEF Claims, OnceClaimed
<1>4. Range(<<>>) = {} /\ BindingsOf(<<>>) = {} /\ OnceBound(<<>>) /\ <<>> \in Seq(Announcements)
  BY EmptyQueue DEF BindingsOf, OnceBound
<1>5. BindTypes'
  BY <1>1, <1>2, <1>3, <1>4 DEF BindTypes
<1>6. Apart'
  BY <1>1, <1>2, <1>3, <1>4 DEF Apart
<1>7. Owned'
  <2>1. lastNotify'.job = 0
    BY <1>1 DEF NoNotify
  <2>2. stale' \/ Range(announcements)' = {}
    BY <1>1, <1>4
  <2> QED
    BY <1>3, <2>1, <2>2 DEF Owned
<1>8. PendingIsQueued'
  <2>1. (PendingIsQueued <=>
            (Alive => pending = (Bindings(Flying) \cap DOMAIN jobs) \cup leftover))'
    BY <1>5, PendingFlying, PTL
  <2>2. Bindings(Flying)' = {}
    BY <1>1 DEF Bindings
  <2> QED
    BY <1>1, <2>1, <2>2
<1> QED
  BY <1>5, <1>6, <1>7, <1>8 DEF BindInv

\* The binding that is claimed leaves the announcements.
LEMMA ClaimingFacts ==
    ASSUME BindTypes, Apart, NEW id
    PROVE  /\ Unclaimed(id) \in Seq(Announcements)
           /\ Range(Unclaimed(id)) \subseteq Range(announcements)
           /\ OnceBound(Unclaimed(id))
           /\ BindingsOf(Unclaimed(id)) \subseteq BindingsOf(announcements)
           /\ \/ ClaimedBinding(id) = NoId
              \/ /\ ClaimedBinding(id) \notin BindingsOf(Unclaimed(id))
                 /\ \E x \in Range(announcements) : x.job = id /\ x.binding = ClaimedBinding(id)
<1>1. announcements \in Seq(Announcements) /\ OnceBound(announcements)
  BY DEF BindTypes, Apart
<1>2. PICK k : /\ Later(announcements, Unclaimed(id), k)
               /\ \/ ClaimedBinding(id) = NoId
                  \/ \E p \in 1 .. k : /\ announcements[p].job = id
                                       /\ announcements[p].binding = ClaimedBinding(id)
  BY <1>1, ClaimLater
<1> DEFINE r == Unclaimed(id)
<1> HIDE DEF r
<1>3. Later(announcements, r, k)
  BY <1>2 DEF r
<1>4. /\ Range(r) \subseteq Range(announcements) /\ OnceBound(r) /\ r \in Seq(Announcements)
      /\ \A p \in 1 .. k : announcements[p] \in Range(announcements)
      /\ \A p \in 1 .. k : announcements[p].binding \in BindingsOf(r)
                               => announcements[p].binding = NoId
  BY <1>1, <1>3, LaterFacts DEF Later
<1>5. BindingsOf(r) \subseteq BindingsOf(announcements)
  BY <1>4 DEF BindingsOf
<1>6. \/ ClaimedBinding(id) = NoId
      \/ /\ ClaimedBinding(id) \notin BindingsOf(r)
         /\ \E x \in Range(announcements) : x.job = id /\ x.binding = ClaimedBinding(id)
  BY <1>2, <1>4
<1> QED
  BY <1>4, <1>5, <1>6 DEF r

LEMMA ClaimedKept ==
    ASSUME BindInv, NEW id, NEW S, Claiming(id, S)
    PROVE  BindInv'
<1> DEFINE b == ClaimedBinding(id)
<1> HIDE DEF b
<1>1. BindTypes /\ Apart /\ Owned /\ PendingIsQueued
  BY DEF BindInv
<1>2. /\ id \in DOMAIN published /\ id # 0 /\ id \notin Flying
      /\ announcements' = Unclaimed(id)
      /\ claimed' = Put(claimed, id, b)
      /\ pending' = (pending \cup ({b} \cap DOMAIN jobs)) \ Bindings(S)
      /\ S \subseteq Flying \cup {0}
      /\ Flying' = (Flying \ S) \cup {id}
      /\ UNCHANGED <<nextBinding, jobs, active, leftover, stale, loop, bridge, lastNotify,
                     published>>
  BY DEF Claiming, b
<1>3. /\ announcements' \in Seq(Announcements)
      /\ Range(announcements)' \subseteq Range(announcements)
      /\ OnceBound(announcements')
      /\ BindingsOf(announcements') \subseteq BindingsOf(announcements)
      /\ \/ b = NoId
         \/ /\ b \notin BindingsOf(announcements')
            /\ b \in BindingsOf(announcements)
            /\ \E x \in Range(announcements) : x.job = id /\ x.binding = b
  BY <1>1, <1>2, ClaimingFacts DEF b, BindingsOf
<1>4. /\ DOMAIN claimed' = DOMAIN claimed \cup {id} /\ claimed'[id] = b
      /\ \A i \in DOMAIN claimed : i # id => claimed'[i] = claimed[i]
  BY <1>2 DEF Put
<1>5. Claims' \subseteq Claims \cup {b}
  BY <1>4 DEF Claims
<1>6. b = NoId \/ b \notin Claims \cup pending \cup leftover
  BY <1>1, <1>3 DEF Apart
<1>7. BindTypes'
  <2>1. b \in 0 .. nextBinding - 1
    BY <1>1, <1>3 DEF BindTypes, NoId
  <2>2. NoId \notin DOMAIN claimed'
    BY <1>1, <1>2, <1>4 DEF BindTypes, NoId
  <2> QED
    BY <1>1, <1>2, <1>3, <1>5, <2>1, <2>2 DEF BindTypes
<1>8. OnceClaimed(claimed')
  <2> SUFFICES ASSUME NEW i \in DOMAIN claimed', NEW j \in DOMAIN claimed', i # j,
                      claimed'[i] = claimed'[j]
               PROVE  claimed'[i] = NoId
    BY DEF OnceClaimed
  <2>1. CASE i # id /\ j # id
    BY <1>1, <1>4, <2>1 DEF Apart, OnceClaimed
  <2>2. CASE i = id /\ j # id
    <3>1. claimed'[i] = b /\ claimed'[j] = claimed[j] /\ claimed[j] \in Claims
      BY <1>4, <2>2 DEF Claims
    <3> QED
      BY <1>6, <3>1
  <2>3. CASE i # id /\ j = id
    <3>1. claimed'[j] = b /\ claimed'[i] = claimed[i] /\ claimed[i] \in Claims
      BY <1>4, <2>3 DEF Claims
    <3> QED
      BY <1>6, <3>1
  <2> QED
    BY <2>1, <2>2, <2>3
<1>9. Apart'
  <2>1. Claims' \cap leftover' = {}
    <3>1. NoId \notin leftover
      BY <1>1, BindingFacts
    <3> QED
      BY <1>1, <1>2, <1>5, <1>6, <3>1 DEF Apart
  <2>2. BindingsOf(announcements') \cap (Claims' \cup pending' \cup leftover') \subseteq {NoId}
    BY <1>1, <1>2, <1>3, <1>5 DEF Apart
  <2> QED
    BY <1>3, <1>8, <2>1, <2>2 DEF Apart
<1>10. Owned'
  <2>1. DOMAIN claimed' \subseteq DOMAIN published'
    BY <1>1, <1>2, <1>4 DEF Owned
  <2>2. ~stale => b \in {NoId, published[id].binding}
    BY <1>1, <1>3 DEF Owned
  <2>3. ~stale => \A i \in DOMAIN claimed' : claimed'[i] \in {NoId, published[i].binding}
    BY <1>1, <1>4, <2>2 DEF Owned
  <2> QED
    BY <1>1, <1>2, <1>3, <2>1, <2>3 DEF Owned
<1>11. PendingIsQueued'
  <2>1. SUFFICES ASSUME Alive'
                 PROVE  pending' = (Bindings(Flying)' \cap DOMAIN jobs') \cup leftover'
    <3>1. (PendingIsQueued <=>
              (Alive => pending = (Bindings(Flying) \cap DOMAIN jobs) \cup leftover))'
      BY <1>7, PendingFlying, PTL
    <3> QED
      BY <3>1
  <2>2. pending = (Bindings(Flying) \cap DOMAIN jobs) \cup leftover
    <3>1. Alive
      BY <1>2, <2>1 DEF Alive
    <3> QED
      BY <1>1, <3>1, PendingFlying
  <2>3. Bindings(Flying)' = {Binding(f) : f \in Flying \ S} \cup {b}
    <3>1. \A f \in Flying \ S : Binding(f)' = Binding(f)
      BY <1>2, <1>4 DEF Binding
    <3>2. Binding(id)' = b
      BY <1>4 DEF Binding
    <3>3. Bindings(Flying)' = {Binding(f)' : f \in Flying'}
      BY <1>4 DEF Bindings, Binding
    <3> QED
      BY <1>2, <3>1, <3>2, <3>3
  <2>4. b \in DOMAIN jobs => b \notin Bindings(S)
    BY <1>1, <1>6, BindingFacts DEF Bindings
  <2>5. ASSUME NEW x \in pending, x \notin Bindings(S)
        PROVE  x \in ({Binding(f) : f \in Flying \ S} \cap DOMAIN jobs) \cup leftover
    <3>1. CASE x \in leftover
      BY <3>1
    <3>2. CASE x \in Bindings(Flying) \cap DOMAIN jobs
      <4>1. PICK f \in Flying : x = Binding(f)
        BY <3>2 DEF Bindings
      <4>2. f \notin S
        BY <2>5, <4>1 DEF Bindings
      <4> QED
        BY <3>2, <4>1, <4>2
    <3> QED
      BY <2>2, <2>5, <3>1, <3>2
  <2>6. ASSUME NEW x \in ({Binding(f) : f \in Flying \ S} \cap DOMAIN jobs) \cup leftover
        PROVE  x \in pending /\ x \notin Bindings(S)
    <3>1. CASE x \in leftover
      BY <1>1, <2>2, <3>1, NotLeftover
    <3>2. CASE x \in {Binding(f) : f \in Flying \ S} \cap DOMAIN jobs
      <4>1. PICK f \in Flying \ S : x = Binding(f)
        BY <3>2
      <4>2. x # NoId
        BY <1>1, <3>2, BindingFacts
      <4>3. x \notin Bindings(S)
        BY <1>1, <4>1, <4>2, NotAnothers
      <4>4. x \in Bindings(Flying)
        BY <4>1 DEF Bindings
      <4> QED
        BY <2>2, <3>2, <4>3, <4>4
    <3> QED
      BY <2>6, <3>1, <3>2
  <2>7. UNCHANGED <<jobs, leftover>>
    BY <1>2
  <2>8. pending' = (pending \ Bindings(S)) \cup ({b} \cap DOMAIN jobs)
    BY <1>2, <2>4
  <2>9. pending \ Bindings(S) = ({Binding(f) : f \in Flying \ S} \cap DOMAIN jobs) \cup leftover
    BY <2>5, <2>6
  <2> QED
    BY <2>3, <2>7, <2>8, <2>9
<1> QED
  BY <1>7, <1>9, <1>10, <1>11 DEF BindInv

-----------------------------------------------------------------------------
(* The start of the bridge *)

\* The answer to OpenExtendedMiningChannel comes first and once, and the bridge
\* starts with the first target that is not zero.
StartInv ==
    /\ target \in BOOLEAN
    /\ bridge # "starting" => target
    /\ \A i \in 1 .. Len(inbox) : inbox[i].type = "open" => i = 1 /\ ~target

\* A step that sends nothing but jobs and prev hashes to the main loop.
LEMMA StartKept ==
    ASSUME PipeTypes, StartInv, target' = target, bridge' # "starting" => bridge # "starting",
           \/ inbox' = inbox
           \/ \E m \in Messages : m.type # "open" /\ inbox' = Append(inbox, m)
           \/ inbox # <<>> /\ inbox' = Tail(inbox)
    PROVE  StartInv'
<1>1. target' \in BOOLEAN /\ (bridge' # "starting" => target')
  BY DEF StartInv
<1>2. inbox \in Seq(Messages)
  BY DEF PipeTypes
<1>3. CASE inbox' = inbox
  BY <1>1, <1>3 DEF StartInv
<1>4. ASSUME NEW m \in Messages, m.type # "open", inbox' = Append(inbox, m)
      PROVE  StartInv'
  <2>1. /\ Len(inbox) \in Nat /\ Len(inbox') = Len(inbox) + 1 /\ inbox'[Len(inbox) + 1] = m
        /\ \A i \in 1 .. Len(inbox) : inbox'[i] = inbox[i]
    BY <1>2, <1>4, AppendProperties, LenProperties
  <2>2. ASSUME NEW i \in 1 .. Len(inbox'), inbox'[i].type = "open"
        PROVE  i = 1 /\ ~target
    BY <1>4, <2>1, <2>2 DEF StartInv
  <2> QED
    BY <1>1, <2>2 DEF StartInv
<1>5. CASE inbox # <<>> /\ inbox' = Tail(inbox)
  <2>1. /\ Len(inbox) \in Nat /\ Len(inbox') = Len(inbox) - 1
        /\ \A i \in 1 .. Len(inbox) - 1 : inbox'[i] = inbox[i + 1]
    BY <1>2, <1>5, RangeTail
  <2>2. ASSUME NEW i \in 1 .. Len(inbox'), inbox'[i].type = "open"
        PROVE  FALSE
    <3>1. i + 1 \in 1 .. Len(inbox) /\ i + 1 # 1 /\ inbox[i + 1].type = "open"
      BY <2>1, <2>2
    <3> QED
      BY <3>1 DEF StartInv
  <2> QED
    BY <1>1, <2>2 DEF StartInv
<1> QED
  BY <1>3, <1>4, <1>5

LEMMA OpenIsFirst ==
    ASSUME PipeTypes, StartInv, inbox # <<>>, Head(inbox).type = "open"
    PROVE  /\ ~target /\ bridge = "starting"
           /\ \A i \in 1 .. Len(Tail(inbox)) : Tail(inbox)[i].type # "open"
<1> DEFINE r == Tail(inbox)
<1>1. /\ Len(inbox) \in Nat /\ Len(inbox) >= 1 /\ Len(r) = Len(inbox) - 1
      /\ Head(inbox) = inbox[1]
      /\ \A i \in 1 .. Len(inbox) - 1 : r[i] = inbox[i + 1]
  BY RangeTail DEF PipeTypes
<1> HIDE DEF r
<1>2. ASSUME NEW i \in 1 .. Len(r), r[i].type = "open" PROVE FALSE
  <2>1. i + 1 \in 1 .. Len(inbox) /\ i + 1 # 1 /\ inbox[i + 1].type = "open"
    BY <1>1, <1>2
  <2> QED
    BY <2>1 DEF StartInv
<1>3. ~target /\ bridge = "starting"
  BY <1>1 DEF StartInv
<1> QED
  BY <1>2, <1>3 DEF r

LEMMA StartStep ==
    ASSUME PipeTypes, StartInv, [PipeNext]_pipeVars
    PROVE  StartInv'
<1> USE DEF publisherVars, loopVars, bridgeVars, contextVars
<1>1. ASSUME NEW future \in BOOLEAN, OnNewTemplate(future) \/ PoolSendsJob(future)
      PROVE  StartInv'
  <2>1. Len(published) + 1 \in Nat
    BY LenProperties DEF PipeTypes
  <2>2. Job(Len(published) + 1) \in Messages /\ Job(Len(published) + 1).type # "open"
    BY <2>1, MessageFacts
  <2>3. inbox' = Append(inbox, Job(Len(published) + 1)) /\ UNCHANGED <<target, bridge>>
    BY <1>1 DEF OnNewTemplate, PoolSendsJob, Publish
  <2> QED
    BY <2>2, <2>3, StartKept
<1>2. ASSUME NEW id \in DOMAIN published, OnSetNewPrevHash(id) PROVE StartInv'
  <2>1. id \in Nat /\ tip + 1 \in Nat
    BY LenProperties DEF PipeTypes
  <2>2. PrevHash(id, tip + 1) \in Messages /\ PrevHash(id, tip + 1).type # "open"
    BY <2>1, MessageFacts
  <2>3. inbox' = Append(inbox, PrevHash(id, tip + 1)) /\ UNCHANGED <<target, bridge>>
    BY <1>2 DEF OnSetNewPrevHash
  <2> QED
    BY <2>2, <2>3, StartKept
<1>3. CASE HandleOpenChannel
  <2>1. /\ inbox # <<>> /\ Head(inbox).type = "open" /\ inbox' = Tail(inbox)
        /\ \/ target' \in BOOLEAN /\ bridge' = (IF target' THEN "running" ELSE bridge)
           \/ UNCHANGED <<target, bridge>>
    BY <1>3 DEF HandleOpenChannel, Receives
  <2>2. /\ ~target /\ bridge = "starting"
        /\ \A i \in 1 .. Len(inbox') : inbox'[i].type # "open"
    BY <2>1, OpenIsFirst
  <2>3. target' \in BOOLEAN /\ (bridge' # "starting" => target')
    BY <2>1, <2>2 DEF StartInv
  <2> QED
    BY <2>2, <2>3 DEF StartInv
<1>4. CASE HandleJob \/ HandlePrevHash
  <2>1. inbox # <<>> /\ inbox' = Tail(inbox) /\ UNCHANGED <<target, bridge>>
    BY <1>4 DEF HandleJob, HandlePrevHash, Receives
  <2> QED
    BY <2>1, StartKept
<1>5. CASE \/ SendWork \/ SendWorkFails \/ HandleClose \/ UNCHANGED pipeVars
  <2>1. UNCHANGED <<target, bridge, inbox>>
    BY <1>5 DEF SendWork, SendWorkFails, HandleClose, pipeVars
  <2> QED
    BY <2>1, StartKept
<1>6. CASE HandleSetTarget
  <2>1. target' = TRUE /\ bridge' = "running" /\ inbox' = inbox /\ Opened
    BY <1>6 DEF HandleSetTarget
  <2>2. \A i \in 1 .. Len(inbox) : inbox[i].type # "open"
    <3>1. \A i \in 1 .. Len(inbox) : inbox[i] \in Range(inbox)
      BY RangeFacts DEF PipeTypes
    <3> QED
      BY <2>1, <3>1 DEF Opened
  <2> QED
    BY <2>1, <2>2 DEF StartInv
<1>7. CASE BridgeJob \/ BridgePrevHash
  <2>1. bridge = "running" /\ UNCHANGED <<target, inbox>>
    BY <1>7 DEF BridgeJob, BridgePrevHash, Work
  <2> QED
    BY <2>1, StartKept
<1>8. ASSUME NEW m, Restart(m) PROVE StartInv'
  <2>1. inbox' = <<[type |-> "open"]>> /\ target' = FALSE /\ bridge' = "starting"
    BY <1>8 DEF Restart
  <2>2. \A i \in 1 .. Len(inbox') : i = 1
    BY <2>1
  <2> QED
    BY <2>1, <2>2 DEF StartInv
<1> QED
  BY <1>1, <1>2, <1>3, <1>4, <1>5, <1>6, <1>7, <1>8
     DEF PipeNext, Publisher, Loop, BridgeWork

-----------------------------------------------------------------------------
(* The jobs on their way *)

\* The jobs a queue carries.
Carried(q) == {m.id : m \in {x \in Range(q) : x.type = "job"}}

LEMMA FlyingIs ==
    Flying = ({futureJ} \cup Carried(outbox) \cup Carried(workQ) \cup Range(futureJobs)) \ {0}
BY DEF Flying, InFlight, Queued, Carried

LEMMA CarriedFacts ==
    /\ Carried(<<>>) = {}
    /\ \A id \in Nat : Carried(<<Job(id)>>) = {id}
    /\ \A m \in Messages : m.type = "prevhash" => Carried(<<m>>) = {}
    /\ \A id \in Nat, m \in Messages : m.type = "prevhash" => Carried(<<Job(id), m>>) = {id}
<1>1. /\ Range(<<>>) = {}
      /\ \A m : Range(<<m>>) = {m}
      /\ \A m, n : Range(<<m, n>>) = {m, n}
  BY DEF Range
<1>2. \A id \in Nat : Job(id).type = "job" /\ Job(id).id = id
  BY MessageFacts
<1> QED
  BY <1>1, <1>2 DEF Carried

LEMMA CarriedAppend ==
    ASSUME NEW q \in Seq(Messages), NEW m \in Messages
    PROVE  Carried(Append(q, m)) = Carried(q) \cup (IF m.type = "job" THEN {m.id} ELSE {})
<1>1. Range(Append(q, m)) = Range(q) \cup {m}
  BY RangeAppend
<1> QED
  BY <1>1 DEF Carried

LEMMA CarriedTail ==
    ASSUME NEW q \in Seq(Messages), q # <<>>
    PROVE  Carried(q) = Carried(Tail(q))
                            \cup (IF Head(q).type = "job" THEN {Head(q).id} ELSE {})
<1>1. Range(q) = Range(Tail(q)) \cup {Head(q)}
  BY RangeTail
<1> QED
  BY <1>1 DEF Carried

\* No job comes twice along the line.
LEMMA CarriedOnce ==
    ASSUME NEW pub, NEW P, NEW q, Ahead(pub, P, Range(q)),
           NEW h \in P, h.type = "job"
    PROVE  h.id \notin Carried(q)
BY DEF Carried, Ahead, Before

LEMMA CarriedBefore ==
    ASSUME NEW pub, NEW Q, NEW q, Ahead(pub, Range(q), Q),
           NEW h \in Q, h.type = "job"
    PROVE  h.id \notin Carried(q)
BY DEF Carried, Ahead, Before

\* What the main loop takes up is at no other place.
LEMMA TakenIsNew ==
    ASSUME PipeInv, outbox = <<>>, inbox # <<>>, Head(inbox).type = "job"
    PROVE  LET id == Head(inbox).id
           IN  id \in DOMAIN published /\ id \in Nat /\ id # 0 /\ id \notin Flying
<1> DEFINE h == Head(inbox)
<1>1. h \in Range(inbox)
  BY RangeTail DEF PipeInv, PipeTypes
<1>2. h \in Line
  BY <1>1 DEF Line
<1> HIDE DEF h
<1>3. h.type = "job"
  BY DEF h
<1>4. h.id \in DOMAIN published
  BY <1>2, <1>3 DEF PipeInv, LineKnown
<1>5. h.id \in Nat /\ h.id # 0
  BY <1>4, LenProperties DEF PipeInv, PipeTypes
<1>6. h.id \notin Range(futureJobs) \cup {futureJ}
  BY <1>2, <1>3 DEF PipeInv, OnePlace
<1>7. h.id \notin Carried(workQ)
  <2>1. Ahead(published, Range(workQ), Range(inbox))
    BY DEF PipeInv, LineSorted
  <2> QED
    BY <1>1, <1>3, <2>1, CarriedBefore
<1>8. Carried(outbox) = {}
  BY CarriedFacts
<1>9. h.id \notin Flying
  BY <1>6, <1>7, <1>8, FlyingIs
<1> QED
  BY <1>4, <1>5, <1>9 DEF h

\* The job held back is on no queue.
LEMMA HeldIsApart ==
    ASSUME PipeInv
    PROVE  /\ futureJ # 0 => futureJ \notin Carried(outbox) \cup Carried(workQ) \cup Range(futureJobs)
           /\ Range(futureJobs) \cap (Carried(outbox) \cup Carried(workQ)) = {}
<1>1. \A m \in Range(outbox) \cup Range(workQ) :
          m.type = "job" => m.id \notin Range(futureJobs) \cup {futureJ}
  BY DEF PipeInv, OnePlace, Line
<1>2. futureJ # 0 => futureJ \notin Range(futureJobs)
  BY DEF PipeInv, OnePlace
<1> QED
  BY <1>1, <1>2 DEF Carried

\* What the bridge takes from its queue is at no other place.
LEMMA WorkedIsApart ==
    ASSUME PipeInv, workQ # <<>>, Head(workQ).type = "job"
    PROVE  LET id == Head(workQ).id
           IN  /\ id \in DOMAIN published
               /\ id \notin Carried(Tail(workQ)) \cup Carried(outbox) \cup Range(futureJobs) \cup {futureJ}
<1> DEFINE h == Head(workQ)
           r == Tail(workQ)
<1>1. /\ h \in Range(workQ) /\ Len(workQ) \in Nat /\ Len(workQ) >= 1 /\ h = workQ[1]
      /\ Range(r) = {r[i] : i \in 1 .. Len(workQ) - 1}
      /\ \A i \in 1 .. Len(workQ) - 1 : r[i] = workQ[i + 1]
  BY RangeTail DEF PipeInv, PipeTypes
<1>2. h \in Line
  BY <1>1 DEF Line
<1> HIDE DEF h, r
<1>3. h.type = "job"
  BY DEF h
<1>4. h.id \in DOMAIN published /\ h.id \notin Range(futureJobs) \cup {futureJ}
  BY <1>2, <1>3 DEF PipeInv, LineKnown, OnePlace
<1>5. h.id \notin Carried(outbox)
  <2>1. Ahead(published, Range(workQ), Range(outbox))
    BY DEF PipeInv, LineSorted
  <2> QED
    BY <1>1, <1>3, <2>1, CarriedOnce
<1>6. h.id \notin Carried(r)
  <2>1. ASSUME NEW m \in Range(r) PROVE Before(published, h, m)
    <3>1. PICK i \in 1 .. Len(workQ) - 1 : m = workQ[i + 1]
      BY <1>1
    <3>2. 1 \in 1 .. Len(workQ) /\ i + 1 \in 1 .. Len(workQ) /\ 1 < i + 1
      BY <1>1
    <3>3. Sorted(published, workQ)
      BY DEF PipeInv, LineSorted
    <3> QED
      BY <1>1, <3>1, <3>2, <3>3 DEF Sorted
  <2> QED
    BY <1>3, <2>1 DEF Carried, Before
<1> QED
  BY <1>4, <1>5, <1>6 DEF h, r

-----------------------------------------------------------------------------
(* Every step is a move of the bindings *)

LEMMA NothingReleased ==
    ASSUME Flying' = Flying, Alive' => Alive,
           UNCHANGED <<nextBinding, jobs, announcements, claimed, leftover, stale, published,
                       pending, active, lastNotify>>
    PROVE  Releases
<1>1. Bindings({}) = {}
  BY DEF Bindings
<1>2. Releasing({})
  BY <1>1 DEF Releasing
<1> QED
  BY <1>2 DEF Releases

LEMMA InsertedJob ==
    ASSUME BindTypes, NEW binding, InsertJob(nextBinding, binding)
    PROVE  /\ DOMAIN jobs' \subseteq DOMAIN jobs \cup {nextBinding}
           /\ pending \cap DOMAIN jobs \subseteq DOMAIN jobs'
<1> DEFINE all == Put(jobs, nextBinding, binding)
           candidates == DOMAIN all \ (pending \cup {active})
           e == Min(candidates)
<1>1. DOMAIN all = DOMAIN jobs \cup {nextBinding}
  BY DEF Put
<1>2. candidates \in SUBSET Nat /\ nextBinding \in candidates
  BY <1>1, BindingFacts DEF BindTypes
<1>3. e \in candidates
  BY <1>2, MinIsMember
<1>4. jobs' = all \/ jobs' = Without(all, {e})
  BY DEF InsertJob
<1>5. e \notin pending
  BY <1>3
<1> HIDE DEF all, e
<1>6. DOMAIN Without(all, {e}) = DOMAIN all \ {e}
  BY DEF Without, Restrict
<1> QED
  BY <1>1, <1>4, <1>5, <1>6

LEMMA PublisherBinds ==
    ASSUME PipeInv, BindTypes, Publisher
    PROVE  BindMove
<1> USE DEF publisherVars, loopVars, bridgeVars, contextVars
<1>0. tip \in Nat /\ nextBinding \in Nat
  BY DEF PipeInv, PipeTypes
<1>1. ASSUME NEW future \in BOOLEAN, NEW b \in Nat, Publish(future, b)
      PROVE  /\ \E r : NewJob(r) /\ r.binding = b
             /\ UNCHANGED <<leftover, stale>>
  <2> DEFINE r == [future |-> future, binding |-> b, block |-> IF future THEN tip + 1 ELSE tip]
  <2>1. r \in PublishedJob /\ r.binding = b
    BY <1>0 DEF PublishedJob
  <2>2. published' = Append(published, r) /\ UNCHANGED <<leftover, stale>>
    BY <1>1 DEF Publish
  <2> QED
    BY <2>1, <2>2 DEF NewJob
<1>2. ASSUME UNCHANGED <<loopVars, workQ, bridgeVars>>
      PROVE  Flying' = Flying /\ UNCHANGED <<claimed, loop, bridge, lastNotify>>
  BY <1>2, FlyingIs DEF Flying, InFlight, Queued
<1>3. ASSUME NEW future \in BOOLEAN, OnNewTemplate(future) PROVE BindMove
  <2>1. UNCHANGED <<loopVars, workQ, bridgeVars>>
    BY <1>3 DEF OnNewTemplate
  <2>2. Flying' = Flying /\ UNCHANGED <<claimed, loop, bridge, lastNotify>>
    BY <1>2, <2>1
  <2>3. CASE /\ \E coinbase \in Coinbases : BindJobGeneration(Len(published) + 1, 1, coinbase)
             /\ Publish(future, nextBinding)
    <3>1. PICK coinbase \in Coinbases : BindJobGeneration(Len(published) + 1, 1, coinbase)
      BY <2>3
    <3>2. /\ \E binding : InsertJob(nextBinding, binding)
          /\ announcements' = Enqueue(announcements, [job |-> Len(published) + 1,
                                                      binding |-> nextBinding])
          /\ nextBinding' = nextBinding + 1
          /\ UNCHANGED <<active, pending>>
      BY <3>1 DEF BindJobGeneration
    <3>3. /\ \E r : NewJob(r) /\ r.binding = nextBinding
          /\ UNCHANGED <<leftover, stale>>
      BY <1>0, <1>1, <2>3
    <3>4. /\ DOMAIN jobs' \subseteq DOMAIN jobs \cup {nextBinding}
          /\ pending \cap DOMAIN jobs \subseteq DOMAIN jobs'
      BY <3>2, InsertedJob
    <3>5. Binds
      BY <2>2, <3>2, <3>3, <3>4 DEF Binds, keptVars
    <3> QED
      BY <3>5 DEF BindMove
  <2>4. CASE AnnounceUnboundJob(Len(published) + 1) /\ Publish(future, NoId)
    <3>1. /\ announcements' = Enqueue(announcements, [job |-> Len(published) + 1,
                                                      binding |-> NoId])
          /\ UNCHANGED <<nextBinding, jobs, active, pending>>
      BY <2>4 DEF AnnounceUnboundJob
    <3>2. NoId \in Nat
      BY DEF NoId
    <3>3. /\ \E r : NewJob(r) /\ r.binding = NoId
          /\ UNCHANGED <<leftover, stale>>
      BY <1>1, <2>4, <3>2
    <3>4. Announces
      BY <2>2, <3>1, <3>3 DEF Announces, keptVars
    <3> QED
      BY <3>4 DEF BindMove
  <2> QED
    BY <1>3, <2>3, <2>4 DEF OnNewTemplate
<1>4. ASSUME NEW future \in BOOLEAN, PoolSendsJob(future) PROVE BindMove
  <2>1. UNCHANGED <<contextVars, loopVars, workQ, bridgeVars>> /\ Publish(future, NoId)
    BY <1>4 DEF PoolSendsJob
  <2>2. Flying' = Flying /\ UNCHANGED <<claimed, loop, bridge, lastNotify>>
    BY <1>2, <2>1
  <2>3. NoId \in Nat
    BY DEF NoId
  <2>4. (\E r : NewJob(r)) /\ UNCHANGED <<leftover, stale>>
    BY <1>1, <2>1, <2>3
  <2>5. PublishesOnly
    BY <2>1, <2>2, <2>4 DEF PublishesOnly, keptVars
  <2> QED
    BY <2>5 DEF BindMove
<1>5. ASSUME NEW id \in DOMAIN published, OnSetNewPrevHash(id) PROVE BindMove
  <2>1. UNCHANGED <<contextVars, published, leftover, stale, loopVars, workQ, bridgeVars>>
    BY <1>5 DEF OnSetNewPrevHash
  <2>2. Flying' = Flying /\ UNCHANGED <<claimed, loop, bridge, lastNotify>>
    BY <1>2, <2>1
  <2>3. Releases
    BY <2>1, <2>2, NothingReleased DEF Alive
  <2> QED
    BY <2>3 DEF BindMove
<1> QED
  BY <1>3, <1>4, <1>5 DEF Publisher

LEMMA FlyingNext ==
    Flying' = ({futureJ'} \cup Carried(outbox') \cup Carried(workQ') \cup Range(futureJobs')) \ {0}
BY DEF Flying, InFlight, Queued, Carried

LEMMA JobClaimed ==
    ASSUME PipeInv, HandleJob
    PROVE  \E id, S : Claiming(id, S)
<1> USE DEF publisherVars, loopVars, bridgeVars, contextVars
<1> DEFINE id == Head(inbox).id
<1>1. /\ outbox = <<>> /\ inbox # <<>> /\ Head(inbox).type = "job"
      /\ HandleFutureJob(id) \/ HandleCurrentJob(id)
      /\ claimed' = Put(claimed, id, ClaimedBinding(id))
      /\ UNCHANGED <<publisherVars, workQ, loop, bridgeVars>>
  BY DEF HandleJob, Receives
<1>2. id \in DOMAIN published /\ id \in Nat /\ id # 0 /\ id \notin Flying
  BY <1>1, TakenIsNew
<1> HIDE DEF id
<1>3. Carried(outbox) = {}
  BY <1>1, CarriedFacts
<1>4. CASE HandleFutureJob(id)
  <2>1. /\ futureJ' = id /\ outbox' = outbox
        /\ announcements' = Unclaimed(id)
        /\ pending' = (pending \cup ({ClaimedBinding(id)} \cap DOMAIN jobs)) \ {Binding(futureJ)}
        /\ UNCHANGED <<nextBinding, jobs, active>>
    BY <1>4 DEF HandleFutureJob, Unclaimed
  <2>2. Bindings({futureJ}) = {Binding(futureJ)}
    BY DEF Bindings
  <2>3. futureJ # 0 => futureJ \notin Carried(workQ) \cup Range(futureJobs)
    BY HeldIsApart
  <2>4. Flying' = (Flying \ {futureJ}) \cup {id}
    BY <1>1, <1>2, <1>3, <2>1, <2>3, FlyingIs, FlyingNext
  <2>5. {futureJ} \subseteq Flying \cup {0}
    BY FlyingIs
  <2>6. Claiming(id, {futureJ})
    BY <1>1, <1>2, <2>1, <2>2, <2>4, <2>5 DEF Claiming
  <2> QED
    BY <2>6
<1>5. CASE HandleCurrentJob(id)
  <2>1. /\ outbox' = <<Job(id)>> /\ futureJ' = futureJ
        /\ announcements' = Unclaimed(id)
        /\ pending' = pending \cup ({ClaimedBinding(id)} \cap DOMAIN jobs)
        /\ UNCHANGED <<nextBinding, jobs, active>>
    BY <1>5 DEF HandleCurrentJob, ClaimJobBinding, Unclaimed
  <2>2. Bindings({}) = {}
    BY DEF Bindings
  <2>3. Carried(outbox') = {id}
    BY <1>2, <2>1, CarriedFacts
  <2>4. Flying' = (Flying \ {}) \cup {id}
    BY <1>1, <1>2, <1>3, <2>1, <2>3, FlyingIs, FlyingNext
  <2>5. Claiming(id, {})
    BY <1>1, <1>2, <2>1, <2>2, <2>4 DEF Claiming
  <2> QED
    BY <2>5
<1> QED
  BY <1>1, <1>4, <1>5

LEMMA LoopBinds ==
    ASSUME PipeInv, BindTypes, StartInv,
           Loop \/ HandleSetTarget \/ HandleClose \/ UNCHANGED pipeVars
    PROVE  BindMove
<1> USE DEF publisherVars, loopVars, bridgeVars, contextVars
<1>0. /\ inbox \in Seq(Messages) /\ outbox \in Seq(Messages) /\ workQ \in Seq(Messages)
      /\ futureJ \in Nat
  BY DEF PipeInv, PipeTypes
<1>1. ASSUME Flying' = Flying, Alive' => Alive,
             UNCHANGED <<contextVars, claimed, leftover, stale, published, lastNotify>>
      PROVE  BindMove
  BY <1>1, NothingReleased DEF BindMove
<1>2. CASE HandleOpenChannel
  <2>1. /\ inbox # <<>> /\ Head(inbox).type = "open"
        /\ UNCHANGED <<contextVars, publisherVars, futureJ, claimed, outbox, workQ, futureJobs,
                       lastNotify>>
        /\ loop = "running"
    BY <1>2 DEF HandleOpenChannel, Receives
  <2>2. Flying' = Flying
    BY <2>1, FlyingIs, FlyingNext
  <2>3. bridge # "ended"
    BY <2>1, OpenIsFirst DEF PipeInv
  <2> QED
    BY <1>1, <2>1, <2>2, <2>3 DEF Alive
<1>3. CASE HandleJob
  BY <1>3, JobClaimed DEF BindMove
<1>4. CASE HandlePrevHash
  <2>1. /\ outbox = <<>> /\ inbox # <<>> /\ Head(inbox).type = "prevhash"
        /\ outbox' = WorkOfPrevHash(Head(inbox)) /\ futureJ' = 0
        /\ UNCHANGED <<contextVars, publisherVars, workQ, loop, claimed, bridgeVars>>
    BY <1>4 DEF HandlePrevHash, Receives
  <2> DEFINE m == Head(inbox)
  <2>2. m \in Messages /\ m.type = "prevhash"
    BY <1>0, <2>1, RangeTail
  <2> HIDE DEF m
  <2>3. Carried(outbox) = {}
    BY <2>1, CarriedFacts
  <2>4. outbox' = IF futureJ = 0 THEN <<m>> ELSE <<Job(futureJ), [m EXCEPT !.with = futureJ]>>
    BY <2>1 DEF WorkOfPrevHash, m
  <2>5. Carried(outbox') \ {0} = {futureJ} \ {0}
    <3>1. CASE futureJ = 0
      BY <2>2, <2>4, <3>1, CarriedFacts
    <3>2. CASE futureJ # 0
      <4> DEFINE s == [m EXCEPT !.with = futureJ]
      <4>1. s \in Messages /\ s.type = "prevhash"
        BY <1>0, <2>2, SentWith
      <4> HIDE DEF s
      <4>2. outbox' = <<Job(futureJ), s>>
        BY <2>4, <3>2 DEF s
      <4> QED
        BY <1>0, <4>1, <4>2, CarriedFacts
    <3> QED
      BY <3>1, <3>2
  <2>6. Flying' = Flying
    BY <2>1, <2>3, <2>5, FlyingIs, FlyingNext
  <2> QED
    BY <1>1, <2>1, <2>6 DEF Alive
<1>5. CASE SendWork
  <2>1. /\ outbox # <<>> /\ workQ' = Append(workQ, Head(outbox)) /\ outbox' = Tail(outbox)
        /\ UNCHANGED <<contextVars, publisherVars, loop, futureJ, claimed, bridgeVars>>
    BY <1>5 DEF SendWork
  <2>2. Head(outbox) \in Messages
    BY <1>0, <2>1, RangeTail
  <2>3. Carried(outbox) \cup Carried(workQ) = Carried(outbox') \cup Carried(workQ')
    <3>1. Carried(workQ') = Carried(workQ)
              \cup (IF Head(outbox).type = "job" THEN {Head(outbox).id} ELSE {})
      BY <1>0, <2>1, <2>2, CarriedAppend
    <3>2. Carried(outbox) = Carried(outbox')
              \cup (IF Head(outbox).type = "job" THEN {Head(outbox).id} ELSE {})
      BY <1>0, <2>1, CarriedTail
    <3> QED
      BY <3>1, <3>2
  <2>4. Flying' = Flying
    BY <2>1, <2>3, FlyingIs, FlyingNext
  <2> QED
    BY <1>1, <2>1, <2>4 DEF Alive
<1>6. CASE SendWorkFails
  <2>1. Loses
    BY <1>6 DEF SendWorkFails, ClearPendingJobBinding, Loses, Alive
  <2> QED
    BY <2>1 DEF BindMove
<1>7. CASE HandleSetTarget
  <2>1. ~target /\ loop = "running"
        /\ UNCHANGED <<contextVars, publisherVars, futureJ, claimed, outbox, workQ, futureJobs,
                       lastNotify>>
    BY <1>7 DEF HandleSetTarget
  <2>2. bridge # "ended"
    BY <2>1 DEF StartInv
  <2>3. Flying' = Flying
    BY <2>1, FlyingIs, FlyingNext
  <2> QED
    BY <1>1, <2>1, <2>2, <2>3 DEF Alive
<1>8. CASE HandleClose
  <2>1. Loses
    BY <1>8 DEF HandleClose, Loses, Alive
  <2> QED
    BY <2>1 DEF BindMove
<1>9. CASE UNCHANGED pipeVars
  <2>1. UNCHANGED <<contextVars, publisherVars, loopVars, workQ, bridgeVars>>
    BY <1>9 DEF pipeVars
  <2>2. Flying' = Flying
    BY <2>1, FlyingIs, FlyingNext
  <2> QED
    BY <1>1, <2>1, <2>2 DEF Alive
<1> QED
  BY <1>2, <1>3, <1>4, <1>5, <1>6, <1>7, <1>8, <1>9 DEF Loop

LEMMA BridgeBinds ==
    ASSUME PipeInv, BindTypes, BridgeWork
    PROVE  BindMove
<1> USE DEF publisherVars, loopVars, bridgeVars, contextVars
<1>0. workQ \in Seq(Messages) /\ futureJobs \in Seq(Nat)
  BY DEF PipeInv, PipeTypes
<1>1. CASE BridgeJob
  <2> DEFINE id == Head(workQ).id
  <2>1. /\ bridge = "running" /\ workQ # <<>> /\ Head(workQ).type = "job" /\ workQ' = Tail(workQ)
        /\ UNCHANGED <<publisherVars, inbox, loopVars>>
        /\ BridgeKeepsFuture(id) \/ BridgeNotifies(id) \/ BridgeRefusesJob
    BY <1>1 DEF BridgeJob, Work
  <2>2. /\ id \in DOMAIN published
        /\ id \notin Carried(workQ') \cup Carried(outbox) \cup Range(futureJobs) \cup {futureJ}
    BY <2>1, WorkedIsApart
  <2>3. Carried(workQ) = Carried(workQ') \cup {id}
    BY <1>0, <2>1, CarriedTail
  <2> HIDE DEF id
  <2>4. CASE BridgeKeepsFuture(id)
    <3>1. /\ futureJobs' = Append(futureJobs, id)
          /\ UNCHANGED <<contextVars, bridge, lastNotify>>
      BY <2>4 DEF BridgeKeepsFuture, NoNewNotify
    <3>2. id \in Nat
      BY <2>2, LenProperties DEF PipeInv, PipeTypes
    <3>3. Range(futureJobs') = Range(futureJobs) \cup {id}
      BY <1>0, <3>1, <3>2, RangeAppend
    <3>4. Flying' = Flying
      BY <2>1, <2>3, <3>3, FlyingIs, FlyingNext
    <3>5. Releases
      BY <2>1, <3>1, <3>4, NothingReleased DEF Alive
    <3> QED
      BY <3>5 DEF BindMove
  <2>5. CASE BridgeNotifies(id)
    <3>1. /\ pending' = pending \ {Binding(id)}
          /\ active' = IF Binding(id) \in DOMAIN jobs THEN Binding(id) ELSE NoId
          /\ lastNotify'.job = id
          /\ UNCHANGED <<jobs, announcements, nextBinding, bridge, futureJobs>>
      BY <2>5 DEF BridgeNotifies, Notify, SetActiveJobBinding
    <3>2. Bindings({id}) = {Binding(id)}
      BY DEF Bindings
    <3>3. Flying' = Flying \ {id}
      BY <2>1, <2>2, <2>3, <3>1, FlyingIs, FlyingNext
    <3>4. Releasing({id})
      BY <2>1, <3>1, <3>2, <3>3 DEF Releasing
    <3>5. Activates
      BY <2>1, <2>2, <3>1, <3>4 DEF Activates, Alive
    <3> QED
      BY <3>5 DEF BindMove
  <2>6. CASE BridgeRefusesJob
    <3>1. Loses
      BY <2>1, <2>6 DEF BridgeRefusesJob, NoNewNotify, Loses, Alive
    <3> QED
      BY <3>1 DEF BindMove
  <2> QED
    BY <2>1, <2>4, <2>5, <2>6
<1>2. CASE BridgePrevHash
  <2> DEFINE m == Head(workQ)
  <2>1. /\ bridge = "running" /\ workQ # <<>> /\ m.type = "prevhash" /\ workQ' = Tail(workQ)
        /\ UNCHANGED <<publisherVars, inbox, loopVars>>
        /\ PrevHashMissesJob(m) \/ PrevHashActivatesJob(m) \/ PrevHashFails(m)
    BY <1>2 DEF BridgePrevHash, Work
  <2>2. Carried(workQ) = Carried(workQ')
    BY <1>0, <2>1, CarriedTail
  <2> HIDE DEF m
  <2>3. ASSUME futureJobs' = <<>>, pending' = pending \ Bindings(Range(futureJobs)),
               UNCHANGED <<jobs, announcements, nextBinding>>
        PROVE  Releasing(Range(futureJobs))
    <3>1. Range(futureJobs') = {}
      BY <2>3, EmptyQueue
    <3>2. /\ futureJ # 0 => futureJ \notin Range(futureJobs)
          /\ Range(futureJobs) \cap (Carried(outbox) \cup Carried(workQ)) = {}
      BY HeldIsApart
    <3>3. Flying' = Flying \ Range(futureJobs)
      BY <2>1, <2>2, <3>1, <3>2, FlyingIs, FlyingNext
    <3> QED
      BY <2>1, <2>3, <3>3 DEF Releasing
  <2>4. CASE PrevHashMissesJob(m)
    <3>1. /\ futureJobs' = <<>> /\ pending' = pending \ Bindings(Range(futureJobs))
          /\ UNCHANGED <<jobs, announcements, nextBinding, active, bridge, lastNotify>>
      BY <2>4 DEF PrevHashMissesJob, NoNewNotify
    <3>2. Releasing(Range(futureJobs))
      BY <2>3, <3>1
    <3>3. Releases
      BY <2>1, <3>1, <3>2 DEF Releases, Alive
    <3> QED
      BY <3>3 DEF BindMove
  <2>5. CASE PrevHashActivatesJob(m)
    <3>1. /\ futureJobs' = <<>> /\ pending' = pending \ Bindings(Range(futureJobs))
          /\ active' = IF Binding(m.id) \in DOMAIN jobs THEN Binding(m.id) ELSE NoId
          /\ lastNotify'.job = m.id
          /\ m.id \in Range(futureJobs)
          /\ UNCHANGED <<jobs, announcements, nextBinding, bridge>>
      BY <2>5 DEF PrevHashActivatesJob
    <3>2. Releasing(Range(futureJobs))
      BY <2>3, <3>1
    <3>3. m.id \in DOMAIN published
      BY <3>1 DEF PipeInv, OnePlace
    <3>4. Activates
      BY <2>1, <3>1, <3>2, <3>3 DEF Activates, Alive
    <3> QED
      BY <3>4 DEF BindMove
  <2>6. CASE PrevHashFails(m)
    <3>1. Loses
      BY <2>1, <2>6 DEF PrevHashFails, NoNewNotify, Loses, Alive
    <3> QED
      BY <3>1 DEF BindMove
  <2> QED
    BY <2>1, <2>4, <2>5, <2>6
<1> QED
  BY <1>1, <1>2 DEF BridgeWork

LEMMA RestartBinds ==
    ASSUME NEW m \in {"jd", "pool"}, Restart(m)
    PROVE  Begins
<1> USE DEF contextVars
<1>1. /\ futureJ' = 0 /\ outbox' = <<>> /\ workQ' = <<>> /\ futureJobs' = <<>>
      /\ claimed' = <<>> /\ published' = <<>> /\ lastNotify' = NoNotify
      /\ leftover' = pending' /\ stale' = (m = "pool" /\ announcements # <<>>)
      /\ ContextOfSession(m)
  BY DEF Restart
<1>2. Range(futureJobs') = {} /\ Carried(outbox') = {} /\ Carried(workQ') = {}
  BY <1>1, EmptyQueue, CarriedFacts
<1>3. Flying' = {}
  BY <1>1, <1>2, FlyingNext
<1>4. CASE m = "jd"
  BY <1>1, <1>3, <1>4 DEF ContextOfSession, BeginTemplateSession, Begins
<1>5. CASE m = "pool"
  BY <1>1, <1>3, <1>5 DEF ContextOfSession, Begins
<1> QED
  BY <1>4, <1>5

LEMMA BindStep ==
    ASSUME PipeInv, StartInv, BindInv, [PipeNext]_pipeVars
    PROVE  BindInv'
<1>1. BindTypes /\ PipeTypes
  BY DEF BindInv, PipeInv
<1>2. BindMove
  <2>1. CASE Publisher
    BY <1>1, <2>1, PublisherBinds
  <2>2. CASE Loop \/ HandleSetTarget \/ HandleClose \/ UNCHANGED pipeVars
    BY <1>1, <2>2, LoopBinds
  <2>3. CASE BridgeWork
    BY <1>1, <2>3, BridgeBinds
  <2>4. CASE \E m \in {"jd", "pool"} : Restart(m)
    BY <2>4, RestartBinds DEF BindMove
  <2> QED
    BY <2>1, <2>2, <2>3, <2>4 DEF PipeNext
<1> QED
  BY <1>1, <1>2, BoundKept, AnnouncedKept, PublishedKept, ClaimedKept, ReleasedKept,
     ActivatedKept, LostKept, BegunKept DEF BindMove

LEMMA BindInit ==
    ASSUME PipeInit
    PROVE  StartInv /\ BindInv
<1> USE DEF PipeInit, FreshTranslator
<1>1. StartInv
  <2>1. \A i \in 1 .. Len(inbox) : i = 1
    OBVIOUS
  <2> QED
    BY <2>1 DEF StartInv
<1>2. Range(<<>>) = {} /\ BindingsOf(<<>>) = {} /\ OnceBound(<<>>) /\ <<>> \in Seq(Announcements)
  BY EmptyQueue DEF BindingsOf, OnceBound
<1>3. DOMAIN claimed = {} /\ Claims = {} /\ OnceClaimed(claimed) /\ DOMAIN jobs = {}
  BY DEF Claims, OnceClaimed
<1>4. BindTypes
  BY <1>2, <1>3 DEF BindTypes, NoId
<1>5. Apart
  BY <1>2, <1>3 DEF Apart
<1>6. Owned
  BY <1>2, <1>3 DEF Owned, NoNotify
<1>7. PendingIsQueued
  BY <1>3 DEF PendingIsQueued
<1> QED
  BY <1>1, <1>4, <1>5, <1>6, <1>7 DEF BindInv

LEMMA BindInvHolds == PipeSpec => []BindInv
<1>1. PipeInit => PipeInv /\ StartInv /\ BindInv
  BY PipeInit_PipeInv, BindInit
<1>2. PipeInv /\ StartInv /\ BindInv /\ [PipeNext]_pipeVars => (PipeInv /\ StartInv /\ BindInv)'
  <2> SUFFICES ASSUME PipeInv, StartInv, BindInv, [PipeNext]_pipeVars
               PROVE  (PipeInv /\ StartInv /\ BindInv)'
    OBVIOUS
  <2>1. StartInv'
    BY StartStep DEF PipeInv
  <2> QED
    BY <2>1, PipeStep, BindStep
<1> QED
  BY <1>1, <1>2, PTL DEF PipeSpec

\* While a session's tasks live, the context's pending bindings are those of the jobs
\* that are claimed and not yet notified (claim_job_binding_pending,
\* set_active_job_binding and clear_pending_job_binding, called by three tasks), besides
\* the ones an earlier session left: for every limit of bindings and announcements, any
\* number of jobs, blocks and sessions, and however the bridge and the main loop interleave.
THEOREM PendingIsQueuedHolds == PipeSpec => []PendingIsQueued
<1>1. BindInv => PendingIsQueued
  BY DEF BindInv
<1> QED
  BY <1>1, BindInvHolds, PTL

\* A job travels with the binding that was announced for it or with none, and the active
\* binding is the one of the last notify, although announcements are matched by job id
\* alone, are dropped at MAX_JOB_ANNOUNCEMENTS and may be left over from another session.
THEOREM BindingIsItsJobHolds == PipeSpec => []BindingIsItsJobUnlessStale
<1>1. BindInv => BindingIsItsJobUnlessStale
  BY DEF BindInv, Owned, BindingIsItsJobUnlessStale
<1> QED
  BY <1>1, BindInvHolds, PTL

=============================================================================
