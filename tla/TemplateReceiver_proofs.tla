------------------------- MODULE TemplateReceiver_proofs -------------------------
(***************************************************************************)
(* Theorems about the template task, for every number of templates, blocks *)
(* and sessions.                                                           *)
(***************************************************************************)
EXTENDS TemplateReceiver, SequenceTheorems, TLAPS

-----------------------------------------------------------------------------
(* The task never waits on itself *)

LEMMA HandledStep ==
    ASSUME NeverWaitsOnItself, [Next]_receiverVars
    PROVE  NeverWaitsOnItself'
<1> USE DEF NeverWaitsOnItself
<1>1. CASE Provider
  BY <1>1 DEF Provider, TPFutureTemplate, TPSetNewPrevHash, TPMempoolTemplate,
              TPAnswer, flagVars
<1>2. CASE SetChannelFactory
  BY <1>2 DEF SetChannelFactory, flagVars
<1>3. CASE GetLastToken \/ BufferTemplate \/ OnTemplateNotFound
  BY <1>3 DEF GetLastToken, BufferTemplate, OnTemplateNotFound, flagVars
<1>4. CASE \E t \in Templates : OnNewTemplate(t) \/ OnNewTemplateDiscardingLast(t)
  BY <1>4 DEF OnNewTemplate, OnNewTemplateDiscardingLast, RequestTemplate
<1>5. CASE \E t \in Templates : SkipTemplate(t)
  BY <1>5 DEF SkipTemplate, flagVars
<1>6. CASE \E t \in Templates : OnSetNewPrevHash(t)
  BY <1>6 DEF OnSetNewPrevHash
<1>7. CASE \E t \in Templates : OnTransactionData(t) \/ OnStaleTemplate(t)
  BY <1>7 DEF OnTransactionData, OnStaleTemplate, EndRequest, flagVars
<1>8. CASE Publish
  BY <1>8 DEF Publish, PublishWithoutChannel, PublishJob, PublishFails
<1>9. CASE AskRestart \/ Restart \/ Quiet
  BY <1>9 DEF AskRestart, Restart, Quiet, receiverVars, flagVars
<1>10. CASE UNCHANGED receiverVars
  BY <1>10 DEF receiverVars
<1> QED
  BY <1>1, <1>2, <1>3, <1>4, <1>5, <1>6, <1>7, <1>8, <1>9, <1>10 DEF Next, Loop

\* Whatever happens to a template, IS_NEW_TEMPLATE_HANDLED is up again when the
\* task reads the next message, so the wait of SetNewPrevHash ends at once.
THEOREM NeverWaitsHolds == Spec => []NeverWaitsOnItself
<1>1. Init => NeverWaitsOnItself
  BY DEF Init, NeverWaitsOnItself
<1>2. NeverWaitsOnItself /\ [Next]_receiverVars => NeverWaitsOnItself'
  BY HandledStep
<1> QED
  BY <1>1, <1>2, PTL DEF Spec

-----------------------------------------------------------------------------
(* What is declared is what was published *)

LEMMA BackedStep ==
    ASSUME PendingIsBacked, [Next]_receiverVars
    PROVE  PendingIsBacked'
<1> USE DEF PendingIsBacked
<1>1. CASE Provider
  BY <1>1 DEF Provider, TPFutureTemplate, TPSetNewPrevHash, TPMempoolTemplate, TPAnswer
<1>2. CASE SetChannelFactory
  BY <1>2 DEF SetChannelFactory
<1>3. CASE GetLastToken \/ BufferTemplate \/ OnTemplateNotFound
  BY <1>3 DEF GetLastToken, BufferTemplate, OnTemplateNotFound
<1>4. CASE \E t \in Templates : OnNewTemplate(t) \/ OnNewTemplateDiscardingLast(t)
  <2> PICK t \in Templates : OnNewTemplate(t) \/ OnNewTemplateDiscardingLast(t)
    BY <1>4
  <2>1. NextTemplate(t) /\ RequestTemplate(t)
    BY DEF OnNewTemplate, OnNewTemplateDiscardingLast
  <2>2. lastToken
    BY <2>1 DEF NextTemplate, Receive
  <2> QED
    BY <2>1, <2>2 DEF RequestTemplate
<1>5. CASE \E t \in Templates : SkipTemplate(t)
  BY <1>5 DEF SkipTemplate
<1>6. CASE \E t \in Templates : OnSetNewPrevHash(t)
  BY <1>6 DEF OnSetNewPrevHash
<1>7. CASE \E t \in Templates : OnTransactionData(t) \/ OnStaleTemplate(t)
  BY <1>7 DEF OnTransactionData, OnStaleTemplate, EndRequest
<1>8. CASE Publish
  BY <1>8 DEF Publish, PublishWithoutChannel, PublishJob, PublishFails
<1>9. CASE AskRestart \/ Restart \/ Quiet
  BY <1>9 DEF AskRestart, Restart, Quiet, receiverVars
<1>10. CASE UNCHANGED receiverVars
  BY <1>10 DEF receiverVars
<1> QED
  BY <1>1, <1>2, <1>3, <1>4, <1>5, <1>6, <1>7, <1>8, <1>9, <1>10 DEF Next, Loop

\* The job handed to the job declarator is the one published for the template
\* whose transactions arrived, and the token it is declared with is there.
THEOREM PendingIsBackedHolds == Spec => []PendingIsBacked
<1>1. Init => PendingIsBacked
  BY DEF Init, PendingIsBacked
<1>2. PendingIsBacked /\ [Next]_receiverVars => PendingIsBacked'
  BY BackedStep
<1> QED
  BY <1>1, <1>2, PTL DEF Spec

-----------------------------------------------------------------------------
(* Work on its tip *)

\* The messages that carry the order of templates and prev hashes.
Feed == {"NewTemplate", "SetNewPrevHash"}
At(i, kind, t) == inbox[i].kind = kind /\ inbox[i].t = t
Announcing(t) == \E i \in 1 .. Len(inbox) : At(i, "SetNewPrevHash", t)

\* f is the last future template up to n.
Latest(f, n) ==
    /\ f \in 1 .. n /\ template[f].future
    /\ \A u \in f + 1 .. n : ~template[u].future

FeedTypes ==
    /\ template \in Seq([future : BOOLEAN, tip : Nat])
    /\ tip \in Nat
    /\ inbox \in Seq([kind : Kinds, t : Nat])
    /\ \A i \in 1 .. Len(inbox) : inbox[i].kind \in Feed => inbox[i].t \in Templates
    /\ txRequests \in Seq(Nat)
    /\ prevHash \in Templates \cup {None}
    /\ pendingNew \in Templates \cup {None}
    /\ rx = "publishing" => pendingTx \in Templates
    /\ ~channel => prevHash = None

\* The provider: a template that is not a future one builds on the tip of the
\* last future one before it.
TemplatesOnTip ==
    /\ \A t, f \in Templates :
           ~template[t].future /\ Latest(f, t) => template[f].tip = template[t].tip
    /\ \A f \in Templates : Latest(f, Len(template)) => template[f].tip = tip

\* The connection: templates arrive in the order of their numbers, each future
\* one followed by its prev hash before the next template.
Before(m, n) ==
    m.kind \in Feed /\ n.kind \in Feed =>
        \/ m.t < n.t
        \/ m.t = n.t /\ m.kind = "NewTemplate" /\ n.kind = "SetNewPrevHash"

Ordered ==
    /\ \A i, j \in 1 .. Len(inbox) : i < j => Before(inbox[i], inbox[j])
    /\ \A i \in 1 .. Len(inbox) : inbox[i].kind \in Feed => prevHash < inbox[i].t
    /\ tp = "future" =>
           /\ Len(template) \in Templates /\ template[Len(template)].future
           /\ prevHash < Len(template)
           /\ ~Announcing(Len(template))

\* No prev hash is skipped: behind a prev hash the ones of all later future
\* templates follow.
Announced ==
    \A f \in Templates : f = prevHash \/ Announcing(f) =>
        /\ template[f].future
        /\ \A g \in f + 1 .. Len(template) :
               template[g].future => Announcing(g) \/ (tp = "future" /\ g = Len(template))

\* The template right before a prev hash is the future one it announces.
Paired ==
    /\ \A i, j \in 1 .. Len(inbox) :
           /\ i < j
           /\ inbox[i].kind = "NewTemplate" /\ inbox[j].kind = "SetNewPrevHash"
           /\ inbox[i].t # inbox[j].t
           => \E k \in i + 1 .. j - 1 : At(k, "NewTemplate", inbox[j].t)
    /\ tp = "future" =>
           \A i \in 1 .. Len(inbox) :
               inbox[i].kind = "NewTemplate" /\ inbox[i].t # Len(template) =>
                   \E k \in i + 1 .. Len(inbox) : At(k, "NewTemplate", Len(template))

\* A template to be published under the last prev hash: that one came before it
\* and the next comes after it.
Current(t) ==
    ~template[t].future =>
        /\ prevHash < t
        /\ \A i \in 1 .. Len(inbox) : inbox[i].kind = "SetNewPrevHash" => t < inbox[i].t

\* The buffered template, and the one being published, are current; the buffered
\* one, unless future, is replaced before the next prev hash arrives.
Fresh ==
    /\ pendingNew # None => Current(pendingNew)
    /\ pendingNew # None /\ ~template[pendingNew].future =>
           /\ \A i \in 1 .. Len(inbox) :
                  inbox[i].kind = "SetNewPrevHash" =>
                      \E k \in 1 .. i - 1 : At(k, "NewTemplate", inbox[i].t)
           /\ tp = "future" =>
                  \E k \in 1 .. Len(inbox) : At(k, "NewTemplate", Len(template))
    /\ rx = "publishing" => Current(pendingTx)

WorkInv ==
    /\ work.t \in Templates \cup {None} /\ work.on \in Templates \cup {None}
    /\ WorkOnItsTip

FeedInv == FeedTypes /\ TemplatesOnTip /\ Ordered /\ Announced /\ Paired /\ Fresh /\ WorkInv

-----------------------------------------------------------------------------
(* What a step does to the feed, whichever action takes it *)

Grow(future, height) ==
    /\ Len(template') = Len(template) + 1
    /\ \A u \in Templates : template'[u] = template[u]
    /\ template'[Len(template) + 1] = [future |-> future, tip |-> height]

Enqueue(kind, t) ==
    /\ Len(inbox') = Len(inbox) + 1
    /\ \A i \in 1 .. Len(inbox) : inbox'[i] = inbox[i]
    /\ inbox'[Len(inbox) + 1].kind = kind /\ inbox'[Len(inbox) + 1].t = t

Dequeue ==
    /\ Len(inbox) >= 1
    /\ Len(inbox') = Len(inbox) - 1
    /\ \A i \in 1 .. Len(inbox) - 1 : inbox'[i] = inbox[i + 1]

taskState == <<prevHash, pendingNew, pendingTx, rx>>

SendsFuture ==
    /\ Grow(TRUE, tip') /\ Enqueue("NewTemplate", Len(template) + 1)
    /\ tp # "future" /\ tp' = "future" /\ UNCHANGED taskState
SendsMempool ==
    /\ Grow(FALSE, tip) /\ Enqueue("NewTemplate", Len(template) + 1)
    /\ tp = "announced" /\ UNCHANGED <<tip, tp, taskState>>
SendsPrevHash ==
    /\ tp = "future" /\ tp' = "announced"
    /\ Enqueue("SetNewPrevHash", Len(template))
    /\ UNCHANGED <<template, tip, taskState>>
SendsAnswer ==
    /\ \E kind \in Kinds \ Feed, t \in Nat : Enqueue(kind, t)
    /\ UNCHANGED <<template, tip, tp, taskState>>
DropsAnswer ==
    /\ Dequeue /\ inbox[1].kind \notin Feed
    /\ rx = "loop" /\ rx' = "loop"
    /\ UNCHANGED <<template, tip, tp, prevHash, pendingNew>>
TakesTemplate ==
    /\ Dequeue /\ inbox[1].kind = "NewTemplate"
    /\ pendingNew' \in {inbox[1].t, None}
    /\ rx = "loop"
    /\ \/ rx' = "loop"
       \/ rx' = "publishing" /\ pendingTx' = inbox[1].t
    /\ UNCHANGED <<template, tip, tp, prevHash>>
TakesPrevHash ==
    /\ Dequeue /\ inbox[1].kind = "SetNewPrevHash"
    /\ \/ prevHash' = inbox[1].t
       \/ prevHash = None /\ prevHash' = None
    /\ rx = "loop" /\ rx' = "loop"
    /\ UNCHANGED <<template, tip, tp, pendingNew>>
TakesBuffered ==
    /\ pendingNew # None /\ pendingNew' = None
    /\ \/ rx' = "loop"
       \/ rx' = "publishing" /\ pendingTx' = pendingNew
    /\ UNCHANGED <<template, tip, tp, inbox, prevHash>>
StartsOver ==
    /\ inbox' = << >> /\ prevHash' = None /\ pendingNew' = None
    /\ rx' = "loop" /\ tp' = "connected"
    /\ UNCHANGED <<template, tip>>
LeavesFeed ==
    /\ tp' = "future" <=> tp = "future"
    /\ \/ rx' = "loop"
       \/ UNCHANGED <<rx, pendingTx>>
    /\ UNCHANGED <<template, tip, inbox, prevHash, pendingNew>>

FeedStep ==
    \/ SendsFuture \/ SendsMempool \/ SendsPrevHash \/ SendsAnswer \/ DropsAnswer
    \/ TakesTemplate \/ TakesPrevHash \/ TakesBuffered \/ StartsOver \/ LeavesFeed

LEMMA EnqueueAppends ==
    ASSUME FeedTypes, NEW kind \in Kinds, NEW t \in Nat,
           inbox' = Append(inbox, Message(kind, t))
    PROVE  Enqueue(kind, t) /\ inbox' \in Seq([kind : Kinds, t : Nat])
BY DEF FeedTypes, Enqueue, Message

LEMMA ReceiveDequeues ==
    ASSUME FeedTypes, NEW kind, Receive(kind)
    PROVE  /\ Dequeue /\ inbox' \in Seq([kind : Kinds, t : Nat])
           /\ Head(inbox) = inbox[1] /\ inbox[1].kind = kind
           /\ rx = "loop" /\ ~UsePending
<1>1. inbox # << >> /\ inbox' = Tail(inbox) /\ inbox \in Seq([kind : Kinds, t : Nat])
  BY DEF Receive, FeedTypes
<1>2. Dequeue /\ inbox' \in Seq([kind : Kinds, t : Nat])
  BY <1>1, HeadTailProperties DEF Dequeue
<1> QED
  BY <1>1, <1>2 DEF Receive

LEMMA GrowAppends ==
    ASSUME FeedTypes, NEW future \in BOOLEAN, NEW height \in Nat, Issue(future, height)
    PROVE  /\ Grow(future, height) /\ Enqueue("NewTemplate", Len(template) + 1)
           /\ template' \in Seq([future : BOOLEAN, tip : Nat])
           /\ inbox' \in Seq([kind : Kinds, t : Nat])
<1>1. Grow(future, height) /\ template' \in Seq([future : BOOLEAN, tip : Nat])
  BY DEF FeedTypes, Issue, Grow, Templates
<1>2. "NewTemplate" \in Kinds /\ Len(template) + 1 \in Nat
  BY DEF Kinds, FeedTypes
<1> QED
  BY <1>1, <1>2, EnqueueAppends DEF Issue

\* Every step of the task and of the provider is one of these.
LEMMA FeedMoves ==
    ASSUME FeedTypes, [Next]_receiverVars
    PROVE  /\ FeedStep
           /\ inbox' \in Seq([kind : Kinds, t : Nat])
           /\ template' \in Seq([future : BOOLEAN, tip : Nat])
           /\ tip' \in Nat
           /\ txRequests' \in Seq(Nat)
           /\ ~channel' => prevHash' = None
<1> USE DEF None
<1> DEFINE Kept ==
        /\ inbox' \in Seq([kind : Kinds, t : Nat])
        /\ template' \in Seq([future : BOOLEAN, tip : Nat])
        /\ tip' \in Nat
        /\ txRequests' \in Seq(Nat)
        /\ ~channel' => prevHash' = None
<1>1. CASE TPFutureTemplate
  <2>1. tip' \in Nat
    BY <1>1 DEF TPFutureTemplate, FeedTypes
  <2>2. Issue(TRUE, tip')
    BY <1>1 DEF TPFutureTemplate
  <2>3. SendsFuture
    BY <1>1, <2>1, <2>2, GrowAppends DEF TPFutureTemplate, SendsFuture, taskState, factoryVars
  <2>4. Kept
    BY <1>1, <2>1, <2>2, GrowAppends DEF TPFutureTemplate, factoryVars, FeedTypes
  <2> QED
    BY <2>3, <2>4 DEF FeedStep
<1>2. CASE TPMempoolTemplate
  <2>1. tip \in Nat /\ Issue(FALSE, tip)
    BY <1>2 DEF TPMempoolTemplate, FeedTypes
  <2>2. SendsMempool
    BY <1>2, <2>1, GrowAppends DEF TPMempoolTemplate, SendsMempool, taskState, factoryVars
  <2>3. Kept
    BY <1>2, <2>1, GrowAppends DEF TPMempoolTemplate, factoryVars, FeedTypes
  <2> QED
    BY <2>2, <2>3 DEF FeedStep
<1>3. CASE TPSetNewPrevHash
  <2>1. "SetNewPrevHash" \in Kinds /\ Len(template) \in Nat
    BY DEF Kinds, FeedTypes
  <2>2. /\ Enqueue("SetNewPrevHash", Len(template))
        /\ inbox' \in Seq([kind : Kinds, t : Nat])
    BY <1>3, <2>1, EnqueueAppends DEF TPSetNewPrevHash
  <2>3. SendsPrevHash
    BY <1>3, <2>2 DEF TPSetNewPrevHash, SendsPrevHash, taskState, factoryVars
  <2>4. Kept
    BY <1>3, <2>2 DEF TPSetNewPrevHash, factoryVars, FeedTypes
  <2> QED
    BY <2>3, <2>4 DEF FeedStep
<1>4. CASE TPAnswer
  <2>1. /\ Head(txRequests) \in Nat /\ Tail(txRequests) \in Seq(Nat)
    BY <1>4, HeadTailProperties DEF TPAnswer, FeedTypes
  <2>2. PICK kind \in Answers(Head(txRequests)) :
            inbox' = Append(inbox, Message(kind, Head(txRequests)))
    BY <1>4 DEF TPAnswer
  <2>3. kind \in Kinds \ Feed
    BY ReceiverAssumption DEF ReceiverAssumption, Answers, Kinds, Feed
  <2>4. /\ Enqueue(kind, Head(txRequests))
        /\ inbox' \in Seq([kind : Kinds, t : Nat])
    BY <2>1, <2>2, <2>3, EnqueueAppends
  <2>5. SendsAnswer
    BY <1>4, <2>1, <2>3, <2>4 DEF TPAnswer, SendsAnswer, taskState, factoryVars, providerVars
  <2>6. Kept
    BY <1>4, <2>1, <2>4 DEF TPAnswer, factoryVars, providerVars, FeedTypes
  <2> QED
    BY <2>5, <2>6 DEF FeedStep
<1>5. CASE SetChannelFactory \/ AskRestart \/ Quiet \/ GetLastToken
  <2>1. LeavesFeed
    BY <1>5 DEF SetChannelFactory, AskRestart, Quiet, GetLastToken, LeavesFeed,
                providerVars, factoryVars, receiverVars
  <2>2. Kept
    BY <1>5 DEF SetChannelFactory, AskRestart, Quiet, GetLastToken, providerVars,
                factoryVars, receiverVars, FeedTypes
  <2> QED
    BY <2>1, <2>2 DEF FeedStep
<1>6. CASE BufferTemplate
  <2>1. Receive("NewTemplate")
    BY <1>6 DEF BufferTemplate
  <2>2. TakesTemplate
    BY <1>6, <2>1, ReceiveDequeues DEF BufferTemplate, TakesTemplate, providerVars, factoryVars
  <2>3. Kept
    BY <1>6, <2>1, ReceiveDequeues DEF BufferTemplate, providerVars, factoryVars, FeedTypes
  <2> QED
    BY <2>2, <2>3 DEF FeedStep
<1>7. CASE \E t \in Templates :
               OnNewTemplate(t) \/ OnNewTemplateDiscardingLast(t) \/ SkipTemplate(t)
  <2> PICK t \in Templates :
               OnNewTemplate(t) \/ OnNewTemplateDiscardingLast(t) \/ SkipTemplate(t)
    BY <1>7
  <2>1. /\ NextTemplate(t)
        /\ \/ rx' = "publishing" /\ pendingTx' = t
           \/ rx' = rx
        /\ UNCHANGED <<template, tip, tp, prevHash, channel>>
        /\ txRequests' \in {txRequests, Append(txRequests, t)}
    BY DEF OnNewTemplate, OnNewTemplateDiscardingLast, SkipTemplate, RequestTemplate,
           providerVars, factoryVars
  <2>2. txRequests' \in Seq(Nat)
    <3>1. t \in Nat /\ txRequests \in Seq(Nat)
      BY DEF FeedTypes, Templates
    <3> QED
      BY <2>1, <3>1, AppendProperties
  <2>3. CASE UsePending /\ t = pendingNew /\ pendingNew' = None /\ inbox' = inbox
             /\ rx = "loop"
    <3>1. TakesBuffered
      BY <2>1, <2>3 DEF TakesBuffered, UsePending
    <3>2. Kept
      BY <2>1, <2>2, <2>3 DEF FeedTypes
    <3> QED
      BY <3>1, <3>2 DEF FeedStep
  <2>4. CASE Receive("NewTemplate") /\ ReadyForTemplate /\ t = Head(inbox).t
             /\ pendingNew' = pendingNew
    <3>1. pendingNew = None
      BY <2>4, ReceiveDequeues DEF UsePending
    <3>2. TakesTemplate
      BY <2>1, <2>4, <3>1, ReceiveDequeues DEF TakesTemplate
    <3>3. Kept
      BY <2>1, <2>2, <2>4, ReceiveDequeues DEF FeedTypes
    <3> QED
      BY <3>2, <3>3 DEF FeedStep
  <2> QED
    BY <2>1, <2>3, <2>4 DEF NextTemplate
<1>8. CASE \E t \in Templates : OnSetNewPrevHash(t)
  <2> PICK t \in Templates : OnSetNewPrevHash(t)
    BY <1>8
  <2>1. Receive("SetNewPrevHash") /\ t = Head(inbox).t
    BY DEF OnSetNewPrevHash
  <2>2. \/ channel /\ prevHash' = t
        \/ ~channel /\ prevHash' = prevHash
    BY DEF OnSetNewPrevHash, factoryVars
  <2>3. TakesPrevHash
    BY <2>1, <2>2, ReceiveDequeues
    DEF OnSetNewPrevHash, TakesPrevHash, providerVars, FeedTypes
  <2>4. Kept
    BY <2>1, <2>2, ReceiveDequeues DEF OnSetNewPrevHash, providerVars, FeedTypes
  <2> QED
    BY <2>3, <2>4 DEF FeedStep
<1>9. CASE \/ \E t \in Templates : OnTransactionData(t) \/ OnStaleTemplate(t)
           \/ OnTemplateNotFound
  <2>1. PICK kind \in {"TxDataSuccess", "TxDataStale", "TxDataNotFound"} : Receive(kind)
    BY <1>9 DEF OnTransactionData, OnStaleTemplate, OnTemplateNotFound
  <2>2. UNCHANGED <<template, tip, tp, prevHash, pendingNew, rx, txRequests, channel>>
    BY <1>9 DEF OnTransactionData, OnStaleTemplate, OnTemplateNotFound, EndRequest,
                providerVars, factoryVars
  <2>3. DropsAnswer
    BY <2>1, <2>2, ReceiveDequeues DEF DropsAnswer, Feed
  <2>4. Kept
    BY <2>1, <2>2, ReceiveDequeues DEF FeedTypes
  <2> QED
    BY <2>3, <2>4 DEF FeedStep
<1>10. CASE Publish
  <2>1. LeavesFeed
    BY <1>10 DEF Publish, PublishWithoutChannel, PublishJob, PublishFails, LeavesFeed,
                 providerVars, factoryVars
  <2>2. Kept
    BY <1>10 DEF Publish, PublishWithoutChannel, PublishJob, PublishFails,
                 providerVars, factoryVars, FeedTypes
  <2> QED
    BY <2>1, <2>2 DEF FeedStep
<1>11. CASE Restart
  <2>1. StartsOver
    BY <1>11 DEF Restart, StartsOver
  <2>2. Kept
    BY <1>11 DEF Restart, FeedTypes
  <2> QED
    BY <2>1, <2>2 DEF FeedStep
<1>12. CASE UNCHANGED receiverVars
  <2>1. LeavesFeed
    BY <1>12 DEF receiverVars, LeavesFeed
  <2>2. Kept
    BY <1>12 DEF receiverVars, FeedTypes
  <2> QED
    BY <2>1, <2>2 DEF FeedStep
<1> QED
  BY <1>1, <1>2, <1>3, <1>4, <1>5, <1>6, <1>7, <1>8, <1>9, <1>10, <1>11, <1>12
  DEF Next, Provider, Loop

LEMMA FeedFacts ==
    ASSUME FeedTypes
    PROVE  /\ Len(inbox) \in Nat /\ Len(template) \in Nat
           /\ prevHash \in 0 .. Len(template) /\ pendingNew \in 0 .. Len(template)
           /\ \A i \in 1 .. Len(inbox) : inbox[i].t \in Nat
           /\ \A i \in 1 .. Len(inbox) :
                  inbox[i].kind \in Feed => 1 <= inbox[i].t /\ inbox[i].t <= Len(template)
<1>1. Len(inbox) \in Nat /\ Len(template) \in Nat
  BY DEF FeedTypes
<1>2. \A i \in 1 .. Len(inbox) : inbox[i] \in [kind : Kinds, t : Nat]
  BY ElementOfSeq DEF FeedTypes
<1>3. \A i \in 1 .. Len(inbox) : inbox[i].t \in Nat
  BY <1>2
<1>4. /\ prevHash \in 0 .. Len(template) /\ pendingNew \in 0 .. Len(template)
      /\ \A i \in 1 .. Len(inbox) : inbox[i].kind \in Feed => inbox[i].t \in 1 .. Len(template)
  BY <1>1 DEF FeedTypes, Templates, None
<1> QED
  BY <1>1, <1>3, <1>4

LEMMA FeedTypesStep ==
    ASSUME FeedTypes, Ordered, [Next]_receiverVars
    PROVE  FeedTypes'
<1>1. /\ FeedStep
      /\ inbox' \in Seq([kind : Kinds, t : Nat])
      /\ template' \in Seq([future : BOOLEAN, tip : Nat])
      /\ tip' \in Nat /\ txRequests' \in Seq(Nat)
      /\ ~channel' => prevHash' = None
  BY FeedMoves
<1>2. Len(inbox) \in Nat /\ Len(template) \in Nat
  BY FeedFacts
<1>3. Len(template') \in {Len(template), Len(template) + 1}
  BY <1>1 DEF FeedStep, SendsFuture, SendsMempool, SendsPrevHash, SendsAnswer, DropsAnswer,
              TakesTemplate, TakesPrevHash, TakesBuffered, StartsOver, LeavesFeed, Grow
<1>4. Templates \subseteq Templates'
  BY <1>2, <1>3 DEF Templates
<1>5. 1 \in 1 .. Len(inbox) /\ inbox[1].kind \in Feed => inbox[1].t \in Templates
  BY DEF FeedTypes
<1>6. /\ prevHash' \in Templates' \cup {None}
      /\ pendingNew' \in Templates' \cup {None}
      /\ rx' = "publishing" => pendingTx' \in Templates'
  <2>1. CASE SendsFuture \/ SendsMempool \/ SendsPrevHash \/ SendsAnswer
    BY <1>4, <2>1 DEF SendsFuture, SendsMempool, SendsPrevHash, SendsAnswer, taskState, FeedTypes
  <2>2. CASE DropsAnswer \/ StartsOver \/ TakesBuffered \/ LeavesFeed
    BY <1>4, <2>2 DEF DropsAnswer, StartsOver, TakesBuffered, LeavesFeed, FeedTypes
  <2>3. CASE TakesTemplate \/ TakesPrevHash
    <3>1. inbox[1].t \in Templates
      BY <1>2, <1>5, <2>3 DEF TakesTemplate, TakesPrevHash, Dequeue, Feed
    <3> QED
      BY <1>4, <2>3, <3>1 DEF TakesTemplate, TakesPrevHash, FeedTypes
  <2> QED
    BY <1>1, <2>1, <2>2, <2>3 DEF FeedStep
<1>7. ASSUME NEW i \in 1 .. Len(inbox'), inbox'[i].kind \in Feed
      PROVE  inbox'[i].t \in Templates'
  <2>1. \A j \in 1 .. Len(inbox) : inbox[j].kind \in Feed => inbox[j].t \in Templates'
    BY <1>4 DEF FeedTypes
  <2>2. CASE \E kind, t : Enqueue(kind, t) /\ (kind \in Feed => t \in Templates')
    <3>1. i \in 1 .. Len(inbox) \/ i = Len(inbox) + 1
      BY <1>2, <2>2 DEF Enqueue
    <3> QED
      BY <1>7, <2>1, <2>2, <3>1 DEF Enqueue
  <2>3. CASE Dequeue
    <3>1. i + 1 \in 1 .. Len(inbox) /\ inbox'[i] = inbox[i + 1]
      BY <1>2, <2>3 DEF Dequeue
    <3> QED
      BY <1>7, <2>1, <3>1
  <2>4. CASE inbox' = inbox \/ inbox' = << >>
    BY <1>7, <2>1, <2>4
  <2>5. CASE SendsFuture \/ SendsMempool
    <3>1. Len(template) + 1 \in Templates'
      BY <1>2, <2>5 DEF SendsFuture, SendsMempool, Grow, Templates
    <3> QED
      BY <2>2, <2>5, <3>1 DEF SendsFuture, SendsMempool
  <2>6. CASE SendsPrevHash
    <3>1. Len(template) \in Templates'
      BY <1>2, <2>6 DEF SendsPrevHash, Ordered, Templates
    <3> QED
      BY <2>2, <2>6, <3>1 DEF SendsPrevHash
  <2>7. CASE SendsAnswer
    BY <2>2, <2>7 DEF SendsAnswer
  <2> QED
    BY <1>1, <2>3, <2>4, <2>5, <2>6, <2>7
    DEF FeedStep, DropsAnswer, TakesTemplate, TakesPrevHash, TakesBuffered, StartsOver,
        LeavesFeed
<1> QED
  BY <1>1, <1>6, <1>7 DEF FeedTypes

LEMMA TemplatesStep ==
    ASSUME FeedTypes, TemplatesOnTip, FeedStep
    PROVE  TemplatesOnTip'
<1>1. CASE UNCHANGED <<template, tip>>
  BY <1>1 DEF TemplatesOnTip, Latest, Templates
<1>2. CASE SendsFuture \/ SendsMempool
  <2>0. PICK n : n = Len(template) + 1
    OBVIOUS
  <2>1. PICK future \in BOOLEAN :
            /\ Grow(future, tip')
            /\ ~future => tip' = tip
    BY <1>2 DEF SendsFuture, SendsMempool
  <2>2. Len(template) \in Nat /\ Len(template') = n /\ Templates' = Templates \cup {n}
    BY <2>0, <2>1 DEF Grow, FeedTypes, Templates
  <2>3. /\ \A u \in Templates : template'[u] = template[u]
        /\ template'[n].future = future /\ template'[n].tip = tip'
    BY <2>0, <2>1 DEF Grow
  <2>4. ASSUME NEW f \in Templates', NEW t \in Templates, Latest(f, t)'
        PROVE  f \in Templates /\ Latest(f, t)
    BY <2>0, <2>2, <2>3, <2>4 DEF Latest, Templates
  <2>5. ASSUME NEW f \in Templates', Latest(f, n)'
        PROVE  template'[f].tip = tip'
    <3>1. CASE f = n
      BY <3>1, <2>3
    <3>2. CASE f # n
      <4>1. f \in Templates
        BY <2>2, <3>2
      <4>2. ~template'[n].future
        BY <2>0, <2>2, <2>5, <4>1 DEF Latest, Templates
      <4>3. Latest(f, Len(template))
        BY <2>0, <2>2, <2>3, <2>5, <4>1 DEF Latest, Templates
      <4> QED
        BY <2>1, <2>3, <4>1, <4>2, <4>3 DEF TemplatesOnTip
    <3> QED
      BY <3>1, <3>2
  <2>6. \A f \in Templates' : Latest(f, n)' => template'[f].tip = tip'
    BY <2>5
  <2>7. ASSUME NEW t \in Templates', NEW f \in Templates',
               ~template'[t].future, Latest(f, t)'
        PROVE  template'[f].tip = template'[t].tip
    <3>1. CASE t = n
      BY <2>3, <2>6, <2>7, <3>1
    <3>2. CASE t \in Templates
      BY <2>3, <2>4, <2>7, <3>2 DEF TemplatesOnTip
    <3> QED
      BY <2>2, <3>1, <3>2
  <2>8. \A t, f \in Templates' :
            ~template'[t].future /\ Latest(f, t)' => template'[f].tip = template'[t].tip
    BY <2>7
  <2>9. \A f \in Templates' : Latest(f, Len(template))' => template'[f].tip = tip'
    BY <2>2, <2>6 DEF Latest
  <2> QED
    BY <2>8, <2>9 DEF TemplatesOnTip
<1> QED
  BY <1>1, <1>2
  DEF FeedStep, SendsPrevHash, SendsAnswer, DropsAnswer, TakesTemplate, TakesPrevHash,
      TakesBuffered, StartsOver, LeavesFeed

LEMMA EnqueueKeepsOrder ==
    ASSUME FeedTypes, Ordered, NEW kind, NEW t, Enqueue(kind, t),
           \A i \in 1 .. Len(inbox) : Before(inbox[i], [kind |-> kind, t |-> t])
    PROVE  \A i, j \in 1 .. Len(inbox') : i < j => Before(inbox'[i], inbox'[j])
<1>1. Len(inbox) \in Nat
  BY FeedFacts
<1>2. SUFFICES ASSUME NEW i \in 1 .. Len(inbox'), NEW j \in 1 .. Len(inbox'), i < j
               PROVE  Before(inbox'[i], inbox'[j])
  OBVIOUS
<1>3. i \in 1 .. Len(inbox) /\ inbox'[i] = inbox[i]
  BY <1>1, <1>2 DEF Enqueue
<1>4. CASE j \in 1 .. Len(inbox)
  BY <1>2, <1>3, <1>4 DEF Enqueue, Ordered
<1>5. CASE j = Len(inbox) + 1
  BY <1>3, <1>5 DEF Enqueue, Before
<1> QED
  BY <1>1, <1>4, <1>5 DEF Enqueue

LEMMA DequeueKeepsOrder ==
    ASSUME FeedTypes, Ordered, Dequeue
    PROVE  /\ 1 \in 1 .. Len(inbox)
           /\ \A i \in 1 .. Len(inbox') :
                  i + 1 \in 1 .. Len(inbox) /\ 1 < i + 1 /\ inbox'[i] = inbox[i + 1]
           /\ \A f : Announcing(f)' => Announcing(f)
           /\ \A i, j \in 1 .. Len(inbox') : i < j => Before(inbox'[i], inbox'[j])
<1>1. Len(inbox) \in Nat
  BY FeedFacts
<1>2. /\ 1 \in 1 .. Len(inbox)
      /\ \A i \in 1 .. Len(inbox') :
             i + 1 \in 1 .. Len(inbox) /\ 1 < i + 1 /\ inbox'[i] = inbox[i + 1]
  BY <1>1 DEF Dequeue
<1>3. \A f : Announcing(f)' => Announcing(f)
  BY <1>2 DEF Announcing, At
<1>4. ASSUME NEW i \in 1 .. Len(inbox'), NEW j \in 1 .. Len(inbox'), i < j
      PROVE  Before(inbox'[i], inbox'[j])
  <2>1. i + 1 < j + 1
    BY <1>4
  <2> QED
    BY <1>2, <2>1 DEF Ordered
<1> QED
  BY <1>2, <1>3, <1>4

LEMMA OrderedStep ==
    ASSUME FeedTypes, Ordered, FeedStep
    PROVE  Ordered'
<1> USE DEF None
<1>1. /\ Len(inbox) \in Nat /\ Len(template) \in Nat
      /\ prevHash \in 0 .. Len(template)
      /\ \A i \in 1 .. Len(inbox) : inbox[i].t \in Nat
      /\ \A i \in 1 .. Len(inbox) : inbox[i].kind \in Feed => inbox[i].t <= Len(template)
  BY FeedFacts
<1>2. CASE SendsFuture \/ SendsMempool
  <2>1. /\ Enqueue("NewTemplate", Len(template) + 1)
        /\ Len(template') = Len(template) + 1
        /\ prevHash' = prevHash
        /\ tp' = "future" => template'[Len(template) + 1].future
    BY <1>2 DEF SendsFuture, SendsMempool, Grow, taskState
  <2>2. tp' = "future" => ~Announcing(Len(template))'
    BY <1>1, <2>1 DEF Announcing, At, Enqueue, Feed
  <2>3. \A i, j \in 1 .. Len(inbox') : i < j => Before(inbox'[i], inbox'[j])
    <3>1. \A i \in 1 .. Len(inbox) :
              Before(inbox[i], [kind |-> "NewTemplate", t |-> Len(template) + 1])
      BY <1>1 DEF Before
    <3> QED
      BY <2>1, <3>1, EnqueueKeepsOrder
  <2>4. \A i \in 1 .. Len(inbox') : inbox'[i].kind \in Feed => prevHash < inbox'[i].t
    BY <1>1, <2>1 DEF Ordered, Enqueue
  <2> QED
    BY <1>1, <2>1, <2>2, <2>3, <2>4 DEF Ordered, Templates
<1>3. CASE SendsPrevHash
  <2>1. /\ Enqueue("SetNewPrevHash", Len(template))
        /\ tp = "future" /\ tp' = "announced"
        /\ UNCHANGED <<template, prevHash>>
    BY <1>3 DEF SendsPrevHash, taskState
  <2>2. \A i \in 1 .. Len(inbox) :
            inbox[i].kind = "SetNewPrevHash" => inbox[i].t # Len(template)
    BY <2>1 DEF Ordered, Announcing, At
  <2>3. \A i, j \in 1 .. Len(inbox') : i < j => Before(inbox'[i], inbox'[j])
    <3>1. \A i \in 1 .. Len(inbox) :
              Before(inbox[i], [kind |-> "SetNewPrevHash", t |-> Len(template)])
      BY <1>1, <2>2 DEF Before, Feed
    <3> QED
      BY <2>1, <3>1, EnqueueKeepsOrder
  <2>4. \A i \in 1 .. Len(inbox') : inbox'[i].kind \in Feed => prevHash < inbox'[i].t
    BY <1>1, <2>1 DEF Ordered, Enqueue
  <2> QED
    BY <2>1, <2>3, <2>4 DEF Ordered
<1>4. CASE SendsAnswer
  <2>1. PICK kind \in Kinds \ Feed, t \in Nat : Enqueue(kind, t)
    BY <1>4 DEF SendsAnswer
  <2>2. UNCHANGED <<template, tp, prevHash>>
    BY <1>4 DEF SendsAnswer, taskState
  <2>3. \A i, j \in 1 .. Len(inbox') : i < j => Before(inbox'[i], inbox'[j])
    <3>1. \A i \in 1 .. Len(inbox) : Before(inbox[i], [kind |-> kind, t |-> t])
      BY DEF Before
    <3> QED
      BY <2>1, <3>1, EnqueueKeepsOrder
  <2>4. \A i \in 1 .. Len(inbox') : inbox'[i].kind \in Feed => prevHash < inbox'[i].t
    BY <1>1, <2>1 DEF Ordered, Enqueue
  <2>5. \A f : Announcing(f)' => Announcing(f)
    BY <1>1, <2>1 DEF Enqueue, Announcing, At, Feed
  <2> QED
    BY <2>2, <2>3, <2>4, <2>5 DEF Ordered, Templates
<1>5. CASE DropsAnswer \/ TakesTemplate
  <2>1. Dequeue /\ UNCHANGED <<template, tp, prevHash>>
    BY <1>5 DEF DropsAnswer, TakesTemplate
  <2>2. \A i \in 1 .. Len(inbox') : inbox'[i].kind \in Feed => prevHash < inbox'[i].t
    BY <2>1, DequeueKeepsOrder DEF Ordered
  <2> QED
    BY <2>1, <2>2, DequeueKeepsOrder DEF Ordered, Templates
<1>6. CASE TakesPrevHash
  <2>1. Dequeue /\ UNCHANGED <<template, tp>> /\ inbox[1].kind = "SetNewPrevHash"
    BY <1>6 DEF TakesPrevHash
  <2>2. \A i \in 1 .. Len(inbox') : inbox'[i].kind \in Feed => prevHash' < inbox'[i].t
    <3>1. CASE prevHash' = inbox[1].t
      <4>1. \A i \in 1 .. Len(inbox') : Before(inbox[1], inbox'[i])
        BY <2>1, DequeueKeepsOrder DEF Ordered
      <4> QED
        BY <2>1, <3>1, <4>1 DEF Before, Feed
    <3>2. CASE prevHash' = prevHash
      BY <2>1, <3>2, DequeueKeepsOrder DEF Ordered
    <3> QED
      BY <1>6, <3>1, <3>2 DEF TakesPrevHash
  <2>3. tp = "future" => prevHash' < Len(template)
    <3>1. tp = "future" => inbox[1].t # Len(template)
      BY <2>1, DequeueKeepsOrder DEF Ordered, Announcing, At
    <3>2. inbox[1].t \in Nat /\ inbox[1].t <= Len(template)
      BY <1>1, <2>1, DequeueKeepsOrder DEF Feed
    <3> QED
      BY <1>1, <1>6, <3>1, <3>2 DEF Ordered, TakesPrevHash
  <2> QED
    BY <2>1, <2>2, <2>3, DequeueKeepsOrder DEF Ordered, Templates
<1>7. CASE StartsOver
  BY <1>7 DEF StartsOver, Ordered
<1>8. CASE TakesBuffered \/ LeavesFeed
  BY <1>8 DEF TakesBuffered, LeavesFeed, Ordered, Announcing, At, Templates
<1> QED
  BY <1>2, <1>3, <1>4, <1>5, <1>6, <1>7, <1>8 DEF FeedStep

LEMMA EnqueueAnnounces ==
    ASSUME FeedTypes, NEW kind, NEW t, Enqueue(kind, t)
    PROVE  \A f : Announcing(f)' <=> Announcing(f) \/ (kind = "SetNewPrevHash" /\ f = t)
<1>1. Len(inbox) \in Nat
  BY FeedFacts
<1> QED
  BY <1>1 DEF Enqueue, Announcing, At

LEMMA DequeueAnnounces ==
    ASSUME FeedTypes, Dequeue
    PROVE  \A f : /\ Announcing(f)' => Announcing(f)
                  /\ Announcing(f) => Announcing(f)' \/ At(1, "SetNewPrevHash", f)
<1>1. Len(inbox) \in Nat
  BY FeedFacts
<1>2. \A i \in 1 .. Len(inbox') : i + 1 \in 1 .. Len(inbox) /\ inbox'[i] = inbox[i + 1]
  BY <1>1 DEF Dequeue
<1>3. ASSUME NEW f, NEW i \in 1 .. Len(inbox), At(i, "SetNewPrevHash", f), i # 1
      PROVE  Announcing(f)'
  <2>1. i - 1 \in 1 .. Len(inbox') /\ inbox'[i - 1] = inbox[i]
    BY <1>1, <1>3 DEF Dequeue
  <2> QED
    BY <1>3, <2>1 DEF Announcing, At
<1> QED
  BY <1>2, <1>3 DEF Announcing, At

LEMMA AnnouncedStep ==
    ASSUME FeedTypes, Ordered, Announced, FeedStep
    PROVE  Announced'
<1> USE DEF None
<1>1. /\ Len(inbox) \in Nat /\ Len(template) \in Nat
      /\ prevHash \in 0 .. Len(template)
      /\ \A f : Announcing(f) => f \in Templates
  BY FeedFacts DEF Announcing, At, Feed, Templates
<1>2. ASSUME UNCHANGED <<template, prevHash>>, tp' = "future" <=> tp = "future",
             \A f : Announcing(f)' <=> Announcing(f)
      PROVE  Announced'
  BY <1>2 DEF Announced, Templates
<1>3. CASE SendsFuture
  <2>1. /\ Len(template') = Len(template) + 1
        /\ \A u \in Templates : template'[u] = template[u]
        /\ prevHash' = prevHash /\ tp # "future" /\ tp' = "future"
        /\ Enqueue("NewTemplate", Len(template) + 1)
    BY <1>3 DEF SendsFuture, Grow, taskState
  <2>2. \A f : Announcing(f)' <=> Announcing(f)
    BY <2>1, EnqueueAnnounces
  <2>3. ASSUME NEW f \in Templates', f = prevHash' \/ Announcing(f)'
        PROVE  f \in Templates /\ (f = prevHash \/ Announcing(f))
    BY <1>1, <2>1, <2>2, <2>3 DEF Templates
  <2> QED
    BY <1>1, <2>1, <2>2, <2>3 DEF Announced, Templates
<1>4. CASE SendsMempool
  <2>1. /\ Len(template') = Len(template) + 1
        /\ \A u \in Templates : template'[u] = template[u]
        /\ ~template'[Len(template) + 1].future
        /\ prevHash' = prevHash /\ tp = "announced" /\ tp' = tp
        /\ Enqueue("NewTemplate", Len(template) + 1)
    BY <1>4 DEF SendsMempool, Grow, taskState
  <2>2. \A f : Announcing(f)' <=> Announcing(f)
    BY <2>1, EnqueueAnnounces
  <2>3. ASSUME NEW f \in Templates', f = prevHash' \/ Announcing(f)'
        PROVE  f \in Templates /\ (f = prevHash \/ Announcing(f))
    BY <1>1, <2>1, <2>2, <2>3 DEF Templates
  <2> QED
    BY <1>1, <2>1, <2>2, <2>3 DEF Announced, Templates
<1>5. CASE SendsPrevHash
  <2>1. /\ UNCHANGED <<template, prevHash>> /\ tp = "future"
        /\ Enqueue("SetNewPrevHash", Len(template))
    BY <1>5 DEF SendsPrevHash, taskState
  <2>2. \A f : Announcing(f)' <=> Announcing(f) \/ f = Len(template)
    BY <2>1, EnqueueAnnounces
  <2>3. template[Len(template)].future
    BY <2>1 DEF Ordered
  <2> QED
    BY <1>1, <2>1, <2>2, <2>3 DEF Announced, Templates
<1>6. CASE SendsAnswer
  <2>1. PICK kind \in Kinds \ Feed, t \in Nat : Enqueue(kind, t)
    BY <1>6 DEF SendsAnswer
  <2>2. \A f : Announcing(f)' <=> Announcing(f)
    BY <2>1, EnqueueAnnounces DEF Feed
  <2> QED
    BY <1>2, <1>6, <2>2 DEF SendsAnswer, taskState
<1>7. CASE DropsAnswer \/ TakesTemplate
  <2>1. Dequeue /\ inbox[1].kind # "SetNewPrevHash" /\ UNCHANGED <<template, tp, prevHash>>
    BY <1>7 DEF DropsAnswer, TakesTemplate, Feed
  <2>2. \A f : Announcing(f)' <=> Announcing(f)
    BY <2>1, DequeueAnnounces DEF At
  <2> QED
    BY <1>2, <2>1, <2>2
<1>8. CASE TakesPrevHash
  <2>1. /\ Dequeue /\ inbox[1].kind = "SetNewPrevHash" /\ UNCHANGED <<template, tp>>
        /\ 1 \in 1 .. Len(inbox) /\ inbox[1].t \in Nat
    BY <1>8, FeedFacts, DequeueKeepsOrder DEF TakesPrevHash
  <2>2. ASSUME NEW f, Announcing(f)'
        PROVE  inbox[1].t < f
    <3>1. PICK i \in 1 .. Len(inbox') : inbox'[i].kind = "SetNewPrevHash" /\ inbox'[i].t = f
      BY <2>2 DEF Announcing, At
    <3>2. Before(inbox[1], inbox'[i])
      BY <2>1, <3>1, DequeueKeepsOrder DEF Ordered
    <3> QED
      BY <2>1, <3>1, <3>2 DEF Before, Feed
  <2>3. ASSUME NEW f \in Templates', f = prevHash' \/ Announcing(f)'
        PROVE  f \in Templates /\ Announcing(f) /\ inbox[1].t <= f
    <3>1. Announcing(inbox[1].t)
      BY <2>1 DEF Announcing, At
    <3>2. f \in Templates /\ f # None
      BY <2>1 DEF Templates
    <3>3. CASE f = prevHash'
      BY <1>8, <2>1, <3>1, <3>2, <3>3 DEF TakesPrevHash, Templates
    <3>4. CASE Announcing(f)'
      BY <2>1, <2>2, <3>2, <3>4, DequeueAnnounces DEF Templates
    <3> QED
      BY <2>3, <3>3, <3>4
  <2>4. \A g : Announcing(g) => Announcing(g)' \/ g = inbox[1].t
    BY <2>1, DequeueAnnounces DEF At
  <2>5. ASSUME NEW f \in Templates', f = prevHash' \/ Announcing(f)',
               NEW g \in f + 1 .. Len(template), template[g].future
        PROVE  Announcing(g)' \/ (tp = "future" /\ g = Len(template))
    <3>1. f \in Templates /\ Announcing(f) /\ inbox[1].t <= f
      BY <2>3, <2>5
    <3>2. g # inbox[1].t
      BY <1>1, <2>1, <3>1 DEF Templates
    <3> QED
      BY <2>4, <2>5, <3>1, <3>2 DEF Announced
  <2> QED
    BY <2>1, <2>3, <2>5 DEF Announced
<1>9. CASE StartsOver
  <2>1. \A f : ~Announcing(f)'
    BY <1>9 DEF StartsOver, Announcing
  <2> QED
    BY <1>1, <1>9, <2>1 DEF StartsOver, Announced, Templates
<1>10. CASE TakesBuffered \/ LeavesFeed
  BY <1>2, <1>10 DEF TakesBuffered, LeavesFeed, Announcing, At
<1> QED
  BY <1>3, <1>4, <1>5, <1>6, <1>7, <1>8, <1>9, <1>10 DEF FeedStep

LEMMA PairedStep ==
    ASSUME FeedTypes, Ordered, Paired, FeedStep
    PROVE  Paired'
<1>1. /\ Len(inbox) \in Nat /\ Len(template) \in Nat
      /\ \A i \in 1 .. Len(inbox) : inbox[i].t \in Nat
  BY FeedFacts
<1> DEFINE Apart(i, j) == /\ inbox[i].kind = "NewTemplate"
                          /\ inbox[j].kind = "SetNewPrevHash"
                          /\ inbox[i].t # inbox[j].t
           PairedInbox == \A i, j \in 1 .. Len(inbox) :
                              i < j /\ Apart(i, j) =>
                                  \E k \in i + 1 .. j - 1 : At(k, "NewTemplate", inbox[j].t)
           PairedNext == \A i \in 1 .. Len(inbox) :
                             inbox[i].kind = "NewTemplate" /\ inbox[i].t # Len(template) =>
                                 \E k \in i + 1 .. Len(inbox) :
                                     At(k, "NewTemplate", Len(template))
<1>2. Paired <=> PairedInbox /\ (tp = "future" => PairedNext)
  BY DEF Paired
<1>3. Paired' <=> PairedInbox' /\ (tp' = "future" => PairedNext')
  BY DEF Paired
<1>4. ASSUME NEW kind, NEW t, Enqueue(kind, t), kind # "SetNewPrevHash"
      PROVE  PairedInbox'
  <2>1. SUFFICES ASSUME NEW i \in 1 .. Len(inbox'), NEW j \in 1 .. Len(inbox'),
                        i < j, Apart(i, j)'
                 PROVE  \E k \in i + 1 .. j - 1 : At(k, "NewTemplate", inbox[j].t)'
    OBVIOUS
  <2>2. i \in 1 .. Len(inbox) /\ j \in 1 .. Len(inbox)
    BY <1>1, <1>4, <2>1 DEF Enqueue
  <2>3. inbox'[i] = inbox[i] /\ inbox'[j] = inbox[j]
    BY <1>4, <2>2 DEF Enqueue
  <2>4. PICK k \in i + 1 .. j - 1 : At(k, "NewTemplate", inbox[j].t)
    BY <1>2, <2>1, <2>2, <2>3
  <2>5. inbox'[k] = inbox[k]
    BY <1>1, <1>4, <2>2 DEF Enqueue
  <2> QED
    BY <2>3, <2>4, <2>5 DEF At
<1>5. CASE SendsFuture \/ SendsMempool
  <2>1. /\ Enqueue("NewTemplate", Len(template) + 1)
        /\ Len(template') = Len(template) + 1
    BY <1>5 DEF SendsFuture, SendsMempool, Grow
  <2>2. PairedNext'
    <3>1. SUFFICES ASSUME NEW i \in 1 .. Len(inbox'), inbox'[i].t # Len(template')
                   PROVE  \E k \in i + 1 .. Len(inbox') : At(k, "NewTemplate", Len(template))'
      OBVIOUS
    <3>2. i \in 1 .. Len(inbox)
      BY <1>1, <2>1, <3>1 DEF Enqueue
    <3>3. Len(inbox) + 1 \in i + 1 .. Len(inbox')
      BY <1>1, <2>1, <3>2 DEF Enqueue
    <3> QED
      BY <2>1, <3>3 DEF Enqueue, At
  <2>3. PairedInbox'
    BY <1>4, <2>1
  <2> QED
    BY <1>3, <2>2, <2>3
<1>6. CASE SendsPrevHash
  <2>1. /\ Enqueue("SetNewPrevHash", Len(template))
        /\ tp = "future" /\ tp' = "announced"
    BY <1>6 DEF SendsPrevHash
  <2>2. SUFFICES ASSUME NEW i \in 1 .. Len(inbox'), NEW j \in 1 .. Len(inbox'),
                        i < j, Apart(i, j)'
                 PROVE  \E k \in i + 1 .. j - 1 : At(k, "NewTemplate", inbox[j].t)'
    BY <1>3, <2>1
  <2>3. i \in 1 .. Len(inbox) /\ inbox'[i] = inbox[i]
    BY <1>1, <2>1, <2>2 DEF Enqueue
  <2>4. PICK k \in i + 1 .. j - 1 : k \in 1 .. Len(inbox) /\ At(k, "NewTemplate", inbox'[j].t)
    <3>1. CASE j \in 1 .. Len(inbox)
      <4>1. inbox'[j] = inbox[j]
        BY <2>1, <3>1 DEF Enqueue
      <4>2. PICK k \in i + 1 .. j - 1 : At(k, "NewTemplate", inbox[j].t)
        BY <1>2, <2>2, <2>3, <3>1, <4>1
      <4> QED
        BY <1>1, <3>1, <4>1, <4>2
    <3>2. CASE j = Len(inbox) + 1
      <4>1. inbox[i].kind = "NewTemplate" /\ inbox[i].t # Len(template)
            /\ inbox'[j].t = Len(template)
        BY <2>1, <2>2, <2>3, <3>2 DEF Enqueue
      <4>2. PICK k \in i + 1 .. Len(inbox) : At(k, "NewTemplate", Len(template))
        BY <1>2, <2>1, <2>3, <4>1
      <4> QED
        BY <1>1, <3>2, <4>1, <4>2
    <3> QED
      BY <1>1, <2>1, <3>1, <3>2 DEF Enqueue
  <2>5. inbox'[k] = inbox[k]
    BY <2>1, <2>4 DEF Enqueue
  <2> QED
    BY <2>4, <2>5 DEF At
<1>7. CASE SendsAnswer
  <2>1. PICK kind \in Kinds \ Feed, t \in Nat : Enqueue(kind, t)
    BY <1>7 DEF SendsAnswer
  <2>2. PairedInbox'
    BY <1>4, <2>1 DEF Feed
  <2>3. tp' = tp /\ template' = template
    BY <1>7 DEF SendsAnswer
  <2>4. ASSUME tp' = "future", NEW i \in 1 .. Len(inbox'), inbox'[i].kind = "NewTemplate",
               inbox'[i].t # Len(template')
        PROVE  \E k \in i + 1 .. Len(inbox') : At(k, "NewTemplate", Len(template))'
    <3>1. i \in 1 .. Len(inbox)
      BY <1>1, <2>1, <2>4 DEF Enqueue, Feed
    <3>2. inbox'[i] = inbox[i]
      BY <2>1, <3>1 DEF Enqueue
    <3>3. PICK k \in i + 1 .. Len(inbox) : At(k, "NewTemplate", Len(template))
      BY <1>2, <2>3, <2>4, <3>1, <3>2
    <3>4. k \in i + 1 .. Len(inbox') /\ inbox'[k] = inbox[k]
      BY <1>1, <2>1, <3>1 DEF Enqueue
    <3> QED
      BY <2>3, <3>3, <3>4 DEF At
  <2> QED
    BY <1>3, <2>2, <2>4
<1>8. CASE DropsAnswer \/ TakesTemplate \/ TakesPrevHash
  <2>1. Dequeue /\ UNCHANGED <<template, tp>>
    BY <1>8 DEF DropsAnswer, TakesTemplate, TakesPrevHash
  <2>2. \A i \in 1 .. Len(inbox') : i + 1 \in 1 .. Len(inbox) /\ inbox'[i] = inbox[i + 1]
    BY <1>1, <2>1 DEF Dequeue
  <2>3. ASSUME NEW i \in 1 .. Len(inbox'), NEW j \in 1 .. Len(inbox'), i < j, Apart(i, j)'
        PROVE  \E k \in i + 1 .. j - 1 : At(k, "NewTemplate", inbox[j].t)'
    <3>1. i + 1 < j + 1 /\ Apart(i + 1, j + 1)
      BY <2>2, <2>3
    <3>2. PICK k \in (i + 1) + 1 .. (j + 1) - 1 : At(k, "NewTemplate", inbox[j + 1].t)
      BY <1>2, <2>2, <3>1
    <3>3. k - 1 \in i + 1 .. j - 1 /\ k - 1 \in 1 .. Len(inbox') /\ (k - 1) + 1 = k
      BY <1>1, <2>1 DEF Dequeue
    <3>4. inbox'[k - 1] = inbox[k]
      BY <2>2, <3>3
    <3> QED
      BY <2>2, <3>2, <3>3, <3>4 DEF At
  <2>4. ASSUME tp' = "future", NEW i \in 1 .. Len(inbox'), inbox'[i].kind = "NewTemplate",
               inbox'[i].t # Len(template')
        PROVE  \E k \in i + 1 .. Len(inbox') : At(k, "NewTemplate", Len(template))'
    <3>1. PICK k \in (i + 1) + 1 .. Len(inbox) : At(k, "NewTemplate", Len(template))
      BY <1>2, <2>1, <2>2, <2>4
    <3>2. k - 1 \in i + 1 .. Len(inbox') /\ k - 1 \in 1 .. Len(inbox') /\ (k - 1) + 1 = k
      BY <1>1, <2>1 DEF Dequeue
    <3>3. inbox'[k - 1] = inbox[k]
      BY <2>2, <3>2
    <3> QED
      BY <2>1, <3>1, <3>2, <3>3 DEF At
  <2> QED
    BY <1>3, <2>3, <2>4
<1>9. CASE StartsOver
  BY <1>3, <1>9 DEF StartsOver
<1>10. CASE TakesBuffered \/ LeavesFeed
  BY <1>10 DEF TakesBuffered, LeavesFeed, Paired, At
<1> QED
  BY <1>5, <1>6, <1>7, <1>8, <1>9, <1>10 DEF FeedStep

LEMMA FreshStep ==
    ASSUME FeedTypes, Ordered, Announced, Paired, Fresh, FeedStep
    PROVE  Fresh'
<1>1. /\ Len(inbox) \in Nat /\ Len(template) \in Nat
      /\ prevHash \in 0 .. Len(template) /\ pendingNew \in 0 .. Len(template)
      /\ pendingNew # None => pendingNew \in Templates
      /\ rx = "publishing" => pendingTx \in Templates
      /\ \A i \in 1 .. Len(inbox) : inbox[i].t \in Nat
      /\ \A i \in 1 .. Len(inbox) : inbox[i].kind \in Feed => inbox[i].t \in Templates
  BY FeedFacts DEF FeedTypes
<1> DEFINE Covered == \A i \in 1 .. Len(inbox) :
                          inbox[i].kind = "SetNewPrevHash" =>
                              \E k \in 1 .. i - 1 : At(k, "NewTemplate", inbox[i].t)
           CoveredNext == \E k \in 1 .. Len(inbox) : At(k, "NewTemplate", Len(template))
<1>2. /\ pendingNew # None => Current(pendingNew)
      /\ pendingNew # None /\ ~template[pendingNew].future =>
             Covered /\ (tp = "future" => CoveredNext)
      /\ rx = "publishing" => Current(pendingTx)
  BY DEF Fresh
<1>3. Fresh' <=>
      /\ pendingNew' # None => Current(pendingNew)'
      /\ pendingNew' # None /\ ~template'[pendingNew'].future =>
             Covered' /\ (tp' = "future" => CoveredNext')
      /\ rx' = "publishing" => Current(pendingTx)'
  BY DEF Fresh, None
<1> HIDE DEF Covered, CoveredNext
<1>4. ASSUME NEW kind, NEW t, Enqueue(kind, t), kind # "SetNewPrevHash"
      PROVE  /\ Covered => Covered'
             /\ \A u \in Templates :
                    /\ template'[u] = template[u] /\ prevHash' = prevHash /\ Current(u)
                    => Current(u)'
  <2>1. ASSUME Covered, NEW i \in 1 .. Len(inbox'), inbox'[i].kind = "SetNewPrevHash"
        PROVE  \E k \in 1 .. i - 1 : At(k, "NewTemplate", inbox[i].t)'
    <3>1. i \in 1 .. Len(inbox) /\ inbox'[i] = inbox[i]
      BY <1>1, <1>4, <2>1 DEF Enqueue
    <3>2. PICK k \in 1 .. i - 1 : At(k, "NewTemplate", inbox[i].t)
      BY <2>1, <3>1 DEF Covered
    <3>3. inbox'[k] = inbox[k]
      BY <1>1, <1>4, <3>1 DEF Enqueue
    <3> QED
      BY <3>1, <3>2, <3>3 DEF At
  <2>2. \A i \in 1 .. Len(inbox') :
            inbox'[i].kind = "SetNewPrevHash" => i \in 1 .. Len(inbox) /\ inbox'[i] = inbox[i]
    BY <1>1, <1>4 DEF Enqueue
  <2> QED
    BY <2>1, <2>2 DEF Covered, Current
<1>5. CASE SendsFuture \/ SendsMempool
  <2>1. /\ Enqueue("NewTemplate", Len(template) + 1)
        /\ Len(template') = Len(template) + 1
        /\ \A u \in Templates : template'[u] = template[u]
        /\ UNCHANGED <<prevHash, pendingNew, pendingTx, rx>>
    BY <1>5 DEF SendsFuture, SendsMempool, Grow, taskState
  <2>2. CoveredNext'
    <3>1. Len(inbox) + 1 \in 1 .. Len(inbox')
      BY <1>1, <2>1 DEF Enqueue
    <3> QED
      BY <2>1, <3>1 DEF CoveredNext, Enqueue, At
  <2>3. \A u \in Templates : Current(u) => Current(u)'
    BY <1>4, <2>1
  <2>4. pendingNew' # None => Current(pendingNew)'
    BY <1>1, <1>2, <2>1, <2>3 DEF Current
  <2>5. rx' = "publishing" => Current(pendingTx)'
    BY <1>1, <1>2, <2>1, <2>3 DEF Current
  <2>6. Covered => Covered'
    BY <1>4, <2>1
  <2> QED
    BY <1>1, <1>2, <1>3, <2>1, <2>2, <2>4, <2>5, <2>6
<1>6. CASE SendsPrevHash
  <2>1. /\ Enqueue("SetNewPrevHash", Len(template))
        /\ tp = "future" /\ tp' = "announced"
        /\ UNCHANGED <<template, prevHash, pendingNew, pendingTx, rx>>
    BY <1>6 DEF SendsPrevHash, taskState
  <2>2. template[Len(template)].future
    BY <2>1 DEF Ordered
  <2>3. ASSUME NEW u \in Templates, Current(u)
        PROVE  Current(u)'
    <3>1. ~template[u].future => u < Len(template)
      BY <1>1, <2>2 DEF Templates
    <3> QED
      BY <1>1, <2>1, <2>3, <3>1 DEF Current, Enqueue
  <2>4. ASSUME Covered, CoveredNext
        PROVE  Covered'
    <3>1. SUFFICES ASSUME NEW i \in 1 .. Len(inbox'), inbox'[i].kind = "SetNewPrevHash"
                   PROVE  \E k \in 1 .. i - 1 : At(k, "NewTemplate", inbox[i].t)'
      BY DEF Covered
    <3>2. CASE i \in 1 .. Len(inbox)
      <4>1. inbox'[i] = inbox[i]
        BY <2>1, <3>2 DEF Enqueue
      <4>2. PICK k \in 1 .. i - 1 : At(k, "NewTemplate", inbox[i].t)
        BY <2>4, <3>1, <3>2, <4>1 DEF Covered
      <4>3. inbox'[k] = inbox[k]
        BY <1>1, <2>1, <3>2 DEF Enqueue
      <4> QED
        BY <4>1, <4>2, <4>3 DEF At
    <3>3. CASE i = Len(inbox) + 1
      <4>1. PICK k \in 1 .. Len(inbox) : At(k, "NewTemplate", Len(template))
        BY <2>4 DEF CoveredNext
      <4>2. inbox'[k] = inbox[k] /\ inbox'[i].t = Len(template) /\ k \in 1 .. i - 1
        BY <1>1, <2>1, <3>3 DEF Enqueue
      <4> QED
        BY <4>1, <4>2 DEF At
    <3> QED
      BY <1>1, <2>1, <3>2, <3>3 DEF Enqueue
  <2>5. pendingNew' # None => Current(pendingNew)'
    BY <1>1, <1>2, <2>1, <2>3 DEF Current
  <2>6. rx' = "publishing" => Current(pendingTx)'
    BY <1>1, <1>2, <2>1, <2>3 DEF Current
  <2> QED
    BY <1>2, <1>3, <2>1, <2>4, <2>5, <2>6
<1>7. CASE SendsAnswer
  <2>1. PICK kind \in Kinds \ Feed, t \in Nat : Enqueue(kind, t)
    BY <1>7 DEF SendsAnswer
  <2>2. kind # "SetNewPrevHash" /\ UNCHANGED <<template, tp, prevHash, pendingNew, pendingTx, rx>>
    BY <1>7 DEF SendsAnswer, Feed, taskState
  <2>3. CoveredNext => CoveredNext'
    BY <1>1, <2>1, <2>2 DEF CoveredNext, Enqueue, At
  <2>4. \A u \in Templates : Current(u) => Current(u)'
    BY <1>4, <2>1, <2>2
  <2>5. pendingNew' # None => Current(pendingNew)'
    BY <1>1, <1>2, <2>2, <2>4 DEF Current
  <2>6. rx' = "publishing" => Current(pendingTx)'
    BY <1>1, <1>2, <2>2, <2>4 DEF Current
  <2>7. Covered => Covered'
    BY <1>4, <2>1, <2>2
  <2> QED
    BY <1>2, <1>3, <2>2, <2>3, <2>5, <2>6, <2>7
<1>8. ASSUME Dequeue
      PROVE  /\ 1 \in 1 .. Len(inbox)
             /\ \A i \in 1 .. Len(inbox') :
                    i + 1 \in 1 .. Len(inbox) /\ 1 < i + 1 /\ inbox'[i] = inbox[i + 1]
             /\ \A k \in 2 .. Len(inbox) :
                    k - 1 \in 1 .. Len(inbox') /\ inbox'[k - 1] = inbox[k]
  BY <1>1, <1>8 DEF Dequeue
<1>9. CASE DropsAnswer
  <2>1. /\ Dequeue /\ inbox[1].kind \notin Feed
        /\ rx' = "loop" /\ UNCHANGED <<template, tp, prevHash, pendingNew>>
    BY <1>9 DEF DropsAnswer
  <2>2. ASSUME Covered
        PROVE  Covered'
    <3>1. SUFFICES ASSUME NEW i \in 1 .. Len(inbox'), inbox'[i].kind = "SetNewPrevHash"
                   PROVE  \E k \in 1 .. i - 1 : At(k, "NewTemplate", inbox[i].t)'
      BY DEF Covered
    <3>2. PICK k \in 1 .. (i + 1) - 1 : At(k, "NewTemplate", inbox[i + 1].t)
      BY <1>8, <2>1, <2>2, <3>1 DEF Covered
    <3>3. k # 1
      BY <2>1, <3>2 DEF At, Feed
    <3>4. k \in 2 .. Len(inbox) /\ k - 1 \in 1 .. i - 1
      BY <1>1, <1>8, <2>1, <3>2, <3>3
    <3> QED
      BY <1>8, <2>1, <3>2, <3>4 DEF At
  <2>3. ASSUME CoveredNext
        PROVE  CoveredNext'
    <3>1. PICK k \in 1 .. Len(inbox) : At(k, "NewTemplate", Len(template))
      BY <2>3 DEF CoveredNext
    <3>2. k \in 2 .. Len(inbox)
      BY <1>1, <2>1, <3>1 DEF At, Feed
    <3> QED
      BY <1>8, <2>1, <3>1, <3>2 DEF CoveredNext, At
  <2>4. pendingNew' # None => Current(pendingNew)'
    BY <1>2, <1>8, <2>1 DEF Current
  <2> QED
    BY <1>2, <1>3, <2>1, <2>2, <2>3, <2>4
<1>10. CASE TakesTemplate
  <2>1. /\ Dequeue /\ inbox[1].kind = "NewTemplate"
        /\ UNCHANGED <<template, tp, prevHash>>
    BY <1>10 DEF TakesTemplate
  <2>2. PICK t : t = inbox[1].t
    OBVIOUS
  <2>3. t \in Templates /\ t \in Nat
    BY <1>1, <1>8, <2>1, <2>2 DEF Feed
  <2>4. ASSUME ~template[t].future, NEW i \in 1 .. Len(inbox'),
               inbox'[i].kind = "SetNewPrevHash"
        PROVE  t < inbox'[i].t
    <3>1. Before(inbox[1], inbox[i + 1])
      BY <1>8, <2>1 DEF Ordered
    <3>2. inbox[i + 1].t # t
      <4>1. Announcing(inbox[i + 1].t)
        BY <1>8, <2>1, <2>4 DEF Announcing, At
      <4> QED
        BY <2>3, <2>4, <4>1 DEF Announced
    <3> QED
      BY <1>8, <2>1, <2>2, <2>4, <3>1, <3>2 DEF Before, Feed
  <2>5. Current(t)'
    <3>1. prevHash < t
      BY <1>8, <2>1, <2>2 DEF Ordered, Feed
    <3> QED
      BY <2>1, <2>4, <3>1 DEF Current
  <2>6. ASSUME ~template[t].future
        PROVE  Covered'
    <3>1. SUFFICES ASSUME NEW i \in 1 .. Len(inbox'), inbox'[i].kind = "SetNewPrevHash"
                   PROVE  \E k \in 1 .. i - 1 : At(k, "NewTemplate", inbox[i].t)'
      BY DEF Covered
    <3>2. inbox[i + 1].t # t /\ inbox[i + 1].kind = "SetNewPrevHash"
      BY <1>8, <2>1, <2>3, <2>4, <2>6, <3>1
    <3>3. PICK k \in 1 + 1 .. (i + 1) - 1 : At(k, "NewTemplate", inbox[i + 1].t)
      BY <1>8, <2>1, <2>2, <3>2 DEF Paired
    <3>4. k \in 2 .. Len(inbox) /\ k - 1 \in 1 .. i - 1
      BY <1>1, <1>8, <2>1, <3>3
    <3> QED
      BY <1>8, <2>1, <3>3, <3>4 DEF At
  <2>7. ASSUME ~template[t].future, tp = "future"
        PROVE  CoveredNext'
    <3>1. t # Len(template)
      BY <2>7 DEF Ordered
    <3>2. PICK k \in 1 + 1 .. Len(inbox) : At(k, "NewTemplate", Len(template))
      BY <1>8, <2>1, <2>2, <2>7, <3>1 DEF Paired
    <3> QED
      BY <1>8, <2>1, <3>2 DEF CoveredNext, At
  <2>8. pendingNew' # None => Current(pendingNew)'
    BY <1>10, <2>2, <2>5 DEF TakesTemplate, Current
  <2>9. rx' = "publishing" => Current(pendingTx)'
    BY <1>10, <2>2, <2>5 DEF TakesTemplate, Current
  <2> QED
    BY <1>3, <1>10, <2>1, <2>2, <2>6, <2>7, <2>8, <2>9 DEF TakesTemplate
<1>11. CASE TakesPrevHash
  <2>1. /\ Dequeue /\ inbox[1].kind = "SetNewPrevHash"
        /\ rx' = "loop" /\ UNCHANGED <<template, tp, pendingNew>>
    BY <1>11 DEF TakesPrevHash
  <2>2. ~Covered
    <3>1. ~ \E k \in 1 .. 1 - 1 : At(k, "NewTemplate", inbox[1].t)
      OBVIOUS
    <3> QED
      BY <1>8, <2>1, <3>1 DEF Covered
  <2>3. pendingNew # None => template[pendingNew].future
    BY <1>2, <2>2
  <2> QED
    BY <1>3, <2>1, <2>3 DEF Current
<1>12. CASE TakesBuffered
  BY <1>2, <1>3, <1>12 DEF TakesBuffered, Current
<1>13. CASE StartsOver
  BY <1>3, <1>13 DEF StartsOver
<1>14. CASE LeavesFeed
  BY <1>14 DEF LeavesFeed, Fresh, Current, At
<1> QED
  BY <1>5, <1>6, <1>7, <1>9, <1>10, <1>11, <1>12, <1>13, <1>14 DEF FeedStep

LEMMA WorkStep ==
    ASSUME FeedInv, [Next]_receiverVars
    PROVE  WorkInv'
<1>1. FeedTypes /\ FeedStep /\ WorkInv
  BY FeedMoves DEF FeedInv
<1>2. /\ Len(template) \in Nat
      /\ Templates \subseteq Templates'
      /\ \A u \in Templates : template'[u] = template[u]
  <2>1. CASE UNCHANGED template
    BY <1>1, <2>1, FeedFacts DEF Templates
  <2>2. CASE SendsFuture \/ SendsMempool
    BY <1>1, <2>2, FeedFacts DEF SendsFuture, SendsMempool, Grow, Templates
  <2> QED
    BY <1>1, <2>1, <2>2
    DEF FeedStep, SendsPrevHash, SendsAnswer, DropsAnswer, TakesTemplate, TakesPrevHash,
        TakesBuffered, StartsOver, LeavesFeed
<1>3. ASSUME UNCHANGED work
      PROVE  WorkInv'
  BY <1>1, <1>2, <1>3 DEF WorkInv, WorkOnItsTip, TipOf
<1>4. CASE Provider
  BY <1>3, <1>4 DEF Provider, TPFutureTemplate, TPSetNewPrevHash, TPMempoolTemplate,
                    TPAnswer, factoryVars
<1>5. CASE SetChannelFactory \/ GetLastToken \/ BufferTemplate \/ OnTemplateNotFound
  BY <1>3, <1>5 DEF SetChannelFactory, GetLastToken, BufferTemplate, OnTemplateNotFound,
                    factoryVars
<1>6. CASE \E t \in Templates :
               OnNewTemplate(t) \/ OnNewTemplateDiscardingLast(t) \/ SkipTemplate(t)
  BY <1>3, <1>6 DEF OnNewTemplate, OnNewTemplateDiscardingLast, SkipTemplate,
                    RequestTemplate, factoryVars
<1>7. CASE \E t \in Templates : OnTransactionData(t) \/ OnStaleTemplate(t)
  BY <1>3, <1>7 DEF OnTransactionData, OnStaleTemplate, EndRequest, factoryVars
<1>8. CASE \E t \in Templates : OnSetNewPrevHash(t)
  <2> PICK t \in Templates : OnSetNewPrevHash(t)
    BY <1>8
  <2>1. work' \in {work, [t |-> t, on |-> t]}
    BY DEF OnSetNewPrevHash, factoryVars
  <2>2. CASE work' = [t |-> t, on |-> t]
    BY <1>2, <2>2 DEF WorkInv, WorkOnItsTip
  <2> QED
    BY <1>3, <2>1, <2>2
<1>9. CASE PublishWithoutChannel \/ PublishFails
  BY <1>3, <1>9 DEF PublishWithoutChannel, PublishFails, factoryVars
<1>10. CASE PublishJob
  <2>1. CASE work' = work
    BY <1>3, <2>1
  <2>2. CASE /\ ~template[pendingTx].future /\ prevHash # None
             /\ work' = [t |-> pendingTx, on |-> prevHash]
    <3>1. pendingTx \in Templates /\ prevHash \in Templates
      BY <1>1, <1>10, <2>2 DEF PublishJob, FeedTypes
    <3>2. /\ prevHash < pendingTx
          /\ \A g : Announcing(g) => pendingTx < g
      BY <1>10, <2>2 DEF PublishJob, FeedInv, Fresh, Current, Announcing, At
    <3>3. /\ template[prevHash].future
          /\ \A g \in prevHash + 1 .. Len(template) :
                 template[g].future => Announcing(g) \/ g = Len(template)
      BY <3>1 DEF FeedInv, Announced
    <3>4. Latest(prevHash, pendingTx)
      <4>1. ASSUME NEW g \in prevHash + 1 .. pendingTx, template[g].future
            PROVE  FALSE
        <5>1. g \in prevHash + 1 .. Len(template) /\ g <= pendingTx
              /\ pendingTx <= Len(template)
          BY <1>2, <3>1 DEF Templates
        <5>2. g # pendingTx
          BY <2>2, <4>1
        <5> QED
          BY <1>2, <3>1, <3>2, <3>3, <4>1, <5>1, <5>2 DEF Templates
      <4> QED
        BY <1>2, <3>1, <3>2, <3>3, <4>1 DEF Latest, Templates
    <3>5. template[prevHash].tip = template[pendingTx].tip
      BY <2>2, <3>1, <3>4 DEF FeedInv, TemplatesOnTip
    <3>6. pendingTx # None
      BY <3>1 DEF Templates, None
    <3> QED
      BY <1>2, <2>2, <3>1, <3>5, <3>6 DEF WorkInv, WorkOnItsTip, TipOf
  <2> QED
    BY <1>10, <2>1, <2>2 DEF PublishJob
<1>11. CASE Restart
  BY <1>11 DEF Restart, WorkInv, WorkOnItsTip, NoWork
<1>12. CASE AskRestart \/ Quiet \/ UNCHANGED receiverVars
  BY <1>3, <1>12 DEF AskRestart, Quiet, receiverVars, factoryVars
<1> QED
  BY <1>4, <1>5, <1>6, <1>7, <1>8, <1>9, <1>10, <1>11, <1>12 DEF Next, Loop, Publish

\* The feed from the provider to the miners stays in order.
LEMMA FeedInvHolds == Spec => []FeedInv
<1>1. Init => FeedInv
  BY DEF Init, FeedInv, FeedTypes, TemplatesOnTip, Ordered, Announced, Paired, Fresh,
         WorkInv, WorkOnItsTip, NoWork, Templates, None
<1>2. ASSUME FeedInv, [Next]_receiverVars
      PROVE  FeedInv'
  <2>1. FeedTypes /\ TemplatesOnTip /\ Ordered /\ Announced /\ Paired /\ Fresh /\ FeedStep
    BY <1>2, FeedMoves DEF FeedInv
  <2>2. FeedTypes'
    BY <1>2, <2>1, FeedTypesStep
  <2>3. TemplatesOnTip' /\ Ordered' /\ Announced' /\ Paired' /\ Fresh'
    BY <2>1, TemplatesStep, OrderedStep, AnnouncedStep, PairedStep, FreshStep
  <2>4. WorkInv'
    BY <1>2, WorkStep
  <2> QED
    BY <2>2, <2>3, <2>4 DEF FeedInv
<1> QED
  BY <1>1, <1>2, PTL DEF Spec

\* The miners never hash a template under the prev hash of another block: not
\* when a template is buffered while a request is pending, when the block changes
\* in between, when the factory appears late, or when the client restarts.
THEOREM WorkOnItsTipHolds == Spec => []WorkOnItsTip
<1>1. FeedInv => WorkOnItsTip
  BY DEF FeedInv, WorkInv
<1> QED
  BY <1>1, FeedInvHolds, PTL

=============================================================================
