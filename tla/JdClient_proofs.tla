----------------------------- MODULE JdClient_proofs -----------------------------
(***************************************************************************)
(* Theorems about the job-declaration client: it implements the template   *)
(* task and the declarator, so that what is proved of each alone holds of  *)
(* the two together, and what one hands over the other can take.           *)
(***************************************************************************)
EXTENDS JdClient, SequenceTheorems, TLAPS

-----------------------------------------------------------------------------
(* The client implements the template task *)

\* Templates are issued on the provider's best block, which never falls back.
IssuedOnTip ==
    /\ down \in BOOLEAN
    /\ tip \in 0 .. MaxTip
    /\ template \in Seq([future : BOOLEAN, tip : Nat])
    /\ \A u \in Templates : template[u].tip <= tip

LEMMA IssuedTips ==
    ASSUME IssuedOnTip, NEW u \in 1 .. Len(template)
    PROVE  template[u].tip \in Nat /\ template[u].tip <= tip
<1>1. template[u] \in [future : BOOLEAN, tip : Nat]
  BY ElementOfSeq DEF IssuedOnTip
<1> QED BY <1>1 DEF IssuedOnTip, Templates

\* The declaration tasks touch nothing of the template task but the request for a
\* restart.
LEMMA DeclaratorStepFrame ==
    ASSUME DeclaratorStep, down \in BOOLEAN
    PROVE  UNCHANGED <<template, ownReceiver>> /\ down' \in {down, TRUE}
<1>1. UNCHANGED ownReceiver
  BY DEF DeclaratorStep
<1>2. ASSUME NEW t, JD!Declaration(t)
      PROVE  UNCHANGED template /\ down' \in {down, TRUE}
  BY <1>2 DEF JD!Declaration, JD!PassGate, JD!GateTimeout, JD!Declare, JD!DeclareFails,
              JD!OrphanDeclares
<1>3. ASSUME NEW t, JD!PrevHashTask(t)
      PROVE  UNCHANGED template /\ down' \in {down, TRUE}
  BY <1>3 DEF JD!PrevHashTask, JD!StartPrevHash, JD!LeavePrevHash, JD!ActivateFutureJob
<1>4. ASSUME JD!PoolAnswer
      PROVE  UNCHANGED template /\ down' \in {down, TRUE}
  BY <1>4 DEF JD!PoolAnswer, JD!DeclareSuccessFuture, JD!DeclareSuccess, JD!DeclareError,
              JD!DeclareUnknown, JD!CustomJobSuccess, JD!CustomJobError
<1>5. ASSUME NEW c \in calls, JD!SetCustomJobs(c)
      PROVE  UNCHANGED template /\ down' \in {down, TRUE}
  BY <1>5 DEF JD!SetCustomJobs
<1>6. ASSUME NEW c \in calls, JD!SetCustomJobsFails(c)
      PROVE  UNCHANGED template /\ down' \in {down, TRUE}
  <2>1. UNCHANGED template /\ down' = (down \/ c.by = "main")
    BY <1>6 DEF JD!SetCustomJobsFails
  <2> QED BY <2>1
<1> QED
  BY <1>1, <1>2, <1>3, <1>4, <1>5, <1>6
  DEF DeclaratorStep, Declarations, PrevHashTasks, JD!SendCustomJob

\* Every step of the client is a step of the template task, which sees of the
\* declarations no more than requests for a restart.
LEMMA StepReceives ==
    ASSUME down \in BOOLEAN, [Next]_vars
    PROVE  [TR!Next]_TR!receiverVars
<1>1. CASE ReceiverStep
  BY <1>1 DEF ReceiverStep, TR!Next, TR!Loop, Templates, TR!Templates
<1>2. CASE HandOver
  BY <1>2 DEF HandOver, OnTransactionData, OnSetNewPrevHash, OnNewTemplateDiscardingLast,
              TR!Next, TR!Loop, Templates, TR!Templates
<1>3. CASE DeclaratorStep
  <2>1. UNCHANGED <<template, ownReceiver>> /\ down' \in {down, TRUE}
    BY <1>3, DeclaratorStepFrame
  <2>2. CASE down' = down
    BY <2>1, <2>2 DEF ownReceiver, TR!receiverVars
  <2>3. CASE down' = TRUE
    <3>1. TR!AskRestart
      BY <2>1, <2>3 DEF ownReceiver, TR!AskRestart, TR!providerVars, TR!factoryVars,
                        TR!flagVars, TR!sessionVars
    <3> QED BY <3>1 DEF TR!Next
  <2> QED BY <2>1, <2>2, <2>3
<1>4. CASE Restart
  BY <1>4 DEF Restart, TR!Next
<1>5. CASE Rest \/ UNCHANGED vars
  BY <1>5 DEF Rest, vars, ownReceiver, TR!receiverVars
<1> QED BY <1>1, <1>2, <1>3, <1>4, <1>5 DEF Next

\* A template is issued on the current best block or on the next one; no other
\* step touches templates or tip.
LEMMA IssueOrKeep ==
    ASSUME [TR!Next]_TR!receiverVars
    PROVE  \/ UNCHANGED <<template, tip>>
           \/ /\ tip' \in {tip, tip + 1} /\ (tip' = tip + 1 => tip' = tip \/ tip < MaxTip)
              /\ Len(template) < MaxTemplate
              /\ \E future \in BOOLEAN :
                    template' = Append(template, [future |-> future, tip |-> tip'])
<1>1. CASE TR!TPFutureTemplate
  <2>1. /\ tip' \in {tip, tip + 1} /\ (tip' = tip + 1 => tip' = tip \/ tip < MaxTip)
        /\ Len(template) < MaxTemplate
        /\ template' = Append(template, [future |-> TRUE, tip |-> tip'])
    <3>1. (tip' = tip \/ (tip < MaxTip /\ tip' = tip + 1)) /\ TR!Issue(TRUE, tip')
      BY <1>1 DEF TR!TPFutureTemplate
    <3> QED BY <3>1 DEF TR!Issue
  <2> QED BY <1>1, <2>1
<1>2. CASE TR!TPMempoolTemplate
  <2>1. /\ tip' = tip /\ Len(template) < MaxTemplate
        /\ template' = Append(template, [future |-> FALSE, tip |-> tip'])
    BY <1>2 DEF TR!TPMempoolTemplate, TR!Issue
  <2> QED BY <1>2, <2>1
<1>3. CASE TR!TPSetNewPrevHash \/ TR!TPAnswer \/ TR!SetChannelFactory \/ TR!AskRestart
           \/ TR!Restart \/ TR!Quiet \/ UNCHANGED TR!receiverVars
  BY <1>3 DEF TR!TPSetNewPrevHash, TR!TPAnswer, TR!SetChannelFactory, TR!AskRestart,
              TR!Restart, TR!Quiet, TR!receiverVars, TR!providerVars
<1>4. CASE TR!Loop
  BY <1>4 DEF TR!Loop, TR!GetLastToken, TR!BufferTemplate, TR!OnNewTemplate,
              TR!OnNewTemplateDiscardingLast, TR!SkipTemplate, TR!OnSetNewPrevHash,
              TR!OnTransactionData, TR!OnStaleTemplate, TR!OnTemplateNotFound, TR!Publish,
              TR!PublishWithoutChannel, TR!PublishJob, TR!PublishFails, TR!RequestTemplate,
              TR!EndRequest, TR!providerVars
<1> QED BY <1>1, <1>2, <1>3, <1>4 DEF TR!Next, TR!Provider

\* The request for a restart is a flag.
LEMMA DownIsFlag ==
    ASSUME [TR!Next]_TR!receiverVars, down \in BOOLEAN
    PROVE  down' \in BOOLEAN
BY DEF TR!Next, TR!Provider, TR!Loop, TR!TPFutureTemplate, TR!TPSetNewPrevHash,
       TR!TPMempoolTemplate, TR!TPAnswer, TR!SetChannelFactory, TR!GetLastToken,
       TR!BufferTemplate, TR!OnNewTemplate, TR!OnNewTemplateDiscardingLast,
       TR!SkipTemplate, TR!OnSetNewPrevHash, TR!OnTransactionData, TR!OnStaleTemplate,
       TR!OnTemplateNotFound, TR!Publish, TR!PublishWithoutChannel, TR!PublishJob,
       TR!PublishFails, TR!RequestTemplate, TR!EndRequest, TR!AskRestart, TR!Restart,
       TR!Quiet, TR!receiverVars

LEMMA IssuedOnTipStep ==
    ASSUME IssuedOnTip, [TR!Next]_TR!receiverVars
    PROVE  IssuedOnTip'
<1>1. down' \in BOOLEAN
  BY DownIsFlag DEF IssuedOnTip
<1>2. CASE UNCHANGED <<template, tip>>
  BY <1>1, <1>2 DEF IssuedOnTip, Templates
<1>3. CASE ~UNCHANGED <<template, tip>>
  <2>1. PICK future \in BOOLEAN :
           /\ tip' \in {tip, tip + 1} /\ (tip' = tip + 1 => tip' = tip \/ tip < MaxTip)
           /\ template' = Append(template, [future |-> future, tip |-> tip'])
    BY <1>3, IssueOrKeep
  <2>2. tip \in Nat /\ tip' \in 0 .. MaxTip /\ tip' \in Nat /\ tip <= tip'
    BY <2>1, ClientAssumption DEF IssuedOnTip
  <2> DEFINE new == [future |-> future, tip |-> tip']
  <2>3. new \in [future : BOOLEAN, tip : Nat] /\ new.tip = tip'
    BY <2>2
  <2> HIDE DEF new
  <2>4. /\ template' \in Seq([future : BOOLEAN, tip : Nat]) /\ Len(template') = Len(template) + 1
        /\ \A u \in 1 .. Len(template) : template'[u] = template[u]
        /\ template'[Len(template) + 1] = new /\ Len(template) \in Nat
    BY <2>1, <2>3, AppendProperties, LenProperties DEF IssuedOnTip, new
  <2>5. \A u \in 1 .. Len(template') : template'[u].tip <= tip'
    <3> TAKE u \in 1 .. Len(template')
    <3>1. CASE u = Len(template) + 1
      BY <2>2, <2>3, <2>4, <3>1
    <3>2. CASE u # Len(template) + 1
      <4>1. u \in 1 .. Len(template)
        BY <2>4, <3>2
      <4>2. template[u].tip \in Nat /\ template[u].tip <= tip
        BY <4>1, IssuedTips
      <4> QED BY <2>2, <2>4, <4>1, <4>2
    <3> QED BY <3>1, <3>2
  <2> QED BY <1>1, <2>2, <2>4, <2>5 DEF IssuedOnTip, Templates
<1> QED BY <1>2, <1>3

LEMMA IssuedOnTipHolds == Spec => []IssuedOnTip
<1>1. Init => IssuedOnTip
  <2> SUFFICES ASSUME Init PROVE IssuedOnTip
    OBVIOUS
  <2>1. template = << >> /\ tip = 0 /\ down = FALSE
    BY DEF Init, TR!Init
  <2>2. template \in Seq([future : BOOLEAN, tip : Nat]) /\ Templates = {}
    BY <2>1 DEF Templates
  <2>3. down \in BOOLEAN
    BY <2>1
  <2>4. tip \in 0 .. MaxTip
    BY <2>1, ClientAssumption
  <2> QED BY <2>2, <2>3, <2>4 DEF IssuedOnTip
<1>2. IssuedOnTip /\ [Next]_vars => IssuedOnTip'
  BY StepReceives, IssuedOnTipStep DEF IssuedOnTip
<1> QED BY <1>1, <1>2, PTL DEF Spec

\* The client, with the declarations of earlier sessions and the pool's answers in
\* any order, is the template task in an environment its module allows.
THEOREM ClientImplementsReceiver == Spec => ImplementsReceiver
<1>1. Init => TR!Init
  BY DEF Init
<1>2. IssuedOnTip /\ [Next]_vars => [TR!Next]_TR!receiverVars
  BY StepReceives DEF IssuedOnTip
<1> QED BY <1>1, <1>2, IssuedOnTipHolds, PTL DEF Spec, ImplementsReceiver, TR!Spec

-----------------------------------------------------------------------------
(* The client implements the declarator *)

\* A step of the template task is, for the declarator, a new template, a request
\* for a restart or nothing.
LEMMA ReceiverStepDeclares ==
    ASSUME IssuedOnTip, ReceiverStep
    PROVE  [JD!Next]_JD!declaratorVars
<1>1. [TR!Next]_TR!receiverVars /\ UNCHANGED ownDeclarator
  BY StepReceives DEF ReceiverStep, IssuedOnTip, Next
<1>2. CASE TR!TPFutureTemplate \/ TR!TPMempoolTemplate
  <2>1. UNCHANGED down
    BY <1>2 DEF TR!TPFutureTemplate, TR!TPMempoolTemplate
  <2>2. CASE UNCHANGED <<template, tip>>
    BY <1>1, <2>1, <2>2 DEF ownDeclarator, JD!declaratorVars
  <2>3. CASE ~UNCHANGED <<template, tip>>
    <3>1. /\ tip' \in {tip, tip + 1} /\ (tip' = tip + 1 => tip' = tip \/ tip < MaxTip)
          /\ Len(template) < MaxTemplate
          /\ \E future \in BOOLEAN :
                template' = Append(template, [future |-> future, tip |-> tip'])
      BY <1>1, <2>3, IssueOrKeep
    <3>2. tip' \in 0 .. MaxTip /\ tip <= tip' /\ tip \in Nat
      BY <3>1, ClientAssumption DEF IssuedOnTip
    <3>3. \A u \in JD!Templates : template[u].tip <= tip'
      <4> TAKE u \in JD!Templates
      <4>1. template[u].tip \in Nat /\ template[u].tip <= tip
        BY IssuedTips DEF JD!Templates
      <4> QED BY <3>2, <4>1
    <3>4. JD!NewTemplate
      BY <1>1, <2>1, <3>1, <3>2, <3>3
      DEF ownDeclarator, JD!NewTemplate, JD!gateVars, JD!taskVars, JD!declareVars,
          JD!prevHashVars, JD!customVars
    <3> QED BY <3>4 DEF JD!Next, JD!Client
  <2> QED BY <2>2, <2>3
<1>3. CASE TR!PublishFails
  <2>1. down' = TRUE /\ UNCHANGED template
    BY <1>3 DEF TR!PublishFails, TR!providerVars
  <2>2. JD!AskRestart
    BY <1>1, <2>1
    DEF ownDeclarator, JD!AskRestart, JD!gateVars, JD!taskVars, JD!declareVars,
        JD!prevHashVars, JD!customVars
  <2> QED BY <2>2 DEF JD!Next, JD!Client
<1>4. CASE ~(TR!TPFutureTemplate \/ TR!TPMempoolTemplate \/ TR!PublishFails)
  <2>1. UNCHANGED <<template, down>>
    BY <1>4 DEF ReceiverStep, TR!Provider, TR!Publish, TR!TPSetNewPrevHash, TR!TPAnswer,
                TR!SetChannelFactory, TR!GetLastToken, TR!BufferTemplate,
                TR!PublishWithoutChannel, TR!PublishJob, TR!OnTemplateNotFound,
                TR!OnNewTemplate, TR!SkipTemplate, TR!OnStaleTemplate, TR!RequestTemplate,
                TR!EndRequest, TR!providerVars
  <2> QED BY <1>1, <2>1 DEF ownDeclarator, JD!declaratorVars
<1> QED BY <1>2, <1>3, <1>4

LEMMA HandOverDeclares ==
    ASSUME HandOver
    PROVE  [JD!Next]_JD!declaratorVars
<1>1. ASSUME NEW t \in Templates, OnTransactionData(t)
      PROVE  [JD!Next]_JD!declaratorVars
  <2>1. UNCHANGED <<template, down>>
    BY <1>1 DEF OnTransactionData, TR!OnTransactionData, TR!EndRequest, TR!providerVars
  <2>2. CASE JD!OnNewTemplate(t)
    BY <2>2 DEF JD!Next, JD!Client, Templates, JD!Templates
  <2>3. CASE UNCHANGED ownDeclarator
    BY <2>1, <2>3 DEF ownDeclarator, JD!declaratorVars
  <2> QED BY <1>1, <2>2, <2>3 DEF OnTransactionData
<1>2. ASSUME NEW t \in Templates, OnSetNewPrevHash(t)
      PROVE  [JD!Next]_JD!declaratorVars
  BY <1>2 DEF OnSetNewPrevHash, JD!Next, JD!Client, Templates, JD!Templates
<1>3. ASSUME NEW t \in Templates, OnNewTemplateDiscardingLast(t)
      PROVE  [JD!Next]_JD!declaratorVars
  BY <1>3 DEF OnNewTemplateDiscardingLast, JD!Next, JD!Client
<1> QED BY <1>1, <1>2, <1>3 DEF HandOver

LEMMA StepDeclares ==
    ASSUME IssuedOnTip, [Next]_vars
    PROVE  [JD!Next]_JD!declaratorVars
<1>1. CASE ReceiverStep
  BY <1>1, ReceiverStepDeclares
<1>2. CASE HandOver
  BY <1>2, HandOverDeclares
<1>3. CASE DeclaratorStep
  BY <1>3 DEF DeclaratorStep, Declarations, PrevHashTasks, JD!Next, Templates, JD!Templates
<1>4. CASE Restart
  BY <1>4 DEF Restart, JD!Next, JD!Client
<1>5. CASE Rest \/ UNCHANGED vars
  BY <1>5 DEF Rest, vars, ownDeclarator, JD!declaratorVars
<1> QED BY <1>1, <1>2, <1>3, <1>4, <1>5 DEF Next

\* The client is the declarator in an environment its module allows: templates
\* that come on no earlier block, each handed over once, and prev hashes in order.
THEOREM ClientImplementsDeclarator == Spec => ImplementsDeclarator
<1>1. Init => JD!Init
  BY DEF Init
<1>2. IssuedOnTip /\ [Next]_vars => [JD!Next]_JD!declaratorVars
  BY StepDeclares
<1> QED BY <1>1, <1>2, IssuedOnTipHolds, PTL DEF Spec, ImplementsDeclarator, JD!Spec

-----------------------------------------------------------------------------
(* What is proved of each component holds of the client *)

TRP == INSTANCE TemplateReceiver_proofs
JDP == INSTANCE JobDeclarator_proofs

\* The module of the proofs extends the module of the component, so an instance of
\* the one is the specification an instance of the other is.
LEMMA SameReceiver == TR!Spec => TRP!Spec
<1>1. TR!Init <=> TRP!Init
  BY DEF TR!Init, TRP!Init, TR!None, TRP!None, TR!NoWork, TRP!NoWork
<1>2. TR!Next <=> TRP!Next
  BY DEF
     TR!providerVars, TR!factoryVars, TR!flagVars, TR!sessionVars, TR!receiverVars,
     TR!None, TR!Templates, TR!Message, TR!NoWork, TR!Init, TR!Issue,
     TR!TPFutureTemplate, TR!TPSetNewPrevHash, TR!TPMempoolTemplate, TR!Answers,
     TR!TPAnswer, TR!SetChannelFactory, TR!GetLastToken, TR!ReadyForTemplate,
     TR!UsePending, TR!Receive, TR!BufferTemplate, TR!NextTemplate, TR!LastIsFuture,
     TR!WaitForLast, TR!GoToNext, TR!DiscardLast, TR!RequestTemplate,
     TR!OnNewTemplate, TR!OnNewTemplateDiscardingLast, TR!SkipTemplate,
     TR!PublishWithoutChannel, TR!PublishJob, TR!PublishFails, TR!OnSetNewPrevHash,
     TR!EndRequest, TR!OnTransactionData, TR!OnStaleTemplate, TR!OnTemplateNotFound,
     TR!AskRestart, TR!Restart, TR!Quiet, TR!Provider, TR!Publish, TR!Loop, TR!Next,
     TRP!providerVars, TRP!factoryVars, TRP!flagVars, TRP!sessionVars,
     TRP!receiverVars, TRP!None, TRP!Templates, TRP!Message, TRP!NoWork, TRP!Init,
     TRP!Issue, TRP!TPFutureTemplate, TRP!TPSetNewPrevHash, TRP!TPMempoolTemplate,
     TRP!Answers, TRP!TPAnswer, TRP!SetChannelFactory, TRP!GetLastToken,
     TRP!ReadyForTemplate, TRP!UsePending, TRP!Receive, TRP!BufferTemplate,
     TRP!NextTemplate, TRP!LastIsFuture, TRP!WaitForLast, TRP!GoToNext,
     TRP!DiscardLast, TRP!RequestTemplate, TRP!OnNewTemplate,
     TRP!OnNewTemplateDiscardingLast, TRP!SkipTemplate, TRP!PublishWithoutChannel,
     TRP!PublishJob, TRP!PublishFails, TRP!OnSetNewPrevHash, TRP!EndRequest,
     TRP!OnTransactionData, TRP!OnStaleTemplate, TRP!OnTemplateNotFound,
     TRP!AskRestart, TRP!Restart, TRP!Quiet, TRP!Provider, TRP!Publish, TRP!Loop,
     TRP!Next
<1>3. TR!receiverVars = TRP!receiverVars
  BY DEF TR!receiverVars, TRP!receiverVars
<1>4. [TR!Next]_TR!receiverVars => [TRP!Next]_TRP!receiverVars
  BY <1>2, <1>3 DEF TR!receiverVars, TRP!receiverVars
<1> QED BY <1>1, <1>4, PTL DEF TR!Spec, TRP!Spec

LEMMA ClientFeeds == Spec => TRP!Spec /\ []TRP!FeedInv
<1>1. TRP!Spec => []TRP!FeedInv
  BY ClientAssumption, TRP!FeedInvHolds
<1> QED BY <1>1, ClientImplementsReceiver, SameReceiver, PTL DEF ImplementsReceiver

\* In the composed client too the template task never waits for a flag only it
\* sets, asks for the transactions of the job it published, and gives the miners
\* no job under the prev hash of another block.
THEOREM ClientReceiverIsSafe ==
    Spec => [](TR!NeverWaitsOnItself /\ TR!PendingIsBacked /\ TR!WorkOnItsTip)
<1>1. TRP!Spec => [](TRP!NeverWaitsOnItself /\ TRP!PendingIsBacked /\ TRP!WorkOnItsTip)
  <2>1. TRP!Spec => []TRP!NeverWaitsOnItself
    BY ClientAssumption, TRP!NeverWaitsHolds
  <2>2. TRP!Spec => []TRP!PendingIsBacked
    BY ClientAssumption, TRP!PendingIsBackedHolds
  <2>3. TRP!Spec => []TRP!WorkOnItsTip
    BY ClientAssumption, TRP!WorkOnItsTipHolds
  <2> QED BY <2>1, <2>2, <2>3, PTL
<1>2. (TRP!NeverWaitsOnItself /\ TRP!PendingIsBacked /\ TRP!WorkOnItsTip)
      => (TR!NeverWaitsOnItself /\ TR!PendingIsBacked /\ TR!WorkOnItsTip)
  BY DEF TR!NeverWaitsOnItself, TRP!NeverWaitsOnItself, TR!PendingIsBacked,
         TRP!PendingIsBacked, TR!WorkOnItsTip, TRP!WorkOnItsTip, TR!TipOf, TRP!TipOf,
         TR!None, TRP!None
<1> QED BY <1>1, <1>2, ClientFeeds, PTL

LEMMA SameRemoveFirst == \A s, e : JD!RemoveFirst(s, e) = JDP!RemoveFirst(s, e)
<1> SUFFICES ASSUME NEW s, NEW e
             PROVE  JD!RemoveFirst(s, e) = JDP!RemoveFirst(s, e)
  OBVIOUS
<1>1. \A i : JD!RemoveAt(s, i) = JDP!RemoveAt(s, i)
  BY DEF JD!RemoveAt, JDP!RemoveAt
<1>2. \A S : JD!Min(S) = JDP!Min(S)
  BY DEF JD!Min, JDP!Min
<1>3. JD!SelectInSeq(s, LAMBDA v : v = e) = JDP!SelectInSeq(s, LAMBDA v : v = e)
  BY <1>2 DEF JD!SelectInSeq, JDP!SelectInSeq
<1> QED BY <1>1, <1>3 DEF JD!RemoveFirst, JDP!RemoveFirst

LEMMA SameDeclarator == JD!Spec => JDP!Spec
<1>1. JD!Init <=> JDP!Init
  BY DEF JD!Init, JDP!Init, JD!None, JDP!None
<1>2. JD!Next <=> JDP!Next
  BY SameRemoveFirst DEF
     JD!gateVars, JD!taskVars, JD!declareVars, JD!prevHashVars, JD!customVars,
     JD!declaratorVars, JD!None, JD!Templates, JD!Call, JD!Init, JD!OnNewTemplate,
     JD!PassGate, JD!GateTimeout, JD!Record, JD!Declare, JD!DeclareFails,
     JD!OrphanDeclares, JD!Answered, JD!DeclareSuccessFuture, JD!DeclareSuccess,
     JD!DeclareError, JD!DeclareUnknown, JD!OnSetNewPrevHash, JD!StartPrevHash,
     JD!Superseded, JD!LeavePrevHash, JD!ActivateFutureJob, JD!Returned,
     JD!SetCustomJobs, JD!SetCustomJobsFails, JD!Insert, JD!CustomJobSuccess,
     JD!CustomJobError, JD!FreeGate, JD!AskRestart, JD!Restart, JD!NewTemplate,
     JD!Client, JD!Declaration, JD!PrevHashTask, JD!PoolAnswer, JD!SendCustomJob,
     JD!Next, JD!Range, JD!Restrict, JDP!gateVars, JDP!taskVars, JDP!declareVars,
     JDP!prevHashVars, JDP!customVars, JDP!declaratorVars, JDP!None, JDP!Templates,
     JDP!Call, JDP!Init, JDP!OnNewTemplate, JDP!PassGate, JDP!GateTimeout, JDP!Record,
     JDP!Declare, JDP!DeclareFails, JDP!OrphanDeclares, JDP!Answered,
     JDP!DeclareSuccessFuture, JDP!DeclareSuccess, JDP!DeclareError,
     JDP!DeclareUnknown, JDP!OnSetNewPrevHash, JDP!StartPrevHash, JDP!Superseded,
     JDP!LeavePrevHash, JDP!ActivateFutureJob, JDP!Returned, JDP!SetCustomJobs,
     JDP!SetCustomJobsFails, JDP!Insert, JDP!CustomJobSuccess, JDP!CustomJobError,
     JDP!FreeGate, JDP!AskRestart, JDP!Restart, JDP!NewTemplate, JDP!Client,
     JDP!Declaration, JDP!PrevHashTask, JDP!PoolAnswer, JDP!SendCustomJob, JDP!Next,
     JDP!Range, JDP!Restrict
<1>3. JD!declaratorVars = JDP!declaratorVars
  BY DEF JD!declaratorVars, JDP!declaratorVars
<1>4. [JD!Next]_JD!declaratorVars => [JDP!Next]_JDP!declaratorVars
  BY <1>2, <1>3 DEF JD!declaratorVars, JDP!declaratorVars
<1> QED BY <1>1, <1>4, PTL DEF JD!Spec, JDP!Spec

\* In the composed client too a template is in one stage of its declaration, a
\* future job is set under its own prev hash only, the counter counts the tasks in
\* the loop, and the flag is down only while somebody may put it up.
THEOREM ClientDeclaratorIsSafe ==
    Spec => [](/\ JD!OneStage /\ JD!FutureJobOnItsPrevHash
               /\ JD!CounterCountsTasks /\ JD!GateHasOwner)
<1>1. JDP!Spec => [](/\ JDP!OneStage /\ JDP!FutureJobOnItsPrevHash
                     /\ JDP!CounterCountsTasks /\ JDP!GateHasOwner)
  <2>1. JDP!Spec => []JDP!OneStage
    BY ClientAssumption, JDP!OneStageHolds
  <2>2. JDP!Spec => []JDP!FutureJobOnItsPrevHash
    BY ClientAssumption, JDP!FutureJobOnItsPrevHashHolds
  <2>3. JDP!Spec => []JDP!CounterCountsTasks
    BY ClientAssumption, JDP!CounterCountsTasksHolds
  <2>4. JDP!Spec => []JDP!GateHasOwner
    BY ClientAssumption, JDP!GateHasOwnerHolds
  <2> QED BY <2>1, <2>2, <2>3, <2>4, PTL
<1>2. \A S : JD!Cardinality(S) = JDP!Cardinality(S)
  BY DEF JD!Cardinality, JDP!Cardinality
<1>3. JDP!OneStage => JD!OneStage
  BY <1>2 DEF JD!OneStage, JDP!OneStage, JD!Templates, JDP!Templates
<1>4. /\ JDP!FutureJobOnItsPrevHash => JD!FutureJobOnItsPrevHash
      /\ JDP!CounterCountsTasks => JD!CounterCountsTasks
      /\ JDP!GateHasOwner => JD!GateHasOwner
  BY <1>2 DEF JD!FutureJobOnItsPrevHash, JDP!FutureJobOnItsPrevHash, JD!CounterCountsTasks,
         JDP!CounterCountsTasks, JD!GateHasOwner, JDP!GateHasOwner, JD!CustomJobs,
         JDP!CustomJobs, JD!Range, JDP!Range
<1>5. JD!Spec => [](/\ JD!OneStage /\ JD!FutureJobOnItsPrevHash
                    /\ JD!CounterCountsTasks /\ JD!GateHasOwner)
  BY <1>1, <1>3, <1>4, SameDeclarator, PTL
<1> QED BY <1>5, ClientImplementsDeclarator, PTL DEF ImplementsDeclarator


-----------------------------------------------------------------------------
(* The template task hands over what the declarator can take *)

\* Whatever the template task hands over, the declarator's module has a step for
\* it: a job that goes to on_new_template is of a template not declared before, a
\* SetNewPrevHash is of a future template and of none at or before the last one.
\* So the composition drops no step of the template task.
HandOverFits ==
    /\ pendingTx # TR!None /\ pendingJob = pendingTx =>
           pendingTx \in Templates \ handedOver
    /\ inbox # << >> /\ Head(inbox).kind = "SetNewPrevHash" =>
           /\ Head(inbox).t \in Templates
           /\ template[Head(inbox).t].future
           /\ announced < Head(inbox).t

\* The templates named by the messages of a kind that are on the way.
Coming(kind) ==
    {t \in Nat : \E i \in 1 .. Len(inbox) : inbox[i].kind = kind /\ inbox[i].t = t}
Arriving == Coming("NewTemplate")
Announcements == Coming("SetNewPrevHash")

HandOverTypes ==
    /\ handedOver \subseteq Templates
    /\ announced \in 0 .. Len(template)
    /\ pendingTx \in 0 .. Len(template)
    /\ pendingNew \in 0 .. Len(template)

\* Templates are declared, requested, buffered and received in the order of their
\* numbers.
InOrder ==
    /\ \A h \in handedOver :
           /\ pendingTx # 0 => h < pendingTx
           /\ pendingNew # 0 => h < pendingNew
           /\ \A t \in Arriving : h < t
    /\ pendingNew # 0 => pendingTx < pendingNew
    /\ \A t \in Arriving : pendingTx < t /\ pendingNew < t

\* And so are prev hashes, over restarts too.
AnnouncedInOrder ==
    /\ \A t \in Announcements : announced < t
    /\ tp = "future" => announced < Len(template)

HandOverInv == HandOverTypes /\ InOrder /\ AnnouncedInOrder

\* What a step does to the two orders, whichever action takes it.
handOverState == <<pendingTx, pendingNew, handedOver, announced>>

Issues ==
    /\ Len(template') = Len(template) + 1
    /\ Arriving' \subseteq Arriving \cup {Len(template) + 1}
    /\ Announcements' \subseteq Announcements
    /\ tp' = "future" \/ (tp # "future" /\ tp' = tp)
    /\ UNCHANGED handOverState
Announces ==
    /\ tp = "future" /\ tp' # "future"
    /\ Arriving' \subseteq Arriving
    /\ Announcements' \subseteq Announcements \cup {Len(template)}
    /\ UNCHANGED <<template, handOverState>>
Takes(t) ==
    /\ t \in Arriving
    /\ Arriving' \subseteq {u \in Arriving : t < u}
    /\ Announcements' \subseteq Announcements
    /\ UNCHANGED <<template, tp, handedOver, announced>>
Buffers ==
    /\ Takes(pendingNew')
    /\ UNCHANGED pendingTx
Processes ==
    /\ \E t \in Nat : Takes(t) /\ pendingTx' \in {0, t}
    /\ pendingTx = 0 /\ pendingNew = 0 /\ pendingNew' = 0
ProcessesBuffered ==
    /\ pendingTx = 0 /\ pendingTx' \in {0, pendingNew}
    /\ pendingNew # 0 /\ pendingNew' = 0
    /\ UNCHANGED <<template, inbox, tp, handedOver, announced>>
HandsPrevHash ==
    /\ announced' \in Announcements
    /\ Arriving' \subseteq Arriving
    /\ Announcements' \subseteq {u \in Announcements : announced' < u}
    /\ UNCHANGED <<template, tp, pendingTx, pendingNew, handedOver>>
HandsJob ==
    /\ pendingTx # 0 /\ pendingTx' = 0
    /\ handedOver' \subseteq handedOver \cup {pendingTx}
    /\ Arriving' \subseteq Arriving /\ Announcements' \subseteq Announcements
    /\ UNCHANGED <<template, tp, pendingNew, announced>>
StartsOver ==
    /\ inbox' = << >> /\ tp' # "future" /\ pendingTx' = 0 /\ pendingNew' = 0
    /\ UNCHANGED <<template, handedOver, announced>>
LeavesOrder ==
    /\ tp' = "future" => tp = "future"
    /\ Arriving' \subseteq Arriving /\ Announcements' \subseteq Announcements
    /\ UNCHANGED <<template, handOverState>>

HandOverStep ==
    \/ Issues \/ Announces \/ Buffers \/ Processes \/ ProcessesBuffered
    \/ HandsPrevHash \/ HandsJob \/ StartsOver \/ LeavesOrder

LEMMA ComingFacts ==
    ASSUME TRP!FeedInv
    PROVE  /\ template \in Seq([future : BOOLEAN, tip : Nat])
           /\ Arriving \subseteq Templates /\ Announcements \subseteq Templates
           /\ tp = "future" => \A t \in Announcements : t < Len(template)
<1>1. /\ template \in Seq([future : BOOLEAN, tip : Nat])
      /\ inbox \in Seq([kind : TRP!Kinds, t : Nat])
  BY DEF TRP!FeedInv, TRP!FeedTypes
<1>2. Arriving \subseteq Templates /\ Announcements \subseteq Templates
  BY DEF Arriving, Announcements, Coming, TRP!FeedInv, TRP!FeedTypes, TRP!Feed, Templates,
         TRP!Templates
<1>3. ASSUME tp = "future", NEW t \in Announcements
      PROVE  t < Len(template)
  <2>1. t # Len(template)
    BY <1>3 DEF Announcements, Coming, TRP!FeedInv, TRP!Ordered, TRP!Announcing, TRP!At
  <2> QED BY <1>1, <1>2, <1>3, <2>1 DEF Templates
<1> QED BY <1>1, <1>2, <1>3

LEMMA HandOverInvStep ==
    ASSUME TRP!FeedInv, HandOverInv, HandOverStep
    PROVE  HandOverInv'
<1> DEFINE n == Len(template)
<1>1. /\ n \in Nat
      /\ Arriving \subseteq 1 .. n /\ Announcements \subseteq 1 .. n
      /\ tp = "future" => \A t \in Announcements : t < n
  BY ComingFacts DEF Templates
<1> HIDE DEF n
<1> USE DEF HandOverInv, HandOverTypes, InOrder, AnnouncedInOrder, handOverState, Templates
<1>3. CASE Issues
  BY <1>1, <1>3 DEF Issues, n
<1>4. CASE Announces
  BY <1>1, <1>4 DEF Announces, n
<1>5. CASE Buffers
  BY <1>1, <1>5 DEF Buffers, Takes, n
<1>6. CASE Processes
  BY <1>1, <1>6 DEF Processes, Takes, n
<1>7. CASE ProcessesBuffered
  <2>1. Arriving' = Arriving /\ Announcements' = Announcements
    BY <1>7 DEF ProcessesBuffered, Arriving, Announcements, Coming
  <2> QED BY <1>1, <1>7, <2>1 DEF ProcessesBuffered, n
<1>8. CASE HandsPrevHash
  BY <1>1, <1>8 DEF HandsPrevHash, n
<1>9. CASE HandsJob
  BY <1>1, <1>9 DEF HandsJob, n
<1>10. CASE StartsOver
  <2>1. Arriving' = {} /\ Announcements' = {}
    BY <1>10 DEF StartsOver, Arriving, Announcements, Coming
  <2> QED BY <1>1, <1>10, <2>1 DEF StartsOver, n
<1>11. CASE LeavesOrder
  BY <1>1, <1>11 DEF LeavesOrder, n
<1> QED BY <1>3, <1>4, <1>5, <1>6, <1>7, <1>8, <1>9, <1>10, <1>11 DEF HandOverStep

LEMMA SendComes ==
    ASSUME TRP!FeedInv, NEW kind, NEW t \in Nat,
           inbox' = Append(inbox, TR!Message(kind, t))
    PROVE  /\ Arriving' \subseteq
                  IF kind = "NewTemplate" THEN Arriving \cup {t} ELSE Arriving
           /\ Announcements' \subseteq
                  IF kind = "SetNewPrevHash" THEN Announcements \cup {t} ELSE Announcements
<1>1. inbox \in Seq([kind : TRP!Kinds, t : Nat])
  BY DEF TRP!FeedInv, TRP!FeedTypes
<1>2. ASSUME NEW k
      PROVE  Coming(k)' \subseteq IF k = kind THEN Coming(k) \cup {t} ELSE Coming(k)
  <2>1. /\ Len(inbox') = Len(inbox) + 1 /\ Len(inbox) \in Nat
        /\ \A i \in 1 .. Len(inbox) : inbox'[i] = inbox[i]
        /\ inbox'[Len(inbox) + 1] = [kind |-> kind, t |-> t]
    BY <1>1, AppendProperties DEF TR!Message
  <2> QED BY <2>1 DEF Coming
<1> QED BY <1>2 DEF Arriving, Announcements

LEMMA ReceiveTakes ==
    ASSUME TRP!FeedInv, NEW kind, TR!Receive(kind)
    PROVE  /\ Arriving' \subseteq Arriving /\ Announcements' \subseteq Announcements
           /\ kind = "NewTemplate" =>
                  /\ Head(inbox).t \in Arriving
                  /\ Arriving' \subseteq {u \in Arriving : Head(inbox).t < u}
           /\ kind = "SetNewPrevHash" =>
                  /\ Head(inbox).t \in Announcements
                  /\ Announcements' \subseteq {u \in Announcements : Head(inbox).t < u}
<1>1. /\ inbox \in Seq([kind : TRP!Kinds, t : Nat])
      /\ inbox # << >> /\ inbox' = Tail(inbox) /\ Head(inbox).kind = kind
  BY DEF TRP!FeedInv, TRP!FeedTypes, TR!Receive
<1>2. /\ Len(inbox) \in Nat \ {0} /\ Len(inbox') = Len(inbox) - 1
      /\ \A i \in 1 .. Len(inbox) - 1 : inbox'[i] = inbox[i + 1]
      /\ Head(inbox) = inbox[1] /\ inbox[1].t \in Nat
  <2>1. Head(inbox) \in [kind : TRP!Kinds, t : Nat] /\ Len(inbox) \in Nat \ {0}
    BY <1>1, HeadTailProperties, EmptySeq
  <2>2. Head(inbox) = inbox[1]
    BY <1>1
  <2>3. /\ Len(inbox') = Len(inbox) - 1
        /\ \A i \in 1 .. Len(inbox) - 1 : inbox'[i] = inbox[i + 1]
    BY <1>1, HeadTailProperties
  <2> QED BY <2>1, <2>2, <2>3
<1>3. ASSUME NEW k
      PROVE  Coming(k)' \subseteq Coming(k)
  BY <1>2 DEF Coming
<1>4. ASSUME kind \in TRP!Feed, NEW u \in Coming(kind)'
      PROVE  inbox[1].t < u
  <2>1. PICK i \in 1 .. Len(inbox) - 1 : inbox[i + 1].kind = kind /\ inbox[i + 1].t = u
    BY <1>2 DEF Coming
  <2>2. TRP!Before(inbox[1], inbox[i + 1])
    BY <1>2 DEF TRP!FeedInv, TRP!Ordered
  <2> QED BY <1>1, <1>2, <1>4, <2>1, <2>2 DEF TRP!Before
<1>5. inbox[1].t \in Coming(kind)
  BY <1>1, <1>2 DEF Coming
<1>6. {"NewTemplate", "SetNewPrevHash"} \subseteq TRP!Feed
  BY DEF TRP!Feed
<1> QED BY <1>2, <1>3, <1>4, <1>5, <1>6 DEF Arriving, Announcements

\* The declaration tasks hand nothing over.
LEMMA DeclaratorKeepsOrder ==
    ASSUME DeclaratorStep
    PROVE  UNCHANGED <<template, inbox, tp, handOverState>>
<1>1. UNCHANGED <<inbox, tp, pendingTx, pendingNew>>
  BY DEF DeclaratorStep, ownReceiver
<1>2. ASSUME NEW t, JD!Declaration(t)
      PROVE  UNCHANGED <<template, handedOver, announced>>
  BY <1>2 DEF JD!Declaration, JD!PassGate, JD!GateTimeout, JD!Declare, JD!DeclareFails,
              JD!OrphanDeclares
<1>3. ASSUME NEW t, JD!PrevHashTask(t)
      PROVE  UNCHANGED <<template, handedOver, announced>>
  BY <1>3 DEF JD!PrevHashTask, JD!StartPrevHash, JD!LeavePrevHash, JD!ActivateFutureJob
<1>4. ASSUME JD!PoolAnswer
      PROVE  UNCHANGED <<template, handedOver, announced>>
  BY <1>4 DEF JD!PoolAnswer, JD!DeclareSuccessFuture, JD!DeclareSuccess, JD!DeclareError,
              JD!DeclareUnknown, JD!CustomJobSuccess, JD!CustomJobError
<1>5. ASSUME JD!SendCustomJob
      PROVE  UNCHANGED <<template, handedOver, announced>>
  BY <1>5 DEF JD!SendCustomJob, JD!SetCustomJobs, JD!SetCustomJobsFails
<1> QED BY <1>1, <1>2, <1>3, <1>4, <1>5
        DEF DeclaratorStep, Declarations, PrevHashTasks, handOverState

LEMMA ProcessedTemplate ==
    ASSUME TRP!FeedInv, NEW t, TR!NextTemplate(t),
           pendingTx' \in {pendingTx, t},
           UNCHANGED <<template, tp, handedOver, announced>>
    PROVE  Processes \/ ProcessesBuffered
<1>1. pendingTx = 0
  BY DEF TR!NextTemplate, TR!UsePending, TR!ReadyForTemplate, TR!None
<1>2. CASE pendingNew # 0
  <2>1. t = pendingNew /\ pendingNew' = 0 /\ inbox' = inbox
    BY <1>2 DEF TR!NextTemplate, TR!Receive, TR!UsePending, TR!None
  <2> QED BY <1>1, <1>2, <2>1 DEF ProcessesBuffered
<1>3. CASE pendingNew = 0
  <2>1. TR!Receive("NewTemplate") /\ t = Head(inbox).t /\ pendingNew' = 0
    BY <1>3 DEF TR!NextTemplate, TR!UsePending, TR!None
  <2>2. Takes(t)
    BY <2>1, ReceiveTakes DEF Takes
  <2>3. t \in Nat
    BY <2>2 DEF Takes, Arriving, Coming
  <2> QED BY <1>1, <1>3, <2>1, <2>2, <2>3 DEF Processes
<1> QED BY <1>2, <1>3

\* Every step of the client is one of these.
LEMMA HandOverMoves ==
    ASSUME TRP!FeedInv, [Next]_vars
    PROVE  HandOverStep
<1> USE DEF handOverState
<1> DEFINE n == Len(template)
<1>a. /\ template \in Seq([future : BOOLEAN, tip : Nat]) /\ n \in Nat
      /\ txRequests \in Seq(Nat)
  BY DEF TRP!FeedInv, TRP!FeedTypes
<1>1. ASSUME NEW future, NEW height, TR!Issue(future, height),
             tp' = "future" \/ (tp = "announced" /\ tp' = tp), UNCHANGED handOverState
      PROVE  Issues
  <2>1. Len(template') = n + 1
    BY <1>1, <1>a DEF TR!Issue
  <2>2. /\ Arriving' \subseteq Arriving \cup {n + 1}
        /\ Announcements' \subseteq Announcements
    <3>1. n + 1 \in Nat /\ inbox' = Append(inbox, TR!Message("NewTemplate", n + 1))
      BY <1>1, <1>a DEF TR!Issue
    <3> HIDE DEF n
    <3> QED BY <3>1, SendComes
  <2> QED BY <1>1, <2>1, <2>2 DEF Issues
<1>2. CASE ReceiverStep
  <2>a. UNCHANGED <<handedOver, announced>>
    BY <1>2 DEF ReceiverStep, ownDeclarator
  <2>1. CASE TR!TPFutureTemplate
    BY <1>1, <2>a, <2>1 DEF TR!TPFutureTemplate, HandOverStep
  <2>2. CASE TR!TPMempoolTemplate
    BY <1>1, <2>a, <2>2 DEF TR!TPMempoolTemplate, HandOverStep
  <2>3. CASE TR!TPSetNewPrevHash
    <3>1. /\ Arriving' \subseteq Arriving
          /\ Announcements' \subseteq Announcements \cup {n}
      BY <1>a, <2>3, SendComes DEF TR!TPSetNewPrevHash
    <3> QED BY <2>a, <2>3, <3>1 DEF TR!TPSetNewPrevHash, Announces, HandOverStep
  <2>4. CASE TR!TPAnswer
    <3>1. Head(txRequests) \in Nat
      BY <1>a, <2>4, HeadTailProperties DEF TR!TPAnswer
    <3>2. PICK kind \in TR!Answers(Head(txRequests)) :
              inbox' = Append(inbox, TR!Message(kind, Head(txRequests)))
      BY <2>4 DEF TR!TPAnswer
    <3>3. kind \notin {"NewTemplate", "SetNewPrevHash"}
      BY <3>2, ClientAssumption DEF TR!Answers
    <3>4. Arriving' \subseteq Arriving /\ Announcements' \subseteq Announcements
      BY <3>1, <3>2, <3>3, SendComes
    <3> QED BY <2>a, <2>4, <3>4 DEF TR!TPAnswer, TR!providerVars, LeavesOrder, HandOverStep
  <2>5. CASE TR!SetChannelFactory \/ TR!GetLastToken \/ TR!Publish
    <3>1. /\ UNCHANGED <<template, inbox, pendingTx, pendingNew>>
          /\ tp' = "future" => tp = "future"
      BY <2>5 DEF TR!SetChannelFactory, TR!GetLastToken, TR!Publish,
                  TR!PublishWithoutChannel, TR!PublishJob, TR!PublishFails, TR!providerVars
    <3>2. Arriving' = Arriving /\ Announcements' = Announcements
      BY <3>1 DEF Arriving, Announcements, Coming
    <3> QED BY <2>a, <3>1, <3>2 DEF LeavesOrder, HandOverStep
  <2>6. CASE TR!BufferTemplate
    <3>1. Takes(Head(inbox).t)
      BY <2>a, <2>6, ReceiveTakes DEF TR!BufferTemplate, Takes, TR!providerVars
    <3> QED BY <2>6, <3>1 DEF TR!BufferTemplate, Buffers, HandOverStep
  <2>7. CASE TR!OnTemplateNotFound
    <3>1. Arriving' \subseteq Arriving /\ Announcements' \subseteq Announcements
      BY <2>7, ReceiveTakes DEF TR!OnTemplateNotFound
    <3> QED BY <2>a, <2>7, <3>1
            DEF TR!OnTemplateNotFound, TR!providerVars, LeavesOrder, HandOverStep
  <2>8. ASSUME NEW t \in Templates, TR!OnNewTemplate(t) \/ TR!SkipTemplate(t)
        PROVE  HandOverStep
    BY <2>a, <2>8, ProcessedTemplate
       DEF TR!OnNewTemplate, TR!SkipTemplate, TR!RequestTemplate, TR!providerVars, HandOverStep
  <2>9. ASSUME NEW t \in Templates, TR!OnStaleTemplate(t)
        PROVE  HandOverStep
    <3>1. Arriving' \subseteq Arriving /\ Announcements' \subseteq Announcements
      BY <2>9, ReceiveTakes DEF TR!OnStaleTemplate
    <3>2. CASE t = pendingTx
      BY <1>a, <2>a, <2>9, <3>1, <3>2
         DEF TR!OnStaleTemplate, TR!EndRequest, TR!providerVars, TR!None, Templates,
             HandsJob, HandOverStep
    <3>3. CASE t # pendingTx
      BY <2>a, <2>9, <3>1, <3>3
         DEF TR!OnStaleTemplate, TR!EndRequest, TR!providerVars, LeavesOrder, HandOverStep
    <3> QED BY <3>2, <3>3
  <2> QED BY <1>2, <2>1, <2>2, <2>3, <2>4, <2>5, <2>6, <2>7, <2>8, <2>9
          DEF ReceiverStep, TR!Provider
<1>3. ASSUME NEW t \in Templates, OnTransactionData(t)
      PROVE  HandOverStep
  <2>1. TR!OnTransactionData(t)
    BY <1>3 DEF OnTransactionData
  <2>2. Arriving' \subseteq Arriving /\ Announcements' \subseteq Announcements
    BY <2>1, ReceiveTakes DEF TR!OnTransactionData
  <2>3. UNCHANGED announced /\ handedOver' \subseteq handedOver \cup {t}
    BY <1>3 DEF OnTransactionData, JD!OnNewTemplate, ownDeclarator
  <2>4. CASE t = pendingTx
    BY <1>a, <2>1, <2>2, <2>3, <2>4
       DEF TR!OnTransactionData, TR!EndRequest, TR!providerVars, TR!None, Templates,
           HandsJob, HandOverStep
  <2>5. CASE t # pendingTx
    <3>1. UNCHANGED handedOver
      BY <1>3, <2>5 DEF OnTransactionData, ownDeclarator
    <3> QED BY <2>1, <2>2, <2>3, <2>5, <3>1
            DEF TR!OnTransactionData, TR!EndRequest, TR!providerVars, LeavesOrder, HandOverStep
  <2> QED BY <2>4, <2>5
<1>4. ASSUME NEW t \in Templates, OnSetNewPrevHash(t)
      PROVE  HandOverStep
  <2>1. /\ t = Head(inbox).t /\ TR!Receive("SetNewPrevHash")
        /\ UNCHANGED <<template, tp, pendingTx, pendingNew, handedOver>>
        /\ announced' = t
    BY <1>4 DEF OnSetNewPrevHash, TR!OnSetNewPrevHash, JD!OnSetNewPrevHash, TR!providerVars
  <2> QED BY <2>1, ReceiveTakes DEF HandsPrevHash, HandOverStep
<1>5. ASSUME NEW t \in Templates, OnNewTemplateDiscardingLast(t)
      PROVE  HandOverStep
  BY <1>5, ProcessedTemplate
     DEF OnNewTemplateDiscardingLast, TR!OnNewTemplateDiscardingLast, TR!RequestTemplate,
         TR!providerVars, JD!FreeGate, HandOverStep
<1>6. CASE DeclaratorStep \/ Rest \/ UNCHANGED vars
  <2>1. UNCHANGED <<template, inbox, tp, handOverState>>
    BY <1>6, DeclaratorKeepsOrder DEF Rest, vars, ownReceiver, ownDeclarator
  <2>2. Arriving' = Arriving /\ Announcements' = Announcements
    BY <2>1 DEF Arriving, Announcements, Coming
  <2> QED BY <2>1, <2>2 DEF LeavesOrder, HandOverStep
<1>7. CASE Restart
  BY <1>7 DEF Restart, TR!Restart, JD!Restart, TR!None, StartsOver, HandOverStep
<1> QED BY <1>2, <1>3, <1>4, <1>5, <1>6, <1>7 DEF Next, HandOver

\* The hand-over fits: the guards that stand for the declarator's environment
\* (each template once, prev hashes in order) exclude no step of the template
\* task, in any session and after any restart.
THEOREM HandOverFitsHolds == Spec => []HandOverFits
<1>1. Init => HandOverInv
  BY DEF Init, TR!Init, JD!Init, TR!None, JD!None, HandOverInv, HandOverTypes, InOrder,
         AnnouncedInOrder, Arriving, Announcements, Coming, Templates
<1>2. TRP!FeedInv /\ HandOverInv /\ [Next]_vars => HandOverInv'
  BY HandOverMoves, HandOverInvStep
<1>3. TRP!FeedInv /\ HandOverInv => HandOverFits
  <2> SUFFICES ASSUME TRP!FeedInv, HandOverInv
               PROVE  HandOverFits
    OBVIOUS
  <2>1. ASSUME pendingTx # TR!None
        PROVE  pendingTx \in Templates \ handedOver
    BY <2>1, ComingFacts DEF HandOverInv, HandOverTypes, InOrder, Templates, TR!None
  <2>2. ASSUME inbox # << >>, Head(inbox).kind = "SetNewPrevHash"
        PROVE  /\ Head(inbox).t \in Templates
               /\ template[Head(inbox).t].future
               /\ announced < Head(inbox).t
    <3>1. /\ Head(inbox) = inbox[1] /\ 1 \in 1 .. Len(inbox)
          /\ inbox[1].t \in Nat
      <4>1. inbox \in Seq([kind : TRP!Kinds, t : Nat])
        BY DEF TRP!FeedInv, TRP!FeedTypes
      <4>2. Head(inbox) \in [kind : TRP!Kinds, t : Nat] /\ Len(inbox) \in Nat \ {0}
        BY <2>2, <4>1, HeadTailProperties, EmptySeq
      <4>3. Head(inbox) = inbox[1]
        BY <2>2, <4>1
      <4> QED BY <4>2, <4>3
    <3>2. Head(inbox).t \in Announcements
      BY <2>2, <3>1 DEF Announcements, Coming
    <3>3. Head(inbox).t \in Templates /\ announced < Head(inbox).t
      BY <3>2, ComingFacts DEF HandOverInv, AnnouncedInOrder
    <3>4. TRP!Announcing(Head(inbox).t)
      BY <2>2, <3>1 DEF TRP!Announcing, TRP!At
    <3> QED BY <3>3, <3>4 DEF TRP!FeedInv, TRP!Announced, Templates, TRP!Templates
  <2> QED BY <2>1, <2>2 DEF HandOverFits
<1> QED BY <1>1, <1>2, <1>3, ClientFeeds, PTL DEF Spec
=============================================================================
