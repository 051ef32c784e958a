---------------------------- MODULE TemplateReceiver ----------------------------
(***************************************************************************)
(* The template task of the job-declaration client: TemplateRx             *)
(* (src/src/jd_client/template_receiver/mod.rs) together with the part of  *)
(* DownstreamMiningNode (src/src/jd_client/mining_downstream/mod.rs) that  *)
(* runs inside it, and the template provider it talks to.                  *)
(*                                                                         *)
(* The task reads one FIFO of messages.  Handling a NewTemplate is two     *)
(* actions, because the task awaits between asking for the template's      *)
(* transactions and publishing its job; every other message is one.        *)
(*                                                                         *)
(* The template provider is external.  It assumes nothing the code does    *)
(* not: a connection starts with a future template, and a future template  *)
(* is followed by its SetNewPrevHash before any other template ("THIS CODE *)
(* ASSUME THAT TP SEND FUTURE ONLY BEFORE SNPH").  So is the channel       *)
(* factory of roles_logic: a future template becomes a job that waits for  *)
(* its SetNewPrevHash, any other is work at once under the last one.       *)
(*                                                                         *)
(* A template is its number, 0 is Option::None.  A failed channel send     *)
(* means the peer task is gone and the proxy restarts: Restart covers it.  *)
(* The merge-mining calls of the task are in MergeMining.                  *)
(***************************************************************************)
EXTENDS Integers, Sequences

CONSTANTS
    MaxTemplate,   \* bound on the templates the provider issues
    MaxTip,        \* bound on the blocks found
    MaxSessions,   \* bound on the sessions of the client (1 + restarts)
    StaleCodes     \* how the provider refuses the data of an outdated template

ASSUME ReceiverAssumption ==
    /\ MaxTemplate \in Nat /\ MaxTip \in Nat /\ MaxSessions \in Nat \ {0}
    /\ StaleCodes \subseteq {"TxDataStale", "TxDataNotFound"}

VARIABLES
    template,            \* the templates issued: whether future, on which tip
    tip,                 \* the provider's best block
    tp,                  \* what the provider has sent on this connection
    inbox,               \* messages on their way to the task
    txRequests,          \* RequestTransactionData not yet answered
    channel,             \* DownstreamMiningNodeStatus has a channel factory
    offered,             \* future templates whose job waits in the factory
    prevHash,            \* the factory's last SetNewPrevHash
    work,                \* what the miners hash: a template under a prev hash
    rx,                  \* the task is in its loop, or publishing a job
    lastToken,           \* last_token is Some
    pendingNew,          \* pending_new_template
    pendingTx,           \* pending_tx_data_template_id
    pendingJob,          \* pending_downstream_job
    newTemplateMessage,  \* the template last requested
    handled,             \* IS_NEW_TEMPLATE_HANDLED
    newPhash,            \* IS_NEW_PHASH_ARRIVED
    down,                \* a component asked for a restart of the proxy
    session,             \* the number of this session
    ignored              \* templates refused as not found (history)

providerVars == <<template, tip, tp>>
factoryVars == <<offered, prevHash, work>>
flagVars == <<handled, newPhash>>
sessionVars == <<session, ignored>>
receiverVars == <<template, tip, tp, inbox, txRequests, channel, offered, prevHash,
                  work, rx, lastToken, pendingNew, pendingTx, pendingJob,
                  newTemplateMessage, handled, newPhash, down, session, ignored>>

-----------------------------------------------------------------------------
(* Values *)

None == 0
Templates == 1 .. Len(template)
Kinds == {"NewTemplate", "SetNewPrevHash", "TxDataSuccess", "TxDataStale",
          "TxDataNotFound"}
Message(kind, t) == [kind |-> kind, t |-> t]
NoWork == [t |-> None, on |-> None]

\* The tip a template builds on; no template builds on tip -1.
TipOf(t) == IF t = None THEN -1 ELSE template[t].tip

-----------------------------------------------------------------------------
Init ==
    /\ template = << >>
    /\ tip = 0
    /\ tp = "connected"
    /\ inbox = << >>
    /\ txRequests = << >>
    /\ channel = FALSE
    /\ offered = {}
    /\ prevHash = None
    /\ work = NoWork
    /\ rx = "loop"
    /\ lastToken = FALSE
    /\ pendingNew = None
    /\ pendingTx = None
    /\ pendingJob = None
    /\ newTemplateMessage = None
    /\ handled = TRUE
    /\ newPhash = FALSE
    /\ down = FALSE
    /\ session = 1
    /\ ignored = {}

-----------------------------------------------------------------------------
(* The template provider *)

Issue(future, height) ==
    /\ Len(template) < MaxTemplate
    /\ template' = Append(template, [future |-> future, tip |-> height])
    /\ inbox' = Append(inbox, Message("NewTemplate", Len(template) + 1))

\* The first template of a connection, or the first on a new block.
TPFutureTemplate ==
    /\ \/ tp = "asked" /\ tip' = tip
       \/ tp = "announced" /\ tip < MaxTip /\ tip' = tip + 1
    /\ Issue(TRUE, tip')
    /\ tp' = "future"
    /\ UNCHANGED <<txRequests, channel, factoryVars, rx, lastToken, pendingNew,
                   pendingTx, pendingJob, newTemplateMessage, flagVars, down, sessionVars>>

TPSetNewPrevHash ==
    /\ tp = "future"
    /\ inbox' = Append(inbox, Message("SetNewPrevHash", Len(template)))
    /\ tp' = "announced"
    /\ UNCHANGED <<template, tip, txRequests, channel, factoryVars, rx, lastToken,
                   pendingNew, pendingTx, pendingJob, newTemplateMessage, flagVars,
                   down, sessionVars>>

\* Better transactions for the same block.
TPMempoolTemplate ==
    /\ tp = "announced"
    /\ Issue(FALSE, tip)
    /\ UNCHANGED <<tip, tp, txRequests, channel, factoryVars, rx, lastToken,
                   pendingNew, pendingTx, pendingJob, newTemplateMessage, flagVars,
                   down, sessionVars>>

Answers(t) == IF template[t].tip = tip THEN {"TxDataSuccess"} ELSE StaleCodes

TPAnswer ==
    /\ txRequests # << >>
    /\ \E kind \in Answers(Head(txRequests)) :
           inbox' = Append(inbox, Message(kind, Head(txRequests)))
    /\ txRequests' = Tail(txRequests)
    /\ UNCHANGED <<providerVars, channel, factoryVars, rx, lastToken, pendingNew,
                   pendingTx, pendingJob, newTemplateMessage, flagVars, down, sessionVars>>

-----------------------------------------------------------------------------
(* The task's loop *)

\* set_channel_factory: the pool answered the translator's request for a channel.
SetChannelFactory ==
    /\ ~channel
    /\ channel' = TRUE
    /\ UNCHANGED <<providerVars, inbox, txRequests, factoryVars, rx, lastToken,
                   pendingNew, pendingTx, pendingJob, newTemplateMessage, flagVars,
                   down, sessionVars>>

\* The top of the loop: a token, and the coinbase size the provider waits for
\* before it sends the first template.
GetLastToken ==
    /\ rx = "loop"
    /\ ~lastToken
    /\ lastToken' = TRUE
    /\ tp' = IF tp = "connected" THEN "asked" ELSE tp
    /\ UNCHANGED <<template, tip, inbox, txRequests, channel, factoryVars, rx,
                   pendingNew, pendingTx, pendingJob, newTemplateMessage, flagVars,
                   down, sessionVars>>

ReadyForTemplate == handled /\ pendingTx = None

UsePending == ReadyForTemplate /\ pendingNew # None

\* receiver.recv(): the next message, unless a buffered template comes first.
Receive(kind) ==
    /\ rx = "loop"
    /\ lastToken
    /\ ~UsePending
    /\ inbox # << >>
    /\ Head(inbox).kind = kind
    /\ inbox' = Tail(inbox)

\* Mutant of BufferTemplate: the buffer keeps the first template it is given.
BufferFirstTemplate ==
    /\ Receive("NewTemplate")
    /\ ~ReadyForTemplate
    /\ pendingNew' = IF pendingNew = None THEN Head(inbox).t ELSE pendingNew
    /\ UNCHANGED <<providerVars, txRequests, channel, factoryVars, rx, lastToken,
                   pendingTx, pendingJob, newTemplateMessage, flagVars, down, sessionVars>>

\* A template that cannot be processed yet takes the place of an older one.
BufferTemplate ==
    /\ Receive("NewTemplate")
    /\ ~ReadyForTemplate
    /\ pendingNew' = Head(inbox).t
    /\ UNCHANGED <<providerVars, txRequests, channel, factoryVars, rx, lastToken,
                   pendingTx, pendingJob, newTemplateMessage, flagVars, down, sessionVars>>

\* The template to process: the buffered one, or the next message.
NextTemplate(t) ==
    \/ /\ rx = "loop" /\ lastToken
       /\ UsePending
       /\ t = pendingNew
       /\ pendingNew' = None
       /\ inbox' = inbox
    \/ /\ Receive("NewTemplate")
       /\ ReadyForTemplate
       /\ t = Head(inbox).t
       /\ pendingNew' = pendingNew

\* The decision table of start_templates.
LastIsFuture == newTemplateMessage # None /\ template[newTemplateMessage].future
WaitForLast == (LastIsFuture /\ newPhash) \/ ~newPhash
GoToNext(t) == ~template[t].future /\ newPhash
DiscardLast == ~LastIsFuture /\ ~WaitForLast

\* Both publishing branches, up to the call of Downstream::on_new_template.
RequestTemplate(t) ==
    /\ pendingJob' = None
    /\ newPhash' = FALSE
    /\ handled' = FALSE
    /\ pendingTx' = t
    /\ txRequests' = Append(txRequests, t)
    /\ newTemplateMessage' = t
    /\ rx' = "publishing"
    /\ UNCHANGED <<providerVars, channel, factoryVars, lastToken, down, sessionVars>>

OnNewTemplate(t) ==
    /\ NextTemplate(t)
    /\ WaitForLast
    /\ RequestTemplate(t)

\* discard_last_and_use_this also frees IS_CUSTOM_JOB_SET: see JdClient.
OnNewTemplateDiscardingLast(t) ==
    /\ NextTemplate(t)
    /\ ~WaitForLast /\ ~GoToNext(t) /\ DiscardLast
    /\ RequestTemplate(t)

\* go_to_next_template: nothing but the message is used up.
SkipTemplate(t) ==
    /\ NextTemplate(t)
    /\ ~WaitForLast /\ GoToNext(t)
    /\ UNCHANGED <<providerVars, txRequests, channel, factoryVars, rx, lastToken,
                   pendingTx, pendingJob, newTemplateMessage, flagVars, down, sessionVars>>

-----------------------------------------------------------------------------
(* DownstreamMiningNode::on_new_template *)

\* Mutant of PublishWithoutChannel: the early return leaves the flag down.
PublishWithoutChannelUnhandled ==
    /\ rx = "publishing"
    /\ ~channel
    /\ rx' = "loop"
    /\ UNCHANGED <<providerVars, inbox, txRequests, channel, factoryVars, lastToken,
                   pendingNew, pendingTx, pendingJob, newTemplateMessage, flagVars,
                   down, sessionVars>>

\* Without a channel there is no job, and the template counts as handled.
PublishWithoutChannel ==
    /\ rx = "publishing"
    /\ ~channel
    /\ handled' = TRUE
    /\ rx' = "loop"
    /\ UNCHANGED <<providerVars, inbox, txRequests, channel, factoryVars, lastToken,
                   pendingNew, pendingTx, pendingJob, newTemplateMessage, newPhash,
                   down, sessionVars>>

PublishJob ==
    LET t == pendingTx
    IN  /\ rx = "publishing"
        /\ channel
        /\ \/ /\ template[t].future
              /\ offered' = offered \cup {t}
              /\ work' = work
           \/ /\ ~template[t].future
              /\ prevHash # None
              /\ offered' = offered
              /\ work' = [t |-> t, on |-> prevHash]
        /\ pendingJob' = t
        /\ handled' = TRUE
        /\ rx' = "loop"
        /\ UNCHANGED <<providerVars, inbox, txRequests, channel, prevHash, lastToken,
                       pendingNew, pendingTx, newTemplateMessage, newPhash, down,
                       sessionVars>>

\* Too many coinbase outputs, or a job the factory refuses: the task goes on,
\* and the proxy is asked to restart.
PublishFails ==
    /\ rx = "publishing"
    /\ channel
    /\ handled' = TRUE
    /\ down' = TRUE
    /\ rx' = "loop"
    /\ UNCHANGED <<providerVars, inbox, txRequests, channel, factoryVars, lastToken,
                   pendingNew, pendingTx, pendingJob, newTemplateMessage, newPhash,
                   sessionVars>>

-----------------------------------------------------------------------------
(* The other messages *)

\* SetNewPrevHash waits for the flag that this very task sets and clears, then
\* DownstreamMiningNode::on_set_new_prev_hash.  A template the factory does not
\* know activates no job.
OnSetNewPrevHash(t) ==
    /\ Receive("SetNewPrevHash")
    /\ t = Head(inbox).t
    /\ handled
    /\ newPhash' = TRUE
    /\ IF channel
       THEN /\ prevHash' = t
            /\ work' = IF t \in offered THEN [t |-> t, on |-> t] ELSE work
            /\ offered' = {}
       ELSE UNCHANGED factoryVars
    /\ UNCHANGED <<providerVars, txRequests, channel, rx, lastToken, pendingNew,
                   pendingTx, pendingJob, newTemplateMessage, handled, down, sessionVars>>

\* Mutant of EndRequest: the job of the refused template is kept.
EndRequestKeepingJob(t) ==
    /\ IF t = pendingTx
       THEN /\ pendingTx' = None
            /\ lastToken' = FALSE
            /\ UNCHANGED pendingJob
       ELSE UNCHANGED <<pendingTx, pendingJob, lastToken>>
    /\ UNCHANGED <<providerVars, txRequests, channel, factoryVars, rx, pendingNew,
                   newTemplateMessage, flagVars, down, sessionVars>>

\* The answer to the pending request ends it and spends the token; any other is
\* dropped.
EndRequest(t) ==
    /\ IF t = pendingTx
       THEN /\ pendingTx' = None
            /\ pendingJob' = None
            /\ lastToken' = FALSE
       ELSE UNCHANGED <<pendingTx, pendingJob, lastToken>>
    /\ UNCHANGED <<providerVars, txRequests, channel, factoryVars, rx, pendingNew,
                   newTemplateMessage, flagVars, down, sessionVars>>

\* RequestTransactionDataSuccess: the pending job goes to the job declarator.
OnTransactionData(t) ==
    /\ Receive("TxDataSuccess")
    /\ t = Head(inbox).t
    /\ EndRequest(t)

\* Mutant of OnStaleTemplate: the refusal is ignored.
OnStaleTemplateIgnored(t) ==
    /\ Receive("TxDataStale")
    /\ t = Head(inbox).t
    /\ UNCHANGED <<providerVars, txRequests, channel, factoryVars, rx, lastToken,
                   pendingNew, pendingTx, pendingJob, newTemplateMessage, flagVars,
                   down, sessionVars>>

\* "stale-template-id"
OnStaleTemplate(t) ==
    /\ Receive("TxDataStale")
    /\ t = Head(inbox).t
    /\ EndRequest(t)

\* "template-id-not-found" comes out of the message handler as NoValidTemplate,
\* which the loop logs and ignores.
OnTemplateNotFound ==
    /\ Receive("TxDataNotFound")
    /\ ignored' = ignored \cup {Head(inbox).t}
    /\ UNCHANGED <<providerVars, txRequests, channel, factoryVars, rx, lastToken,
                   pendingNew, pendingTx, pendingJob, newTemplateMessage, flagVars,
                   down, session>>

-----------------------------------------------------------------------------
\* Another component asks for a restart.
AskRestart ==
    /\ down' = TRUE
    /\ UNCHANGED <<providerVars, inbox, txRequests, channel, factoryVars, rx, lastToken,
                   pendingNew, pendingTx, pendingJob, newTemplateMessage, flagVars,
                   sessionVars>>

\* jd_client::start of the next session: whatever was on the way is lost, the
\* flags are reset, the provider starts over on a new connection.
Restart ==
    /\ session < MaxSessions
    /\ session' = session + 1
    /\ ignored' = {}
    /\ tp' = "connected"
    /\ inbox' = << >>
    /\ txRequests' = << >>
    /\ channel' = FALSE
    /\ offered' = {}
    /\ prevHash' = None
    /\ work' = NoWork
    /\ rx' = "loop"
    /\ lastToken' = FALSE
    /\ pendingNew' = None
    /\ pendingTx' = None
    /\ pendingJob' = None
    /\ newTemplateMessage' = None
    /\ handled' = TRUE
    /\ newPhash' = FALSE
    /\ down' = FALSE
    /\ UNCHANGED <<template, tip>>

\* The provider is silent and the task waits for the next message: the only
\* place where the client may come to rest.
Quiet ==
    /\ inbox = << >> /\ txRequests = << >>
    /\ rx = "loop" /\ lastToken /\ ~UsePending
    /\ UNCHANGED receiverVars

Provider == TPFutureTemplate \/ TPSetNewPrevHash \/ TPMempoolTemplate \/ TPAnswer

Publish == PublishWithoutChannel \/ PublishJob \/ PublishFails

Loop ==
    \/ GetLastToken
    \/ BufferTemplate
    \/ \E t \in Templates :
           \/ OnNewTemplate(t)
           \/ OnNewTemplateDiscardingLast(t)
           \/ SkipTemplate(t)
           \/ OnSetNewPrevHash(t)
           \/ OnTransactionData(t)
           \/ OnStaleTemplate(t)
    \/ OnTemplateNotFound
    \/ Publish

Next == Provider \/ SetChannelFactory \/ Loop \/ AskRestart \/ Restart \/ Quiet

\* tokio runs a task that can run (the pool grants the tokens it waits for), and
\* the provider answers requests and follows a future template by its
\* SetNewPrevHash.
Fairness ==
    /\ WF_receiverVars(Loop)
    /\ WF_receiverVars(TPAnswer)
    /\ WF_receiverVars(TPSetNewPrevHash)

Spec == Init /\ [][Next]_receiverVars
FairSpec == Spec /\ Fairness

-----------------------------------------------------------------------------
(* Properties *)

TypeOK ==
    /\ template \in Seq([future : BOOLEAN, tip : Nat])
    /\ tip \in Nat
    /\ tp \in {"connected", "asked", "future", "announced"}
    /\ inbox \in Seq([kind : Kinds, t : Templates])
    /\ txRequests \in Seq(Templates)
    /\ channel \in BOOLEAN
    /\ offered \subseteq Templates
    /\ prevHash \in Templates \cup {None}
    /\ work \in [t : Templates \cup {None}, on : Templates \cup {None}]
    /\ rx \in {"loop", "publishing"}
    /\ lastToken \in BOOLEAN
    /\ {pendingNew, pendingTx, pendingJob, newTemplateMessage} \subseteq
           Templates \cup {None}
    /\ {handled, newPhash, down} \subseteq BOOLEAN
    /\ session \in Nat
    /\ ignored \subseteq Templates

\* The flag SetNewPrevHash waits for is set and cleared by the waiting task
\* itself, so it must be up whenever the task is back in its loop: with or
\* without a channel, whether the job was published or refused.
NeverWaitsOnItself == rx = "loop" => handled

\* A job the miners get is hashed under the prev hash of the block its template
\* builds on: no buffered template outlives the SetNewPrevHash that outdates it
\* and is then published under the new prev hash.
WorkOnItsTip == TipOf(work.t) = TipOf(work.on)

\* What goes to the pool when the transactions arrive is what went to the
\* miners: while a request is pending the token is there, new_template_message
\* is the requested template, and the pending job is that template's.
PendingIsBacked ==
    /\ pendingTx # None => lastToken /\ newTemplateMessage = pendingTx
    /\ pendingJob # None => pendingJob = pendingTx

\* Every request for transactions ends, so that the next template can be
\* processed, unless its refusal as "template-id-not-found" was ignored.
RequestEndsUnlessIgnored ==
    \A t \in 1 .. MaxTemplate : (pendingTx = t) ~> (pendingTx # t \/ t \in ignored)

=============================================================================
