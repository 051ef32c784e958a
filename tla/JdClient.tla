-------------------------------- MODULE JdClient --------------------------------
(***************************************************************************)
(* The job-declaration client (src/src/jd_client): the template task of    *)
(* TemplateReceiver and the declaration tasks of JobDeclarator, which meet *)
(* in three calls of the template task:                                    *)
(*   - the transactions of a published template arrive, and the job is     *)
(*     handed to a new on_new_template task;                               *)
(*   - a SetNewPrevHash is handed to a new on_set_new_prev_hash task;      *)
(*   - the branch that discards the last template frees IS_CUSTOM_JOB_SET. *)
(* Every other step belongs to one of the two.                             *)
(***************************************************************************)
EXTENDS Integers, Sequences, FiniteSets, Functions

CONSTANTS MaxTemplate, MaxTip, MaxSessions, StaleCodes, MaxDeclared, MaxPoolJobs

\* What TemplateReceiver and JobDeclarator assume of them.
ASSUME ClientAssumption ==
    /\ MaxTemplate \in Nat /\ MaxTip \in Nat /\ MaxSessions \in Nat \ {0}
    /\ StaleCodes \subseteq {"TxDataStale", "TxDataNotFound"}
    /\ MaxDeclared \in Nat \ {0} /\ MaxPoolJobs \in Nat \ {0}

VARIABLES
    \* shared
    template, down,
    \* TemplateReceiver
    tip, tp, inbox, txRequests, channel, offered, prevHash, work, rx, lastToken,
    pendingNew, pendingTx, pendingJob, newTemplateMessage, handled, newPhash, session,
    ignored,
    \* JobDeclarator
    handedOver, announced, customJobSet, waiting, passed, orphans, lost, declared,
    poolDeclares, futureJobs, lastPrevHash, counter, spawned, looping, main, calls,
    nextRequest, requests, poolJobs

TR == INSTANCE TemplateReceiver
JD == INSTANCE JobDeclarator

ownReceiver == <<tip, tp, inbox, txRequests, channel, offered, prevHash, work, rx,
                 lastToken, pendingNew, pendingTx, pendingJob, newTemplateMessage,
                 handled, newPhash, session, ignored>>
ownDeclarator == <<handedOver, announced, customJobSet, waiting, passed, orphans, lost,
                   declared, poolDeclares, futureJobs, lastPrevHash, counter, spawned,
                   looping, main, calls, nextRequest, requests, poolJobs>>
vars == <<template, down, ownReceiver, ownDeclarator>>

Templates == 1 .. Len(template)

Init == TR!Init /\ JD!Init

-----------------------------------------------------------------------------
\* RequestTransactionDataSuccess: only a job that went to the miners is declared.
OnTransactionData(t) ==
    /\ TR!OnTransactionData(t)
    /\ IF pendingTx = t /\ pendingJob = t
       THEN JD!OnNewTemplate(t)
       ELSE UNCHANGED ownDeclarator

\* SetNewPrevHash
OnSetNewPrevHash(t) ==
    /\ TR!OnSetNewPrevHash(t)
    /\ JD!OnSetNewPrevHash(t)

\* NewTemplate, discard_last_and_use_this: "since the last declared job received
\* is invalid if we are still in the process of declaring it we want to free it".
OnNewTemplateDiscardingLast(t) ==
    /\ TR!OnNewTemplateDiscardingLast(t)
    /\ JD!FreeGate

\* Mutant of Restart: the declarator survives.
RestartReceiverOnly ==
    /\ TR!Restart
    /\ UNCHANGED ownDeclarator

\* Mutant of Restart: the template task survives.
RestartDeclaratorOnly ==
    /\ JD!Restart
    /\ UNCHANGED ownReceiver

\* jd_client::start
Restart ==
    /\ TR!Restart
    /\ JD!Restart

ReceiverStep ==
    /\ \/ TR!Provider \/ TR!SetChannelFactory
       \/ TR!GetLastToken \/ TR!BufferTemplate \/ TR!Publish \/ TR!OnTemplateNotFound
       \/ \E t \in Templates :
              TR!OnNewTemplate(t) \/ TR!SkipTemplate(t) \/ TR!OnStaleTemplate(t)
    /\ UNCHANGED ownDeclarator

HandOver ==
    \E t \in Templates : \/ OnTransactionData(t) \/ OnSetNewPrevHash(t)
                         \/ OnNewTemplateDiscardingLast(t)

Declarations == \E t \in Templates : JD!Declaration(t)
PrevHashTasks == \E t \in Templates : JD!PrevHashTask(t)

DeclaratorStep ==
    /\ Declarations \/ PrevHashTasks \/ JD!PoolAnswer \/ JD!SendCustomJob
    /\ UNCHANGED ownReceiver

\* Everything has come to rest: a SetNewPrevHash task may still spin, and answers
\* that nobody reads may be on the way.
Rest ==
    /\ TR!Quiet
    /\ waiting = {} /\ passed = {} /\ spawned = {} /\ calls = {} /\ requests = << >>
    /\ poolDeclares = {} \/ main # "receive"
    /\ UNCHANGED vars

Next == ReceiverStep \/ HandOver \/ DeclaratorStep \/ Restart \/ Rest

\* The tasks run, and so do the two minutes a declaration may wait.
Fairness ==
    \A t \in 1 .. MaxTemplate :
        WF_vars(t \in Templates /\ JD!Declaration(t) /\ UNCHANGED ownReceiver)

Spec == Init /\ [][Next]_vars
FairSpec == Spec /\ Fairness

-----------------------------------------------------------------------------
(* Properties *)

\* The client's steps are steps of the template task and of the declarator: what
\* holds of each component alone, under the environment its module allows, holds
\* of the client.
ImplementsReceiver == TR!Spec
ImplementsDeclarator == JD!Spec

\* A declaration never waits for IS_CUSTOM_JOB_SET for ever: when nobody is left
\* to put the flag up, the two-minute timeout turns the wait into a restart.
WaitingEnds == \A t \in 1 .. MaxTemplate : (t \in waiting) ~> (t \notin waiting)

=============================================================================
