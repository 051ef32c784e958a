------------------------------- MODULE SharePath -------------------------------
(***************************************************************************)
(* The way of a share from a miner to the pool and of its answer back:     *)
(* Downstream::forward_submit_share, the bridge's handle_submit_shares,    *)
(* the translator upstream's handle_submit with pending_submits, with job  *)
(* declaration the DownstreamMiningNode and its one task per share that    *)
(* waits for the pool's job id, and the share accounter of ShareAccounter, *)
(* which this module extends and drives.                                   *)
(*                                                                         *)
(* A share is a ticket, its position in ticketJob, until handle_submit     *)
(* gives it a sequence number, its position in jobOf.  The channel factory *)
(* that checks shares is a library: each of its verdicts may come.  One    *)
(* session is modelled, up to the monitor's end of it; a share that is     *)
(* dropped with its oneshot sender is settled as refused, as               *)
(* spawn_submit_accounting does.                                           *)
(***************************************************************************)
EXTENDS ShareAccounter

CONSTANTS
    MaxFailures,  \* SUBMIT_FAIL_COUNTER that ends the bridge (10)
    IdCapacity    \* capacity of the CircularBuffer of job ids (1000)

ASSUME PathAssumption == {MaxFailures, IdCapacity} \subseteq Nat \ {0}

VARIABLES
    jd,         \* the session declares its own jobs
    ticketJob,  \* the job of every share the miners forwarded
    result,     \* what each ticket's oneshot channel was told
    bridge,     \* handle_downstream_messages
    bridgeQ,    \* rx_sv1_downstream
    failures,   \* SUBMIT_FAIL_COUNTER, a static: not reset by a session
    submit,     \* the task of handle_submit
    submitQ,    \* rx_sv2_submit_shares_ext
    ticketOf,   \* the ticket behind each sequence number
    pending,    \* pending_submits
    jdQ,        \* receiver of DownstreamMiningNode::start
    seeking,    \* tasks of match_send_to that wait in get_job_id
    known,      \* downstream_to_pool_job_id, oldest first
    customised, \* jobs whose SetCustomMiningJob the pool has answered
    jdReplies,  \* recv of the job-declaration upstream
    replies,    \* receiver of the translator upstream's main loop
    reported,   \* the job-declaration client reported one of its sides as down
    lost,       \* shares the job-declaration client gave up (history)
    batched,    \* the pool acknowledged several shares at once (history)
    over        \* the monitor ended the session

minerVars == <<ticketJob, result, bridge, bridgeQ, failures>>
submitVars == <<submit, submitQ, ticketOf, pending>>
jdVars == <<jdQ, seeking, known, customised, reported, lost>>
replyVars == <<jdReplies, replies>>
modeVars == <<jd, over, batched>>
pathVars == <<accounterVars, minerVars, submitVars, jdVars, replyVars, modeVars>>

Tickets == 1 .. Len(ticketJob)
JobOfTicket(t) == ticketJob[t]

PathInit ==
    /\ Init
    /\ jd \in BOOLEAN
    /\ ticketJob = <<>> /\ result = <<>>
    /\ bridge = "running" /\ bridgeQ = <<>>
    /\ failures \in 0 .. MaxFailures
    /\ submit = "running" /\ submitQ = <<>>
    /\ ticketOf = <<>> /\ pending = {}
    /\ jdQ = <<>> /\ seeking = {} /\ known = <<>> /\ customised = {}
    /\ jdReplies = <<>> /\ replies = <<>>
    /\ reported = FALSE /\ lost = {} /\ batched = FALSE /\ over = FALSE

\* A oneshot channel takes one value.
Told(T, verdict) ==
    [t \in DOMAIN result |-> IF t \in T /\ result[t] = "waiting" THEN verdict ELSE result[t]]

-----------------------------------------------------------------------------
(* The miner and the bridge *)

ForwardSubmitShare(job) ==
    /\ Len(ticketJob) < MaxShares
    /\ ticketJob' = Append(ticketJob, job)
    /\ \/ /\ bridge = "running"
          /\ bridgeQ' = Append(bridgeQ, Len(ticketJob) + 1)
          /\ result' = Append(result, "waiting")
       \/ /\ bridge = "ended"
          /\ result' = Append(result, "refused")
          /\ UNCHANGED bridgeQ
    /\ UNCHANGED <<bridge, failures>>

BridgeReceives(t) ==
    /\ bridge = "running"
    /\ bridgeQ # <<>> /\ t = Head(bridgeQ)
    /\ UNCHANGED ticketJob

\* The share is answered and the loop goes on.
BridgeSettles(t, verdict) ==
    /\ bridgeQ' = Tail(bridgeQ)
    /\ result' = Told({t}, verdict)
    /\ UNCHANGED bridge

\* An error of handle_submit_shares: TranslatorState::Down, and the shares that
\* wait in the channel are dropped with it.
BridgeFails ==
    /\ bridgeQ' = <<>>
    /\ result' = Told(Range(bridgeQ), "refused")
    /\ bridge' = "ended"

\* The job is not in the retained job cache.
BridgeUnknownJob(t) ==
    /\ BridgeReceives(t)
    /\ BridgeSettles(t, "refused")
    /\ UNCHANGED <<failures, submitVars>>

\* translate_submit: no valid job yet, or version bits without a mask.
BridgeUntranslatable(t) ==
    /\ BridgeReceives(t)
    /\ failures' = failures + 1
    /\ IF failures' >= MaxFailures THEN BridgeFails ELSE BridgeSettles(t, "refused")
    /\ UNCHANGED submitVars

\* OnNewShare::SendErrorDownstream, or ShareMeetDownstreamTarget: settled here.
BridgeAnswers(t, verdict) ==
    /\ BridgeReceives(t)
    /\ failures' = 0
    /\ BridgeSettles(t, verdict)
    /\ UNCHANGED submitVars

\* allow_submit_share finds the minute's 70 slots taken, which may be at any time.
BridgeRateLimits(t) == BridgeAnswers(t, "refused")

\* The factory fails with another error.
BridgeCheckFails(t) ==
    /\ BridgeReceives(t)
    /\ failures' = 0
    /\ BridgeFails
    /\ UNCHANGED submitVars

\* OnNewShare::SendSubmitShareUpstream with a slot of allow_submit_share.
BridgeSubmits(t) ==
    /\ BridgeReceives(t)
    /\ failures' = 0
    /\ \/ /\ submit = "running"
          /\ submitQ' = Append(submitQ, t)
          /\ bridgeQ' = Tail(bridgeQ)
          /\ UNCHANGED <<result, bridge>>
       \/ submit = "ended" /\ BridgeFails /\ UNCHANGED submitQ
    /\ UNCHANGED <<submit, ticketOf, pending>>

Bridge ==
    \/ \E t \in Tickets :
        \/ BridgeUnknownJob(t) \/ BridgeUntranslatable(t) \/ BridgeCheckFails(t)
        \/ BridgeSubmits(t) \/ BridgeRateLimits(t)
        \/ \E verdict \in {"refused", "local"} : BridgeAnswers(t, verdict)

-----------------------------------------------------------------------------
(* The translator upstream: handle_submit *)

\* register_pending_submit, then the send.  With job declaration the share goes to
\* the DownstreamMiningNode, else to the accounter.
HandleSubmit ==
    /\ submit = "running" /\ submitQ # <<>>
    /\ LET t == Head(submitQ)
           n == Len(jobOf) + 1
       IN  /\ jobOf' = Append(jobOf, JobOfTicket(t))
           /\ ticketOf' = Append(ticketOf, t)
           /\ burst' = IF Unanswered(JobOfTicket(t)) = {} THEN burst
                       ELSE burst \cup {JobOfTicket(t)}
           /\ \/ /\ jd \/ up = "relaying"
                 /\ pending' = pending \cup {n}
                 /\ submitQ' = Tail(submitQ)
                 /\ IF jd THEN jdQ' = Append(jdQ, n) /\ UNCHANGED receiver
                          ELSE receiver' = Append(receiver, n) /\ UNCHANGED jdQ
                 /\ UNCHANGED <<submit, result>>
              \/ /\ ~jd /\ up = "ended"
                 /\ submit' = "ended"
                 /\ submitQ' = <<>>
                 /\ result' = Told(Range(submitQ), "refused")
                 /\ UNCHANGED <<pending, receiver, jdQ>>
    /\ UNCHANGED <<holding, up, poolVars, answers, sentUp, downVars>>
    /\ UNCHANGED <<ticketJob, bridge, bridgeQ, failures>>
    /\ UNCHANGED <<seeking, known, customised, reported, lost>>

\* resolve_submit_success: exactly the last one, or the count greatest up to it.
Acknowledged(last, count) ==
    LET upTo == {n \in pending : n <= last}
    IN  IF count = 1 THEN pending \cap {last}
        ELSE {n \in upTo : Cardinality({m \in upTo : m > n}) < count}

\* The main loop: handle_submit_shares_success and handle_submit_shares_error.
HandleReply ==
    /\ replies # <<>>
    /\ LET reply == Head(replies)
           resolved == IF reply.kind = "ok" THEN Acknowledged(reply.share, reply.count)
                       ELSE pending \cap {reply.share}
       IN  /\ pending' = pending \ resolved
           /\ result' = Told({ticketOf[n] : n \in resolved},
                             IF reply.kind = "ok" THEN "ok" ELSE "refused")
    /\ replies' = Tail(replies)
    /\ UNCHANGED <<ticketJob, bridge, bridgeQ, failures, submit, submitQ, ticketOf, jdReplies>>

-----------------------------------------------------------------------------
(* The job-declaration client *)

JdReceives(n) ==
    /\ jdQ # <<>> /\ n = Head(jdQ)
    /\ jdQ' = Tail(jdQ)
    /\ UNCHANGED <<known, customised>>

\* OnNewShare::SendErrorDownstream: answered from here.
JdRefuses(n) ==
    /\ JdReceives(n)
    /\ replies' = Append(replies, [kind |-> "error", share |-> n])
    /\ UNCHANGED <<seeking, reported, lost, jdReplies>>

\* ShareMeetDownstreamTarget or ShareDoNotMatchAnyJob: nobody is told.  Any other
\* error of the factory is reported, and the loop goes on.
JdDrops(n) ==
    /\ JdReceives(n)
    /\ lost' = lost \cup {n}
    /\ reported' \in {reported, TRUE}
    /\ UNCHANGED <<seeking, replyVars>>

\* SendSubmitShareUpstream, or ShareMeetBitcoinTarget, whose block also goes to the
\* template provider and the pool: a task of its own waits for the job id.
JdRelays(n) ==
    /\ JdReceives(n)
    /\ seeking' = seeking \cup {n}
    /\ UNCHANGED <<reported, lost, replyVars>>

\* CircularBuffer::insert
InsertId(buffer, job) ==
    LET kept == SelectSeq(buffer, LAMBDA k : k # job)
    IN  Append(IF Len(kept) = IdCapacity THEN Tail(kept) ELSE kept, job)

\* The pool's SetCustomMiningJobSuccess: each request is answered once.
RegisterJobId(job) ==
    /\ jd /\ job \notin customised
    /\ customised' = customised \cup {job}
    /\ known' = InsertId(known, job)
    /\ UNCHANGED <<jdQ, seeking, reported, lost, replyVars>>

\* get_job_id finds the id: the share goes to the accounter, if it is still there.
RelayShare(n) ==
    /\ n \in seeking
    /\ jobOf[n] \in Range(known)
    /\ seeking' = seeking \ {n}
    /\ IF up = "relaying"
         THEN receiver' = Append(receiver, n) /\ UNCHANGED <<reported, lost>>
         ELSE lost' = lost \cup {n} /\ reported' = TRUE /\ UNCHANGED receiver
    /\ UNCHANGED <<jdQ, known, customised, replyVars>>
    /\ UNCHANGED <<jobOf, holding, up, burst, poolVars, answers, sentUp, downVars>>

\* Mutant of JobIdTimeout: get_job_id looks again and again.
JobIdTimeoutNever(n) ==
    /\ n \in seeking
    /\ jobOf[n] \notin Range(known)
    /\ UNCHANGED <<jdVars, replyVars>>

\* "Timeout getting pool job id; discard share"
JobIdTimeout(n) ==
    /\ n \in seeking
    /\ jobOf[n] \notin Range(known)
    /\ seeking' = seeking \ {n}
    /\ lost' = lost \cup {n}
    /\ UNCHANGED <<jdQ, known, customised, reported, replyVars>>

\* Mutant of JdRelaysReply: a refusal is handed on like a success.
JdRelaysRefusal ==
    /\ jdReplies # <<>>
    /\ jdReplies' = Tail(jdReplies)
    /\ replies' = Append(replies, [kind |-> "ok", share |-> Head(jdReplies).share, count |-> 1])
    /\ UNCHANGED jdVars

\* parse_incoming: successes are relayed, handle_submit_shares_error says
\* SendTo::None.
JdRelaysReply ==
    /\ jdReplies # <<>>
    /\ jdReplies' = Tail(jdReplies)
    /\ \/ /\ Head(jdReplies).kind = "ok"
          /\ replies' = Append(replies, Head(jdReplies))
          /\ UNCHANGED lost
       \/ /\ Head(jdReplies).kind = "error"
          /\ lost' = lost \cup {Head(jdReplies).share}
          /\ UNCHANGED replies
    /\ UNCHANGED <<jdQ, seeking, known, customised, reported>>

JdClientTasks ==
    \/ \E n \in Shares :
        JdRefuses(n) \/ JdDrops(n) \/ JdRelays(n) \/ JobIdTimeout(n)
    \/ JdRelaysReply

-----------------------------------------------------------------------------
(* The accounter's messages to the translator, and the pool *)

Reply(reply) ==
    IF jd THEN jdReplies' = Append(jdReplies, reply) /\ UNCHANGED replies
          ELSE replies' = Append(replies, reply) /\ UNCHANGED jdReplies

PathRelayDown ==
    \/ OnShareOk /\ UNCHANGED replyVars
    \/ SendSuccess /\ Reply([kind |-> "ok", share |-> acking, count |-> 1])
    \/ OnError /\ Reply([kind |-> "error", share |-> Head(answers).share])
    \/ OnMining /\ Reply([kind |-> "ok", share |-> Head(answers).share, count |-> Head(answers).count])
    \/ OnUnexpected /\ UNCHANGED replyVars
    \/ SendDownFails /\ UNCHANGED replyVars

\* A SubmitSharesSuccess of the pool for every share up to n that it holds; alone,
\* it counts no new share.
PoolBatch(n) ==
    /\ n \in atPool
    /\ LET all == {m \in atPool : m <= n}
           batch == IF Cardinality(all) > 1 THEN all ELSE {}
       IN  /\ batch # {} \/ extra < MaxExtra
           /\ extra' = IF batch = {} THEN extra + 1 ELSE extra
           /\ atPool' = atPool \ batch
           /\ accepted' = accepted \cup batch
           /\ batched' = (batched \/ batch # {})
           /\ answers' = Append(answers, [kind |-> "mining", share |-> n, count |-> Cardinality(batch)])
    /\ UNCHANGED <<upVars, sentUp, downVars>>

\* The monitor sees a report: every task is aborted and every oneshot sender dropped.
EndSession ==
    /\ bridge = "ended" \/ down # "relaying" \/ reported
    /\ over' = TRUE
    /\ result' = Told(DOMAIN result, "refused")
    /\ UNCHANGED <<ticketJob, bridge, bridgeQ, failures>>

-----------------------------------------------------------------------------
(* The specification: each line with what it leaves alone *)

MinerStep ==
    /\ \E job \in Jobs : ForwardSubmitShare(job)
    /\ UNCHANGED <<accounterVars, submitVars, jdVars, replyVars, modeVars>>
BridgeStep == Bridge /\ UNCHANGED <<accounterVars, jdVars, replyVars, modeVars>>
SubmitStep == HandleSubmit /\ UNCHANGED <<replyVars, modeVars>>
ReplyStep == HandleReply /\ UNCHANGED <<accounterVars, jdVars, modeVars>>
JdStep == JdClientTasks /\ UNCHANGED <<accounterVars, minerVars, submitVars, modeVars>>
JobIdStep ==
    /\ \E job \in Jobs : RegisterJobId(job)
    /\ UNCHANGED <<accounterVars, minerVars, submitVars, modeVars>>
RelayShareStep ==
    /\ \E n \in Shares : RelayShare(n)
    /\ UNCHANGED <<minerVars, submitVars, modeVars>>
RelayUpStep == RelayUp /\ UNCHANGED <<minerVars, submitVars, jdVars, replyVars, modeVars>>
RelayDownStep == PathRelayDown /\ UNCHANGED <<minerVars, submitVars, jdVars, modeVars>>
PoolStep ==
    /\ \/ (\E n \in atPool : PoolAnswers(n)) /\ UNCHANGED batched
       \/ PoolSends("unexpected") /\ UNCHANGED batched
       \/ \E n \in atPool : PoolBatch(n)
    /\ UNCHANGED <<minerVars, submitVars, jdVars, replyVars, jd, over>>
MonitorStep ==
    EndSession /\ UNCHANGED <<accounterVars, submitVars, jdVars, replyVars, jd, batched>>

PathNext ==
    /\ ~over
    /\ \/ MinerStep \/ BridgeStep \/ SubmitStep \/ ReplyStep \/ JdStep \/ JobIdStep
       \/ RelayShareStep \/ RelayUpStep \/ RelayDownStep \/ PoolStep \/ MonitorStep

\* tokio runs every task whose channel holds a message, and timeout ends a wait for
\* a job id.  Nothing is assumed of the miners and of the pool.
PathFairness ==
    /\ WF_pathVars(~over /\ BridgeStep)
    /\ WF_pathVars(~over /\ SubmitStep)
    /\ WF_pathVars(~over /\ ReplyStep)
    /\ WF_pathVars(~over /\ JdStep)
    /\ WF_pathVars(~over /\ RelayShareStep)
    /\ WF_pathVars(~over /\ RelayUpStep)
    /\ WF_pathVars(~over /\ RelayDownStep)
    /\ WF_pathVars(~over /\ MonitorStep)

PathSpec == PathInit /\ [][PathNext]_pathVars /\ PathFairness

-----------------------------------------------------------------------------
(* Properties *)

\* A share is settled as accepted only if the pool accepted that very share, and as
\* refused by an answer only if the pool did not accept it, through every hand it
\* passes: except for jobs with two shares on their way (the accounter's key is the
\* job), and batches where job declaration reorders or drops shares before the pool.
SettledAsAnswered ==
    \A n \in Shares :
        /\ result[ticketOf[n]] = "ok" =>
               n \in accepted \/ jobOf[n] \in burst \/ (jd /\ batched)
        /\ result[ticketOf[n]] = "refused" => n \notin accepted \/ over

\* Every share a miner forwards is settled, unless the pool keeps it, or it was given
\* up or mixed up as above.
ShareIsSettled ==
    \A t \in 1 .. MaxShares :
        (t \in Tickets /\ result[t] = "waiting")
            ~> \/ t \in Tickets /\ result[t] # "waiting"
               \/ up = "ended"
               \/ \E n \in Shares : /\ ticketOf[n] = t
                                    /\ n \in lost \cup atPool \/ jobOf[n] \in burst \/ (jd /\ batched)

=============================================================================
