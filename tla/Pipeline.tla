------------------------------- MODULE Pipeline -------------------------------
(***************************************************************************)
(* The way of a job to the miners: it is published by the job-declaration  *)
(* downstream (or by the pool itself, in a pool-only session), received by *)
(* the main loop of the translator upstream, which holds future jobs back, *)
(* handed to the bridge through one FIFO, and turned into a mining.notify. *)
(* Each job carries the identifier of its merge-mining binding, which the  *)
(* MergeMining context keeps from being retired while the notify is still  *)
(* to come.  Sessions follow each other and leave the context behind.      *)
(*                                                                         *)
(* A job is its position in published; a block is the number of the        *)
(* SetNewPrevHash that announced it.  The channel factory is a library:    *)
(* where its answer is checked, it may fail.  One template generation is   *)
(* retained and bindable throughout; its eviction is MergeMining's.        *)
(***************************************************************************)
EXTENDS MergeMining, TLC

CONSTANTS
    MaxPublished,   \* jobs published in one session
    MaxBlocks,      \* blocks announced in one session
    MaxSessions,    \* sessions of the proxy
    WorkCapacity    \* capacity of the bridge's work channel (32)

ASSUME PipelineAssumption ==
    /\ {MaxPublished, MaxBlocks, MaxSessions, WorkCapacity} \subseteq Nat \ {0}
    /\ 1 .. MaxPublished \subseteq JobIds

VARIABLES
    mode,        \* "jd": jobs are declared here; "pool": the pool sends them
    session,     \* sessions begun
    published,   \* jobs of the session: future, block and own binding
    tip,         \* blocks announced in the session
    inbox,       \* receiver of the upstream's main loop
    loop,        \* the main loop
    target,      \* the upstream target is not zero
    futureJ,     \* the future job the main loop holds back, 0 if none
    claimed,     \* job -> the binding claimed for it
    outbox,      \* what the main loop has still to send of one message
    workQ,       \* rx_bridge_work
    bridge,      \* handle_upstream_work
    futureJobs,  \* future_jobs of the bridge
    lastPHash,   \* last_p_hash
    lastNotify,  \* last_notify
    shown,       \* jobs notified in the session (history)
    due,         \* block whose SetNewPrevHash named the newest future job (history)
    leftover,    \* bindings an earlier session left pending (history)
    stale        \* an earlier session left announcements behind (history)

publisherVars == <<mode, session, published, tip, due, leftover, stale>>
loopVars == <<loop, target, futureJ, claimed, outbox>>
bridgeVars == <<bridge, futureJobs, lastPHash, lastNotify, shown>>
pipeVars == <<contextVars, publisherVars, inbox, loopVars, workQ, bridgeVars>>

NoNotify == [job |-> 0, block |-> 0, binding |-> NoId]

\* What a new translator starts from: Upstream::new, Bridge::new, empty channels,
\* and the answer to OpenExtendedMiningChannel on its way.
FreshTranslator ==
    /\ inbox = <<[type |-> "open"]>>
    /\ loop = "running" /\ target = FALSE /\ futureJ = 0
    /\ claimed = <<>> /\ outbox = <<>> /\ workQ = <<>>
    /\ bridge = "starting" /\ futureJobs = <<>> /\ lastPHash = 0
    /\ lastNotify = NoNotify /\ shown = {}
    /\ published = <<>> /\ tip = 0 /\ due = 0

PipeInit ==
    /\ desired \in RskPairs
    /\ templates = (1 :> [tid |-> CHOOSE t \in TemplateIds : TRUE, pair |-> desired,
                          chain |-> None, txCount |-> None])
    /\ currentTemplates = (templates[1].tid :> 1)
    /\ activeChain = None /\ jobs = << >> /\ announcements = << >>
    /\ active = NoId /\ pending = {}
    /\ nextGen = 2 /\ nextBinding = 1 /\ applying = Idle
    /\ mode \in {"jd", "pool"} /\ session = 1 /\ leftover = {} /\ stale = FALSE
    /\ FreshTranslator

-----------------------------------------------------------------------------
(* The publisher: DownstreamMiningNode, or the pool *)

\* with: the job whose binding is given up when the message cannot be sent on.
Job(id) == [type |-> "job", id |-> id, with |-> id]
PrevHash(id, block) == [type |-> "prevhash", id |-> id, block |-> block, with |-> 0]

Publish(future, binding) ==
    /\ published' = Append(published, [future |-> future, binding |-> binding,
                                       block |-> IF future THEN tip + 1 ELSE tip])
    /\ inbox' = Append(inbox, Job(Len(published) + 1))
    /\ UNCHANGED <<mode, session, tip, due, leftover, stale>>

\* on_new_template, with a channel: the job is bound or announced without a
\* binding, then sent.  A non-future template before any prevhash is an error
\* of the factory.
OnNewTemplate(future) ==
    LET id == Len(published) + 1
    IN /\ mode = "jd"
       /\ loop = "running"
       /\ Len(published) < MaxPublished
       /\ future \/ tip # 0
       /\ \/ /\ \E coinbase \in Coinbases : BindJobGeneration(id, 1, coinbase)
             /\ Publish(future, nextBinding)
          \/ AnnounceUnboundJob(id) /\ Publish(future, NoId)
       /\ UNCHANGED <<loopVars, workQ, bridgeVars>>

\* A job of the pool in a session without job declaration.
PoolSendsJob(future) ==
    /\ mode = "pool"
    /\ loop = "running"
    /\ Len(published) < MaxPublished
    /\ Publish(future, NoId)
    /\ UNCHANGED <<contextVars, loopVars, workQ, bridgeVars>>

FutureJobs == {id \in DOMAIN published : published[id].future /\ published[id].block = tip + 1}

\* on_set_new_prev_hash, or the pool's SetNewPrevHash: it names a future job.
OnSetNewPrevHash(id) ==
    /\ loop = "running"
    /\ tip < MaxBlocks
    /\ id \in FutureJobs
    /\ tip' = tip + 1
    /\ due' = IF id = Max(FutureJobs) THEN tip + 1 ELSE due
    /\ inbox' = Append(inbox, PrevHash(id, tip + 1))
    /\ UNCHANGED <<contextVars, mode, session, published, leftover, stale,
                   loopVars, workQ, bridgeVars>>

Publisher ==
    \/ \E future \in BOOLEAN : OnNewTemplate(future) \/ PoolSendsJob(future)
    \/ \E id \in DOMAIN published : OnSetNewPrevHash(id)

-----------------------------------------------------------------------------
(* parse_incoming: the main loop of the translator upstream *)

Receives(type) ==
    /\ loop = "running"
    /\ outbox = <<>>
    /\ inbox # <<>>
    /\ Head(inbox).type = type
    /\ inbox' = Tail(inbox)
    /\ UNCHANGED <<publisherVars, workQ>>

\* OpenExtendedMiningChannelSuccess: the extranonce starts the bridge once the
\* target is not zero; a size it cannot split ends the loop.
HandleOpenChannel ==
    /\ Receives("open")
    /\ \/ /\ target' \in BOOLEAN
          /\ bridge' = IF target' THEN "running" ELSE bridge
          /\ UNCHANGED loop
       \/ loop' = "ended" /\ UNCHANGED <<target, bridge>>
    /\ UNCHANGED <<contextVars, futureJ, claimed, outbox,
                   futureJobs, lastPHash, lastNotify, shown>>

Opened == "open" \notin {m.type : m \in Range(inbox)}

\* SetTarget, which the startup task waits for after a zero target.  Nothing else
\* depends on its place among the jobs.
HandleSetTarget ==
    /\ loop = "running" /\ Opened
    /\ ~target
    /\ target' = TRUE
    /\ bridge' = "running"
    /\ UNCHANGED <<contextVars, publisherVars, inbox, loop, futureJ, claimed, outbox,
                   workQ, futureJobs, lastPHash, lastNotify, shown>>

\* CloseChannel, OpenMiningChannelError and the other messages that are todo!():
\* the loop ends wherever they stand among the jobs.
HandleClose ==
    /\ loop = "running" /\ Opened
    /\ outbox = <<>>
    /\ loop' = "ended"
    /\ UNCHANGED <<contextVars, publisherVars, inbox, target, futureJ, claimed, outbox,
                   workQ, bridgeVars>>

Binding(id) == IF id \in DOMAIN claimed THEN claimed[id] ELSE NoId

\* Mutant of HandleFutureJob: the replaced job's binding stays pending.
HandleFutureJobKeepingPending(id) ==
    /\ published[id].future
    /\ ClaimJobBinding(id)
    /\ futureJ' = id
    /\ UNCHANGED outbox

\* NewExtendedMiningJob with is_future(): it replaces the one held back.
HandleFutureJob(id) ==
    /\ published[id].future
    /\ futureJ' = id
    /\ announcements' =
         IF AnnouncedAt(id) = {} THEN announcements
         ELSE SubSeq(announcements, Min(AnnouncedAt(id)) + 1, Len(announcements))
    /\ pending' = (pending \cup ({ClaimedBinding(id)} \cap DOMAIN jobs)) \ {Binding(futureJ)}
    /\ UNCHANGED <<desired, templates, currentTemplates, activeChain, jobs, active,
                   nextGen, nextBinding, applying, outbox>>

\* Any other NewExtendedMiningJob goes on to the bridge.
HandleCurrentJob(id) ==
    /\ ~published[id].future
    /\ ClaimJobBinding(id)
    /\ outbox' = <<Job(id)>>
    /\ UNCHANGED futureJ

HandleJob ==
    /\ Receives("job")
    /\ LET id == Head(inbox).id
       IN /\ HandleFutureJob(id) \/ HandleCurrentJob(id)
          /\ claimed' = Put(claimed, id, ClaimedBinding(id))
    /\ UNCHANGED <<loop, target, bridgeVars>>

\* Mutant of WorkOfPrevHash: the prevhash goes ahead of the job it activates.
WorkOfPrevHashFirst(m) ==
    IF futureJ = 0 THEN <<m>> ELSE <<[m EXCEPT !.with = futureJ], Job(futureJ)>>

\* The future job held back, whatever job the message names, then the message.
WorkOfPrevHash(m) ==
    IF futureJ = 0 THEN <<m>> ELSE <<Job(futureJ), [m EXCEPT !.with = futureJ]>>

HandlePrevHash ==
    /\ Receives("prevhash")
    /\ outbox' = WorkOfPrevHash(Head(inbox))
    /\ futureJ' = 0
    /\ UNCHANGED <<contextVars, loop, target, claimed, bridgeVars>>

\* tx_bridge_work.send: it waits for room.
SendWork ==
    /\ loop = "running"
    /\ outbox # <<>>
    /\ bridge # "ended"
    /\ Len(workQ) < WorkCapacity
    /\ workQ' = Append(workQ, Head(outbox))
    /\ outbox' = Tail(outbox)
    /\ UNCHANGED <<contextVars, publisherVars, inbox, loop, target, futureJ, claimed,
                   bridgeVars>>

\* The bridge dropped its receiver: the job's binding is given up.
SendWorkFails ==
    /\ loop = "running"
    /\ outbox # <<>>
    /\ bridge = "ended"
    /\ ClearPendingJobBinding(Binding(Head(outbox).with))
    /\ loop' = "ended"
    /\ UNCHANGED <<publisherVars, inbox, target, futureJ, claimed, outbox, workQ,
                   bridgeVars>>

Loop ==
    \/ HandleOpenChannel \/ HandleJob \/ HandlePrevHash \/ SendWork \/ SendWorkFails

-----------------------------------------------------------------------------
(* handle_upstream_work: the bridge *)

Work(type) ==
    /\ bridge = "running"
    /\ workQ # <<>>
    /\ Head(workQ).type = type
    /\ workQ' = Tail(workQ)
    /\ UNCHANGED <<publisherVars, inbox, loopVars>>

\* create_notify, set_active_job_binding and the broadcast.
Notify(id, block) ==
    /\ SetActiveJobBinding(Binding(id))
    /\ lastNotify' = [job |-> id, block |-> block, binding |-> Binding(id)]
    /\ shown' = shown \cup {id}

NoNewNotify == UNCHANGED <<lastNotify, shown>>

\* Mutant of BridgeKeepsFuture: is_future() is not asked once a prevhash is there.
BridgeShowsFuture(id) ==
    /\ published[id].future
    /\ IF lastPHash = 0
         THEN futureJobs' = Append(futureJobs, id) /\ NoNewNotify /\ UNCHANGED contextVars
         ELSE Notify(id, lastPHash) /\ UNCHANGED futureJobs
    /\ UNCHANGED bridge

\* A future job waits for the SetNewPrevHash that names it.
BridgeKeepsFuture(id) ==
    /\ published[id].future
    /\ futureJobs' = Append(futureJobs, id)
    /\ NoNewNotify
    /\ UNCHANGED <<contextVars, bridge>>

BridgeNotifies(id) ==
    /\ ~published[id].future
    /\ lastPHash # 0
    /\ Notify(id, lastPHash)
    /\ UNCHANGED <<bridge, futureJobs>>

\* JobIsNotFutureButPrevHashNotPresent, or the factory refuses the job.
BridgeRefusesJob ==
    /\ bridge' = "ended"
    /\ NoNewNotify
    /\ UNCHANGED <<contextVars, futureJobs>>

\* handle_new_extended_mining_job_
BridgeJob ==
    /\ Work("job")
    /\ LET id == Head(workQ).id
       IN BridgeKeepsFuture(id) \/ BridgeNotifies(id) \/ BridgeRefusesJob
    /\ UNCHANGED lastPHash

Bindings(ids) == {Binding(id) : id \in ids}

\* No future job has the id: each is given up, and the miners wait for a job.
PrevHashMissesJob(m) ==
    /\ m.id \notin Range(futureJobs)
    /\ lastPHash' = m.block
    /\ futureJobs' = <<>>
    /\ pending' = pending \ Bindings(Range(futureJobs))
    /\ NoNewNotify
    /\ UNCHANGED <<desired, templates, currentTemplates, activeChain, jobs, active,
                   announcements, nextGen, nextBinding, applying, bridge>>

\* The named job is notified; the others are given up.
PrevHashActivatesJob(m) ==
    /\ m.id \in Range(futureJobs)
    /\ lastPHash' = m.block
    /\ futureJobs' = <<>>
    /\ lastNotify' = [job |-> m.id, block |-> m.block, binding |-> Binding(m.id)]
    /\ shown' = shown \cup {m.id}
    /\ active' = IF Binding(m.id) \in DOMAIN jobs THEN Binding(m.id) ELSE NoId
    /\ pending' = pending \ Bindings(Range(futureJobs))
    /\ UNCHANGED <<desired, templates, currentTemplates, activeChain, jobs,
                   announcements, nextGen, nextBinding, applying, bridge>>

\* on_new_prev_hash of the factory fails: last_p_hash is set all the same.
PrevHashFails(m) ==
    /\ lastPHash' = m.block
    /\ bridge' = "ended"
    /\ NoNewNotify
    /\ UNCHANGED <<contextVars, futureJobs>>

\* handle_new_prev_hash_
BridgePrevHash ==
    /\ Work("prevhash")
    /\ LET m == Head(workQ)
       IN PrevHashMissesJob(m) \/ PrevHashActivatesJob(m) \/ PrevHashFails(m)

BridgeWork == BridgeJob \/ BridgePrevHash

-----------------------------------------------------------------------------
(* Sessions *)

\* Mutant of ContextOfSession: begin_template_session keeps what was announced.
ContextOfSessionKeeping(m) ==
    UNCHANGED contextVars

\* Only a session with a TemplateRx begins with begin_template_session.
ContextOfSession(m) ==
    IF m = "jd" THEN BeginTemplateSession ELSE UNCHANGED contextVars

\* initialize_proxy again: every task of the session before is aborted.
Restart(m) ==
    /\ session < MaxSessions
    /\ session' = session + 1
    /\ mode' = m
    /\ ContextOfSession(m)
    /\ leftover' = pending'
    /\ stale' = (m = "pool" /\ announcements # <<>>)
    /\ inbox' = <<[type |-> "open"]>>
    /\ loop' = "running" /\ target' = FALSE /\ futureJ' = 0
    /\ claimed' = <<>> /\ outbox' = <<>> /\ workQ' = <<>>
    /\ bridge' = "starting" /\ futureJobs' = <<>> /\ lastPHash' = 0
    /\ lastNotify' = NoNotify /\ shown' = {}
    /\ published' = <<>> /\ tip' = 0 /\ due' = 0

PipeNext ==
    \/ Publisher \/ Loop \/ HandleSetTarget \/ HandleClose \/ BridgeWork
    \/ \E m \in {"jd", "pool"} : Restart(m)

\* The two tasks are scheduled by tokio; nothing is assumed of the publisher.
Fairness == WF_pipeVars(Loop) /\ WF_pipeVars(BridgeWork)

PipeSpec == PipeInit /\ [][PipeNext]_pipeVars /\ Fairness

-----------------------------------------------------------------------------
(* Properties *)

Queued == {m \in Range(outbox) \cup Range(workQ) : m.type = "job"}
InFlight == {futureJ} \cup {m.id : m \in Queued} \cup Range(futureJobs)

\* While a session's tasks live, the pending bindings are those of the jobs that
\* are claimed and not yet notified (none leaks, so eviction is not blocked for
\* ever; none is missing, so none is retired under a notify on its way), besides
\* the ones an earlier session left behind.
PendingIsQueued ==
    (loop = "running" /\ bridge # "ended") =>
        pending = (Bindings(InFlight) \cap DOMAIN jobs) \cup leftover

\* A job travels with the binding that was announced for it or with none, and the
\* context's active binding is the one of the last notify, although announcements
\* are claimed by job id, dropped at MAX_JOB_ANNOUNCEMENTS and survive sessions
\* without a template receiver (in such a session the pool's ids may meet them).
BindingIsItsJobUnlessStale ==
    ~stale =>
        /\ \A id \in DOMAIN claimed : claimed[id] \in {NoId, published[id].binding}
        /\ lastNotify.job # 0 => active \in {NoId, published[lastNotify.job].binding}

Feed == INSTANCE JobFeed WITH
    offers <- [id \in DOMAIN published |-> published[id].block],
    tip <- tip,
    work <- [job |-> lastNotify.job, block |-> lastNotify.block],
    seen <- shown

\* Through hold-back, coalescing and the shared FIFO, the miners see what JobFeed
\* promises: each job at most once, on the block it was made for, never going back.
ImplementsFeed == Feed!FeedSpec

\* A block whose SetNewPrevHash names the newest future job reaches the miners,
\* unless a task of the session ended, the target is still zero or the session is
\* over: the main loop, full channels and the start of the bridge do not deadlock.
MinersReachTip ==
    \A block \in 1 .. MaxBlocks :
        (due >= block) ~> \/ lastNotify.block >= block
                          \/ loop = "ended" \/ bridge = "ended" \/ ~target
                          \/ due = 0

=============================================================================
