------------------------------- MODULE Observer -------------------------------
(***************************************************************************)
(* The merge-mining observer of src/src/merge_mining.rs: shares are handed *)
(* to a worker thread without ever waiting for it, the worker rebuilds the *)
(* block of a share from its binding, and a proof that meets the RSK       *)
(* target waits for the HTTP API to fetch it.  A share may come before the *)
(* prevhash or the transaction count of its template: it is kept and tried *)
(* again.  The thread may die, with all it held, and is started again by   *)
(* the next operation that needs it.                                       *)
(*                                                                         *)
(* The context it reads is MergeMining's, with one retained generation.    *)
(* An observation is its position in observed.  Rebuilding a block is a    *)
(* function of the share and its context: ProofShares are the shares whose *)
(* coinbase carries the commitment and whose header meets the target.      *)
(***************************************************************************)
EXTENDS MergeMining, TLC

CONSTANTS
    Shares,           \* what a miner may submit: version, time, nonce, extranonce
    ProofShares,      \* those that reconstruct to a proof
    CoherentCounts,   \* counts whose tree_height is that of the merkle path
    MaxObserved,      \* observations of the run
    MaxPendingShares, \* MAX_PENDING_SHARES
    MaxEarlyShares,   \* MAX_EARLY_SHARES
    MaxFoundJobs,     \* MAX_FOUND_JOBS
    MaxDedup          \* MAX_DEDUP_IDENTITIES

ASSUME ObserverAssumption ==
    /\ ProofShares \subseteq Shares
    /\ CoherentCounts \subseteq TxCounts
    /\ {MaxObserved, MaxPendingShares, MaxEarlyShares, MaxFoundJobs, MaxDedup}
           \subseteq Nat \ {0}

VARIABLES
    ready,      \* observer_ready, and the worker thread is alive
    backoff,    \* retry_after lies ahead
    queue,      \* the worker's channel: observations, and Wake
    worker,     \* where the worker thread is
    early,      \* observations it keeps for another try
    foundQ,     \* FoundState.pending
    recent,     \* FoundState.recent
    observed,   \* share and binding of every observation
    fate,       \* what became of each (history)
    handed,     \* identities ever put in foundQ (history)
    forgotten   \* identities dropped from recent (history)

workerVars == <<ready, backoff, queue, worker, early>>
foundVars == <<foundQ, recent, handed, forgotten>>
observationVars == <<observed, fate>>
observerVars == <<contextVars, workerVars, foundVars, observationVars>>

Wake == 0

Waiting == [phase |-> "recv", obs |-> 0, context |-> None, attempts |-> 0]

ObserverInit ==
    /\ desired \in RskPairs
    /\ templates = (1 :> [tid |-> CHOOSE t \in TemplateIds : TRUE, pair |-> desired,
                          chain |-> None, txCount |-> None])
    /\ currentTemplates = (templates[1].tid :> 1)
    /\ activeChain = None /\ jobs = << >> /\ announcements = << >>
    /\ active = NoId /\ pending = {}
    /\ nextGen = 2 /\ nextBinding = 1 /\ applying = Idle
    /\ ready \in BOOLEAN /\ backoff = ~ready
    /\ queue = <<>> /\ worker = Waiting /\ early = <<>>
    /\ foundQ = <<>> /\ recent = <<>> /\ handed = <<>> /\ forgotten = {}
    /\ observed = <<>> /\ fate = <<>>

-----------------------------------------------------------------------------
(* ensure_observer and wake_worker *)

\* ensure_observer returns true; the queue of a new thread starts with what.
ObserverUp(what) ==
    \/ /\ ready
       /\ queue' \in {queue} \cup
                     (IF Len(queue) < MaxPendingShares THEN {queue \o what} ELSE {})
       /\ UNCHANGED <<ready, backoff, worker, early>>
    \/ /\ ~ready /\ ~backoff
       /\ ready' = TRUE
       /\ queue' = what
       /\ worker' = Waiting /\ early' = <<>>
       /\ UNCHANGED backoff

\* ensure_observer returns false: within retry_after, the mutex is held by
\* another caller, or the thread cannot be spawned.
ObserverDown ==
    /\ ~ready
    /\ backoff' \in {backoff, TRUE}
    /\ UNCHANGED <<ready, queue, worker, early>>

\* The Wake is lost when the channel is full or the mutex is held.
WakeWorker == ObserverUp(<<Wake>>) \/ ObserverDown

\* The five seconds of retry_after are over.
RetryAfterPasses ==
    /\ backoff
    /\ backoff' = FALSE
    /\ UNCHANGED <<contextVars, ready, queue, worker, early, foundVars, observationVars>>

\* The context changes that are followed by wake_worker.
ContextChanges ==
    /\ \/ \E job \in JobIds, coinbase \in Coinbases : BindJobGeneration(job, 1, coinbase)
       \/ \E n \in TxCounts : templates[1].txCount = None /\ RecordTransactionCount(1, n)
       \/ \E tid \in TemplateIds, chain \in Chains : RecordChainState(tid, chain)
    /\ WakeWorker
    /\ UNCHANGED <<foundVars, observationVars>>

-----------------------------------------------------------------------------
(* try_observe_share and the HTTP API *)

\* Nothing waits: the observation is dropped when the worker is gone, its queue
\* full or the mutex held.
TryObserveShare(share, b) ==
    /\ Len(observed) < MaxObserved
    /\ b \in IssuedBindings
    /\ observed' = Append(observed, [share |-> share, binding |-> b])
    /\ \/ /\ ready
          /\ Len(queue) < MaxPendingShares
          /\ queue' = Append(queue, Len(observed) + 1)
          /\ fate' = Append(fate, "held")
       \/ fate' = Append(fate, "lost") /\ UNCHANGED queue
    /\ UNCHANGED <<contextVars, ready, backoff, worker, early, foundVars>>

\* take_found_job for poll_found_job_api
TakeFoundJob ==
    /\ \/ ObserverUp(<<>>) /\ foundQ' = (IF foundQ = <<>> THEN foundQ ELSE Tail(foundQ))
       \/ ObserverDown /\ UNCHANGED foundQ
    /\ UNCHANGED <<contextVars, recent, handed, forgotten, observationVars>>

-----------------------------------------------------------------------------
(* worker_loop *)

\* The loop goes on with retry_early for as many attempts as early held.
Retrying(n) == [Waiting EXCEPT !.phase = "retry", !.attempts = n]

Holds(n) == fate[n] = "held"

\* recv_timeout returns a share or a Wake.
WorkerReceives ==
    /\ ready
    /\ worker.phase = "recv"
    /\ queue # <<>>
    /\ queue' = Tail(queue)
    /\ worker' = IF Head(queue) = Wake
                   THEN Retrying(Len(early))
                   ELSE [Waiting EXCEPT !.phase = "first", !.obs = Head(queue)]
    /\ UNCHANGED <<contextVars, ready, backoff, early, foundVars, observationVars>>

\* Mutant of WorkerTimeout: the time-out only logs.
WorkerTimeoutIdle ==
    /\ ready
    /\ worker.phase = "recv"
    /\ queue = <<>> /\ early # <<>>
    /\ UNCHANGED observerVars

\* 250 ms without work
WorkerTimeout ==
    /\ ready
    /\ worker.phase = "recv"
    /\ queue = <<>> /\ early # <<>>
    /\ worker' = Retrying(Len(early))
    /\ UNCHANGED <<contextVars, ready, backoff, queue, early, foundVars, observationVars>>

RetryEarly ==
    /\ ready
    /\ worker.phase = "retry"
    /\ IF worker.attempts = 0 \/ early = <<>>
         THEN worker' = Waiting /\ UNCHANGED early
         ELSE /\ worker' = [worker EXCEPT !.phase = "again", !.obs = Head(early),
                                          !.attempts = @ - 1]
              /\ early' = Tail(early)
    /\ UNCHANGED <<contextVars, ready, backoff, queue, foundVars, observationVars>>

\* resolve_context: what the binding says under the context's lock.
Resolution(b) ==
    IF b \notin DOMAIN jobs \/ jobs[b].gen \notin DOMAIN templates THEN "obsolete"
    ELSE LET draft == templates[jobs[b].gen]
         IN IF draft.pair \notin RskPairs THEN "obsolete"
            ELSE IF draft.txCount = None \/ jobs[b].chain = None THEN "incomplete"
            ELSE IF draft.txCount \notin CoherentCounts THEN "obsolete"
            ELSE "ready"

\* After handle_observation: the first try is followed by retry_early.
AfterObservation(kept) ==
    Retrying(IF worker.phase = "first" THEN Len(kept) ELSE worker.attempts)

ObservationObsolete(n) ==
    /\ Resolution(observed[n].binding) = "obsolete"
    /\ fate' = [fate EXCEPT ![n] = "obsolete"]
    /\ worker' = AfterObservation(early)
    /\ UNCHANGED <<early, foundVars>>

ObservationIncomplete(n) ==
    LET full == Len(early) >= MaxEarlyShares
        kept == Append(IF full THEN Tail(early) ELSE early, n)
    IN /\ Resolution(observed[n].binding) = "incomplete"
       /\ fate' = IF full THEN [fate EXCEPT ![Head(early)] = "lost"] ELSE fate
       /\ early' = kept
       /\ worker' = AfterObservation(kept)
       /\ UNCHANGED foundVars

\* The context is copied and its lock released.
ObservationReady(n) ==
    LET binding == jobs[observed[n].binding]
    IN /\ Resolution(observed[n].binding) = "ready"
       /\ worker' = [worker EXCEPT
                       !.phase = IF @ = "first" THEN "process first" ELSE "process again",
                       !.context = [chain |-> binding.chain, coinbase |-> binding.coinbase,
                                    pair |-> templates[binding.gen].pair,
                                    txCount |-> templates[binding.gen].txCount]]
       /\ UNCHANGED <<fate, early, foundVars>>

HandleObservation ==
    /\ ready
    /\ worker.phase \in {"first", "again"}
    /\ LET n == worker.obs
       IN ObservationObsolete(n) \/ ObservationIncomplete(n) \/ ObservationReady(n)
    /\ UNCHANGED <<contextVars, ready, backoff, queue, observed>>

AfterProcessing ==
    Retrying(IF worker.phase = "process first" THEN Len(early) ELSE worker.attempts)

\* A header and a coinbase are the share's fields put into its context.
Identity(n) == [share |-> observed[n].share, binding |-> observed[n].binding,
                context |-> worker.context]

Bounded(seq, max) == IF Len(seq) >= max THEN Tail(seq) ELSE seq

\* Mutant of RecordProof: recent is not asked.
RecordProofAgain(id) ==
    /\ recent' = Append(Bounded(recent, MaxDedup), id)
    /\ forgotten' = forgotten \cup (Range(recent) \ Range(recent'))
    /\ foundQ' = Append(Bounded(foundQ, MaxFoundJobs), id)
    /\ handed' = Append(handed, id)

\* Under the lock of FoundState.
RecordProof(id) ==
    /\ id \notin Range(recent)
    /\ recent' = Append(Bounded(recent, MaxDedup), id)
    /\ forgotten' = forgotten \cup (Range(recent) \ Range(recent'))
    /\ foundQ' = Append(Bounded(foundQ, MaxFoundJobs), id)
    /\ handed' = Append(handed, id)

\* process_candidate: a proof is queued once; a share without one, and a proof
\* whose identity is remembered, end here.
ProcessCandidate ==
    LET n == worker.obs
    IN /\ ready
       /\ worker.phase \in {"process first", "process again"}
       /\ \/ observed[n].share \in ProofShares /\ RecordProof(Identity(n))
          \/ /\ observed[n].share \in ProofShares => Identity(n) \in Range(recent)
             /\ UNCHANGED foundVars
       /\ fate' = [fate EXCEPT ![n] = "processed"]
       /\ worker' = AfterProcessing
       /\ UNCHANGED <<contextVars, ready, backoff, queue, early, observed>>

\* A panic while a share is handled: ObserverLiveness is dropped after the
\* receiver, and all the thread held is gone.
WorkerDies ==
    /\ ready
    /\ worker.phase \in {"first", "again", "process first", "process again"}
    /\ ready' = FALSE
    /\ queue' = <<>> /\ early' = <<>> /\ worker' = Waiting
    /\ fate' = [n \in DOMAIN fate |-> IF Holds(n) THEN "lost" ELSE fate[n]]
    /\ UNCHANGED <<contextVars, backoff, foundVars, observed>>

-----------------------------------------------------------------------------
Worker == \/ WorkerReceives \/ WorkerTimeout \/ RetryEarly
          \/ HandleObservation \/ ProcessCandidate

ObserverNext ==
    \/ RetryAfterPasses \/ ContextChanges
    \/ \E share \in Shares, b \in IssuedBindings : TryObserveShare(share, b)
    \/ TakeFoundJob
    \/ Worker \/ WorkerDies

\* A thread that is alive runs, and its time-out passes.
ObserverSpec ==
    ObserverInit /\ [][ObserverNext]_observerVars /\ WF_observerVars(Worker)

-----------------------------------------------------------------------------
(* Properties *)

\* The API is never given the same proof twice, however often a miner submits the
\* share, it is kept for another try or the thread is started anew, unless the
\* proof left the window of MAX_DEDUP_IDENTITIES in between.
FoundOnceUnlessForgotten ==
    \A i, j \in DOMAIN handed :
        i < j /\ handed[i] = handed[j] => handed[i] \in forgotten

\* An observation the worker has accepted is settled once its context is complete,
\* also when the Wake that told the worker so was lost.
EarlyIsRetried ==
    \A n \in 1 .. MaxObserved :
        (n \in DOMAIN fate /\ Holds(n) /\ Resolution(observed[n].binding) # "incomplete")
            ~> (n \in DOMAIN fate /\ ~Holds(n))

=============================================================================
