-------------------------------- MODULE Priority --------------------------------
(***************************************************************************)
(* Transaction prioritization: the fee deltas the client asks of its       *)
(* bitcoind, from two sources (the HTTP API and mempool.space's            *)
(* accelerator feed), the stores in which it remembers what it asked, the  *)
(* task that aligns the stores with the node, and the cache of rejected    *)
(* transactions.  Every operation holds PRIORITIZED_TRANSACTIONS_POLL_LOCK *)
(* from its first access to its last, across the RPC calls.                *)
(*                                                                         *)
(* An RPC ends in one of three ways: answered; failed before the node saw  *)
(* it; or given up by the client (timeout, a handler dropped with its HTTP *)
(* connection, a task aborted with its session) while it is still on its   *)
(* way, so that the node executes it later.  A transaction is prioritised  *)
(* by one source only, as the repository's README demands (line 221).      *)
(***************************************************************************)
EXTENDS Integers, FiniteSets, Sequences, SequencesExt, TLC

CONSTANTS
    Manual,        \* transactions of the HTTP API
    Accelerated,   \* transactions of the accelerator feed
    Requested,     \* fee deltas of API requests, up to their sign
    Fees,          \* fee deltas of the feed
    MaxDelta,      \* i64::MAX
    MaxRequests,   \* bound on API requests
    MaxFaults      \* bound on failures, confirmations and restarts

Txs == Manual \cup Accelerated

ASSUME PriorityAssumption ==
    /\ Manual \cap Accelerated = {}
    /\ Requested \cup Fees \subseteq Nat \ {0}
    /\ {MaxDelta, MaxRequests, MaxFaults} \subseteq Nat

VARIABLES
    delta,        \* the node: fee delta of each transaction, 0 if not listed
    mempool,      \* the node: transactions in its mempool
    confirmed,    \* transactions in a block
    late,         \* adjustments the client gave up and the node has yet to execute
    feed,         \* mempool.space: the fee of each accelerated transaction
    manual,       \* PRIORITIZED_TRANSACTIONS
    accelerated,  \* MEMPOOL_DOT_SPACE_ACCELERATED
    bad,          \* BAD_TRANSACTIONS
    op,           \* the operation under the lock
    requests,     \* API requests so far
    faults,       \* failures so far
    unsure        \* transactions whose delta the client cannot know (history)

nodeVars == <<delta, mempool, confirmed, late>>
storeVars == <<manual, accelerated, bad>>
boundVars == <<requests, faults>>
priorityVars == <<nodeVars, feed, storeVars, op, boundVars, unsure>>

Idle == [kind |-> "idle"]
Empty == [t \in {} |-> 0]
MinDelta == -(MaxDelta + 1)

-----------------------------------------------------------------------------
(* The stores *)

Record(store, t, n) == t :> n @@ store

UpdateExisting(store, t, n) ==
    IF t \in DOMAIN store THEN [store EXCEPT ![t] = n] ELSE store

Removed(store, T) == [t \in DOMAIN store \ T |-> store[t]]

Get(store, t) == IF t \in DOMAIN store THEN store[t] ELSE 0

\* What the client believes it added; one of the stores at most has the
\* transaction.
Owned(t) == Get(manual, t) + Get(accelerated, t)

-----------------------------------------------------------------------------
(* The RPC interface *)

Late(t) == \E i \in DOMAIN late : late[i].tx = t

Fault ==
    /\ faults < MaxFaults
    /\ faults' = faults + 1

\* getprioritisedtransactions.
Prioritized == {t \in Txs : delta[t] # 0}

\* prioritisetransaction was answered with true.
Prioritised(t, n) ==
    /\ delta' = [delta EXCEPT ![t] = @ + n]
    /\ UNCHANGED <<late, faults>>

\* It failed: the node never saw it, or the client gave it up on its way.
NotPrioritised(t, n) ==
    /\ Fault
    /\ late' \in {late, Append(late, [tx |-> t, adjustment |-> n])}
    /\ UNCHANGED delta

\* An adjustment given up may or may not take effect.
Doubted(t) == unsure' = IF late' = late THEN unsure ELSE unsure \cup {t}

\* sendrawtransaction: accepted unless in a block; "already in mempool" too is Ok.
Submitted(t) ==
    /\ t \notin confirmed
    /\ mempool' = mempool \cup {t}
    /\ UNCHANGED faults

Rejected(t) ==
    /\ IF t \in confirmed THEN UNCHANGED faults ELSE Fault
    /\ UNCHANGED mempool

NotFetched == Fault /\ UNCHANGED mempool

-----------------------------------------------------------------------------
(* Start of the process: reset_node_fee_deltas *)

Started ==
    /\ manual = Empty /\ accelerated = Empty /\ bad = {}
    /\ unsure = Txs
    /\ op = [kind |-> "start"]

PriorityInit ==
    /\ delta \in [Txs -> {0, 1, MinDelta}]
    /\ mempool \in {{}, Txs} /\ confirmed = {} /\ late = <<>>
    /\ feed \in [Accelerated -> Fees \cup {0}]
    /\ Started
    /\ requests = 0 /\ faults = 0

\* The deltas are listed, or the listing fails, which is only logged.
ListDeltas ==
    /\ op.kind = "start"
    /\ \/ /\ op' = [kind |-> "reset", todo |-> Prioritized]
          /\ unsure' = Prioritized \cup {t \in Txs : Late(t)}
          /\ UNCHANGED faults
       \/ Fault /\ op' = Idle /\ UNCHANGED unsure
    /\ UNCHANGED <<nodeVars, feed, storeVars, requests>>

\* i64::MIN is reversed in two adjustments.
Reversal(n) == IF n = MinDelta THEN <<MaxDelta, 1>> ELSE <<-n>>

Total(adjustments) == FoldLeft(LAMBDA a, b : a + b, 0, adjustments)

\* One transaction of the list: the first adjustment that fails ends it.
ResetDelta(t) ==
    LET adjustments == Reversal(delta[t])
    IN /\ op.kind = "reset" /\ t \in op.todo
       /\ \/ /\ Prioritised(t, Total(adjustments))
             /\ unsure' = IF Late(t) THEN unsure ELSE unsure \ {t}
          \/ \E k \in DOMAIN adjustments :
                /\ Fault
                /\ delta' = [delta EXCEPT ![t] = @ + Total(SubSeq(adjustments, 1, k - 1))]
                /\ late' \in {late, Append(late, [tx |-> t, adjustment |-> adjustments[k]])}
                /\ UNCHANGED unsure
       /\ op' = [op EXCEPT !.todo = @ \ {t}]
       /\ UNCHANGED <<mempool, confirmed, feed, storeVars, requests>>

ResetEnds ==
    /\ op.kind = "reset" /\ op.todo = {}
    /\ op' = Idle
    /\ UNCHANGED <<nodeVars, feed, storeVars, boundVars, unsure>>

\* The process ends and is started again: the statics are gone.
ProcessRestarts ==
    /\ Fault
    /\ manual' = Empty /\ accelerated' = Empty /\ bad' = {}
    /\ unsure' = Txs
    /\ op' = [kind |-> "start"]
    /\ UNCHANGED <<nodeVars, feed, requests>>

-----------------------------------------------------------------------------
(* The HTTP API *)

Locks == op = Idle

Request ==
    /\ requests < MaxRequests
    /\ requests' = requests + 1

\* One adjustment of the API; a transaction known as bad is refused.
Prioritizes(t, n) ==
    /\ Request
    /\ t \notin bad
    /\ \/ /\ Prioritised(t, n)
          /\ manual' = Record(manual, t, Get(manual, t) + n)
          /\ UNCHANGED unsure
       \/ NotPrioritised(t, n) /\ Doubted(t) /\ UNCHANGED manual
    /\ UNCHANGED <<mempool, confirmed, feed, accelerated, bad, op>>

\* Mutant of PrioritizeTransaction: the lock is not taken.
PrioritizeUnlocked(t, n) == op.kind # "start" /\ Prioritizes(t, n)

\* prioritize_transaction.
PrioritizeTransaction(t, n) == Locks /\ Prioritizes(t, n)

\* restore_tx_priority: without an entry there is nothing to take back.
RestoreTxPriority(t) ==
    /\ Locks
    /\ Request
    /\ t \in DOMAIN manual \cup DOMAIN accelerated
    /\ \/ /\ Prioritised(t, -Owned(t))
          /\ manual' = Removed(manual, {t})
          /\ accelerated' = Removed(accelerated, {t})
          /\ UNCHANGED unsure
       \/ NotPrioritised(t, -Owned(t)) /\ Doubted(t) /\ UNCHANGED <<manual, accelerated>>
    /\ UNCHANGED <<mempool, confirmed, feed, bad, op>>

-----------------------------------------------------------------------------
(* poll_mempool_space_accelerations *)

Listed == {t \in Accelerated : feed[t] # 0}

\* The feed and the store are read; a failed request ends the poll at once.
PollBegins ==
    /\ Locks
    /\ op' = [kind |-> "poll", fees |-> [t \in Listed |-> feed[t]],
              cached |-> accelerated, todo |-> Listed, submit |-> {}]
    /\ UNCHANGED <<nodeVars, feed, storeVars, boundVars, unsure>>

\* The adjustment of one transaction, in any order.
PollAdjusts(t) ==
    LET adjustment == op.fees[t] - Get(op.cached, t)
    IN /\ op.kind = "poll" /\ op.submit = {} /\ t \in op.todo
       /\ \/ /\ adjustment # 0
             /\ Prioritised(t, adjustment)
             /\ accelerated' = Record(accelerated, t, op.fees[t])
             /\ UNCHANGED unsure
          \/ /\ adjustment # 0
             /\ NotPrioritised(t, adjustment)
             /\ Doubted(t)
             /\ UNCHANGED accelerated
          \/ adjustment = 0 /\ UNCHANGED <<delta, late, faults, accelerated, unsure>>
       /\ op' = [op EXCEPT !.todo = @ \ {t}, !.submit = {t} \ DOMAIN op.cached]
       /\ UNCHANGED <<mempool, confirmed, feed, manual, bad, requests>>

\* A transaction that was not cached is fetched and submitted; failures are
\* logged.
PollSubmits(t) ==
    /\ op.kind = "poll" /\ t \in op.submit
    /\ Submitted(t) \/ Rejected(t) \/ NotFetched
    /\ op' = [op EXCEPT !.submit = {}]
    /\ UNCHANGED <<delta, confirmed, late, feed, storeVars, requests, unsure>>

PollEnds ==
    /\ op.kind = "poll" /\ op.todo = {} /\ op.submit = {}
    /\ op' = Idle
    /\ UNCHANGED <<nodeVars, feed, storeVars, boundVars, unsure>>

-----------------------------------------------------------------------------
(* reconcile_node_prioritized_transactions *)

\* The node's list is read, and what it does not list leaves the stores; a
\* failed listing ends the round at once.
ReconcileBegins ==
    LET gone == Txs \ Prioritized
    IN /\ Locks
       /\ op' = [kind |-> "reconcile", deltas |-> delta, present |-> mempool,
                 todo |-> Prioritized, submit |-> {}, undo |-> {},
                 steady |-> {t \in Txs : ~Late(t)}]
       /\ manual' = Removed(manual, gone)
       /\ accelerated' = Removed(accelerated, gone)
       /\ unsure' = unsure \ {t \in gone : ~Late(t)}
       /\ UNCHANGED <<nodeVars, feed, bad, boundVars>>

Reconciling == op.kind = "reconcile" /\ op.submit = {} /\ op.undo = {}

ReconcileSkipsBad(t) ==
    /\ Reconciling /\ t \in op.todo \cap bad
    /\ op' = [op EXCEPT !.todo = @ \ {t}]
    /\ UNCHANGED <<nodeVars, feed, storeVars, boundVars, unsure>>

\* Mutant of Align: the node's delta is not taken over.
AlignNever(t) == UNCHANGED <<manual, accelerated, unsure>>

\* Both stores take over the node's delta, where they have the transaction.
Align(t) ==
    /\ manual' = UpdateExisting(manual, t, op.deltas[t])
    /\ accelerated' = UpdateExisting(accelerated, t, op.deltas[t])
    /\ unsure' = IF t \in DOMAIN manual \cup DOMAIN accelerated
                 THEN unsure \ (op.steady \cap {t}) ELSE unsure

\* A transaction with a positive delta that left the mempool is submitted again.
ReconcileAligns(t) ==
    /\ Reconciling /\ t \in op.todo \ bad
    /\ Align(t)
    /\ op' = [op EXCEPT !.todo = @ \ {t},
                        !.submit = IF op.deltas[t] > 0 THEN {t} \ op.present ELSE {}]
    /\ UNCHANGED <<nodeVars, feed, bad, boundVars>>

ReconcileSubmits(t) ==
    /\ op.kind = "reconcile" /\ t \in op.submit
    /\ \/ Submitted(t) /\ op' = [op EXCEPT !.submit = {}] /\ UNCHANGED bad
       \/ NotFetched /\ op' = [op EXCEPT !.submit = {}] /\ UNCHANGED bad
       \/ Rejected(t) /\ op' = [op EXCEPT !.submit = {}, !.undo = {t}] /\ bad' = bad \cup {t}
    /\ UNCHANGED <<delta, confirmed, late, feed, manual, accelerated, requests, unsure>>

\* The delta of a rejected transaction is taken back.
ReconcileUndoes(t) ==
    /\ op.kind = "reconcile" /\ t \in op.undo
    /\ \/ /\ Prioritised(t, -op.deltas[t])
          /\ manual' = UpdateExisting(manual, t, 0)
          /\ accelerated' = UpdateExisting(accelerated, t, 0)
          /\ UNCHANGED unsure
       \/ /\ NotPrioritised(t, -op.deltas[t])
          /\ Doubted(t)
          /\ UNCHANGED <<manual, accelerated>>
    /\ op' = [op EXCEPT !.undo = {}]
    /\ UNCHANGED <<mempool, confirmed, feed, bad, requests>>

ReconcileEnds ==
    /\ Reconciling /\ op.todo = {}
    /\ op' = Idle
    /\ UNCHANGED <<nodeVars, feed, storeVars, boundVars, unsure>>

-----------------------------------------------------------------------------
(* The cache of rejected transactions, and the end of a session *)

\* clear_bad_transactions_periodically.
ClearBad ==
    /\ Locks
    /\ bad # {}
    /\ bad' = {}
    /\ UNCHANGED <<nodeVars, feed, manual, accelerated, op, boundVars, unsure>>

\* The session ends: AbortOnDrop ends its tasks, and their lock is free.
AbortTasks ==
    /\ op.kind \in {"poll", "reconcile"}
    /\ Fault
    /\ op' = Idle
    /\ UNCHANGED <<nodeVars, feed, storeVars, requests, unsure>>

-----------------------------------------------------------------------------
(* The node and mempool.space *)

\* The state of the node moves under an operation that has read it.
Moves(t) ==
    /\ unsure' = unsure \cup {t}
    /\ op' = IF op.kind = "reconcile" THEN [op EXCEPT !.steady = @ \ {t}] ELSE op

\* The node executes an adjustment nobody waits for.
NodeCatchesUp ==
    /\ late # <<>>
    /\ late' = Tail(late)
    /\ delta' = [delta EXCEPT ![late[1].tx] = @ + late[1].adjustment]
    /\ Moves(late[1].tx)
    /\ UNCHANGED <<mempool, confirmed, feed, storeVars, boundVars>>

\* A block with the transaction: the node forgets its delta.
Confirm(t) ==
    /\ t \in mempool
    /\ Fault
    /\ confirmed' = confirmed \cup {t}
    /\ mempool' = mempool \ {t}
    /\ delta' = [delta EXCEPT ![t] = 0]
    /\ Moves(t)
    /\ UNCHANGED <<late, feed, storeVars, requests>>

Evict(t) ==
    /\ t \in mempool
    /\ Fault
    /\ mempool' = mempool \ {t}
    /\ UNCHANGED <<delta, confirmed, late, feed, storeVars, op, requests, unsure>>

FeedChanges(t, fee) ==
    /\ fee # feed[t]
    /\ Fault
    /\ feed' = [feed EXCEPT ![t] = fee]
    /\ UNCHANGED <<nodeVars, storeVars, op, requests, unsure>>

-----------------------------------------------------------------------------
(* The specification *)

Startup == ListDeltas \/ ResetEnds \/ (\E t \in Txs : ResetDelta(t))

Api ==
    \/ \E t \in Manual, n \in Requested :
          PrioritizeTransaction(t, n) \/ PrioritizeTransaction(t, -n)
    \/ \E t \in Txs : RestoreTxPriority(t)

Poll == PollEnds \/ (\E t \in Txs : PollAdjusts(t) \/ PollSubmits(t))

Reconcile ==
    \/ ReconcileEnds
    \/ \E t \in Txs : \/ ReconcileSkipsBad(t) \/ ReconcileAligns(t)
                      \/ ReconcileSubmits(t) \/ ReconcileUndoes(t)

World ==
    \/ NodeCatchesUp
    \/ \E t \in Txs : Confirm(t) \/ Evict(t)
    \/ \E t \in Accelerated, fee \in Fees \cup {0} : FeedChanges(t, fee)

PriorityNext ==
    \/ Startup \/ ProcessRestarts \/ Api
    \/ PollBegins \/ Poll \/ ReconcileBegins \/ Reconcile
    \/ ClearBad \/ AbortTasks \/ World

\* An operation that has the lock goes on; the mutex is fair, so each periodic
\* task gets it again and again; what is on its way reaches the node.
PriorityFairness ==
    /\ WF_priorityVars(Startup) /\ WF_priorityVars(Poll) /\ WF_priorityVars(Reconcile)
    /\ SF_priorityVars(PollBegins) /\ SF_priorityVars(ReconcileBegins)
    /\ SF_priorityVars(ClearBad)
    /\ WF_priorityVars(NodeCatchesUp)

PrioritySpec == PriorityInit /\ [][PriorityNext]_priorityVars /\ PriorityFairness

-----------------------------------------------------------------------------
(* Properties *)

\* What the stores say of a transaction is what the node adds to its fee, and a
\* transaction in no store has no delta: only then does a restore bring it back
\* to zero.  Excepted are transactions with an adjustment the client gave up, a
\* block that took the delta away, or a reset that failed, until the next
\* alignment saw them.
StoresMatchNodeUnlessUnsure == \A t \in Txs \ unsure : Owned(t) = delta[t]

\* Whatever was lost, doubled or aborted on the way, the node ends with the fee
\* delta the accelerator feed asks for: the polls and the alignment correct each
\* other.
AcceleratedConverges ==
    \A t \in Accelerated :
        <>[](feed[t] # 0 /\ t \notin confirmed) => <>[](delta[t] = feed[t])
================================================================================
