# demand-cli: specification and proofs

TLA+ models of the DMND mining proxy (`src/src`), the TLC configurations that
check them on small instances and TLAPS proofs of what holds for every instance.
The program is a Stratum V1/V2 proxy: miners connect with SV1, the proxy
translates to SV2 and either relays the pool's jobs or, next to a template
provider (a Bitcoin node), builds its own templates and declares them to the pool.

## The system

| Component | State it keeps | Operations | Hard behaviour |
|---|---|---|---|
| Sessions: `lib.rs`, `router/`, `proxy_state.rs`, `shutdown.rs`, `minin_pool_connection/` | the chosen pool, global `ProxyState`, `TP_ADDRESS`, `ACTIVE_POOL_ADDRESS` | connect, start the parts, monitor, restart | reports of any task at any time, restarts, a retry task that outlives sessions, shutdown at any point |
| Template receiver: `jd_client/template_receiver` | a pending template, request and job, a token; the flags `IS_NEW_TEMPLATE_HANDLED`, `IS_NEW_PHASH_ARRIVED` | one loop over the provider's messages | buffered templates overtaken by other messages, late or refused answers, a flag it waits for itself |
| Downstream of the client: `jd_client/mining_downstream` | the channel factory | publish a job, activate a prev hash, check shares | runs inside the template task |
| Job declarator: `jd_client/job_declarator` | declarations sent, declared future jobs, the last prev hash, tokens | declare, handle answers, activate future jobs | a task per template and per prev hash, answers in any order, tasks that outlive a restart |
| Upstream of the client: `jd_client/mining_upstream` | custom jobs requested, job-id buffer | set custom jobs, map job ids | two callers, `IS_CUSTOM_JOB_SET` freed from four places |
| Merge mining: `merge_mining.rs` | templates by generation, bindings by id, announcements, the active and pending bindings | apply a pair to a template, bind and claim jobs | bounded histories with protected entries, several locks per operation, reused template ids |
| Merge-mining observer: `merge_mining.rs` | a queue, shares that came too early, proofs found, identities seen | hand shares to a worker thread, rebuild their blocks, retry, hand proofs to the API | never waits for the worker, every queue bounded, the thread may die with what it held |
| Share accounter: `share_accounter/` | shares sent up, by job | relay up, relay down | answers that name the job only |
| Translator, towards the pool: `translator/upstream`, `translator/proxy/bridge.rs` | the future job held back, `pending_submits`, `future_jobs`, `last_p_hash`, `last_notify` | translate jobs and shares | future jobs and prev hashes in one bounded FIFO, answers that name several shares, sessions that leave the merge-mining context behind |
| Translator, towards the miners: `translator/downstream` | per miner its recent jobs, difficulty and hashrate; for all the nominal hashrate of the channel and, in `api/stats.rs`, a list of the miners | start, notify, retarget, check submits, leave | several tasks per miner, messages sent after the lock, tasks that outlive the miner |
| Prioritized transactions: `api/mod.rs`, `api/routes.rs` | `PRIORITIZED_TRANSACTIONS`, `MEMPOOL_DOT_SPACE_ACCELERATED`, `BAD_TRANSACTIONS`, one poll lock | API requests, the accelerator poll, the alignment with the node, the poll of the mempool, the startup reset | RPCs that time out and are executed later, a restart between two RPCs, confirmations between two polls |
| Worker summary: `monitor/` | a static: the worker of each connection, and per worker its session count, shares of a window and idle time | register, disconnect, record shares, report to the dashboard | connections that move between workers or end in silence, ids that come back in the next session, expiry by age |
| Ingress, other HTTP routes, configuration | - | sockets, HTTP | mostly I/O |

Pool and miners are joined by channels: pool connection <-> share accounter <->
(job-declaration client) <-> translator <-> miners.  The parts share global flags
and `ProxyState`; a part that fails marks a field as down, and the monitor drops
the whole session and starts the next.

What makes each part correct, and what can break it, is the list of hazards in
`PROJECT.json`; the properties below answer it.

## Modules

| Module | Models | Proofs |
|---|---|---|
| `MergeMining` (`MCMergeMining` for TLC) | `ContextState` of `merge_mining.rs` | `MergeMining_proofs` |
| `TemplateReceiver` | `TemplateRx::start_templates`, the publishing half of `DownstreamMiningNode`, the provider (external) | `TemplateReceiver_proofs` |
| `JobDeclarator` | `JobDeclarator` and `Upstream::set_custom_jobs`, the pool (external) | `JobDeclarator_proofs` |
| `JdClient` | `TemplateReceiver` and `JobDeclarator` composed | `JdClient_proofs` |
| `Lifecycle` | `initialize_proxy`, `monitor`, `Router`, `ProxyState`, `retry_connection` | `Sessions_proofs` |
| `ShareAccounter` | `relay_up`, `relay_down`, the pool (external) | in `SharePath_proofs` |
| `SharePath` (extends `ShareAccounter`) | a share from the miner over the bridge, `handle_submit`, the job-declaration client and the accounter, and its answer back | `SharePath_proofs` |
| `JobFeed` | abstract: what the miners are promised about the jobs they are given | in `Pipeline_proofs` |
| `Pipeline` (extends `MergeMining`) | a job from its publication over the translator upstream and the bridge to `mining.notify`, with its binding; implements `JobFeed` | `Pipeline_proofs` |
| `Observer` (extends `MergeMining`) | the merge-mining observer and its worker thread | in `MergeMining_proofs` |
| `Channel` | the nominal hashrate of the upstream channel: registration, retargets, rate limit, removal, `run_diff_management`; the list of miners kept by `StatsManager` | `Sessions_proofs` |
| `Priority` | the fee deltas asked of bitcoind, the stores that remember them, the tasks that keep both together | - |
| `WorkerSummary` | the dispatcher of `monitor/mod.rs` and the connections that feed it | `Sessions_proofs` |
| `Miner` | one SV1 connection of `translator/downstream`: `RecentJobs`, `start_notify`, `update_diff_setting`, submits | `Miner_proofs` |

In every module an action is one step of one task between two points where
another task can run: a critical section, or the code between two awaits.  A
definition whose comment begins with "Mutant of" is not part of the model: it is a
plausible mistake in the definition that follows it, and shows that a property would notice.

**MergeMining.**  The state is `ContextState` field by field, plus the two id
counters.  `template_order` and `job_order` are the ascending order of the ids,
because entries are pushed when their id is issued and are never moved.
`apply_to_template_with_output_limit` takes the lock three times, so it is
`InvalidateCurrentTemplate`, `ReadDesired` and `InsertTemplate`, with
`RefuseTemplate` for all its early returns; every other operation is one action.
Payloads, coinbases, counts and chain states are opaque, because the context
only stores, copies and compares them.

**TemplateReceiver.**  One FIFO of messages and the locals of `start_templates`.
A NewTemplate is handled in two actions, since the task awaits between the
request for transactions and the publication.  The provider follows the order the
code relies on ("THIS CODE ASSUME THAT TP SEND FUTURE ONLY BEFORE SNPH") and may
refuse the data of an outdated template in the ways `StaleCodes` names.  `work` is
what the miners hash: a template under a prev hash.  `ignored` is a history variable:
the templates whose "template-id-not-found" the task read and did nothing about.

**JobDeclarator.**  A template's number stands for its job, its declaration and
its request.  Waiting for `IS_CUSTOM_JOB_SET` (`PassGate`) and taking it down
(`Declare`) are two steps, as in the code.  `orphans` are `on_new_template` tasks
that a restart left behind.  `NewTemplate` and `Client` are the environment: what
the template task may do to the declarator.

**JdClient.**  Three calls of the template task are steps of both modules; every
other step is one of either.  `Restart` resets both.  Shared variables (`template`,
`down`) have one name in both modules, so the composition is two plain INSTANCEs,
and the refinement mapping is the identity.

**Lifecycle.**  `phase` is where `initialize_proxy` is.  The connection to a pool
and the start of the parts have their failures as outcomes.  A `retry_connection`
task writes `TP_ADDRESS` and then `ProxyState`, in two actions, and survives
sessions.  `ReportDown` lets any task report any field at any time.

**ShareAccounter.**  A share is its sequence number.  `Record` and `SendUp` are
two steps of `relay_up`; the pool answers each share once, in any order.  `burst`
is a history variable: the jobs that had two shares on their way.

**SharePath.**  A share is a ticket until `handle_submit` numbers it; the ticket
stands for the oneshot channel on which the miner's submit waits (`result`).  The
channel factories are libraries, so each verdict they can give is a disjunct.  The
accounter is `ShareAccounter`'s, its messages wired to the translator directly or
through the job-declaration client, which spawns one task per share to wait for the
pool's job id (`RelayShare`, `JobIdTimeout`).  `SUBMIT_FAIL_COUNTER` is a static, so
a session starts from any value of it.  One session is modelled to its end.  History variables:
`lost` (shares the client gave up without telling anyone), `batched` (the pool
acknowledged several shares at once) and `burst`.

**Pipeline.**  A job is its position in `published`, a block is the number of its
SetNewPrevHash.  `Loop` is the main loop of the translator upstream, which holds the
newest future job back in `futureJ`, claims its binding and sends to the bridge
through a FIFO of `WorkCapacity`; `BridgeWork` is `handle_upstream_work`.  Where the
factory's answer is checked, it may fail.  `Restart` is the next session, with or
without job declaration; the merge-mining context survives it.  History variables:
`shown`, `due` (the block whose announcement must reach the miners), `leftover`
(bindings an earlier session left pending) and `stale` (announcements it left).

**Observer.**  An observation is its position in `observed`.  The worker takes one
from its queue, reads the context of its binding, and puts a proof in `foundQ` or the
observation in `early`; the API takes proofs out.  Every queue has the code's limit and the code's policy
when full.  `fate`, `handed` and `forgotten` are history variables.

**Channel.**  No operation holds the lock of a miner and the lock of the channel
together, so `start_notify`, a retarget, the rate limit's raise and the end of a
miner are several actions each.  Rates are natural numbers; the windows of the
limiters are open.  `drift` is a history variable with the causes after which the sum
is known to be inexact: "clamped" (a subtraction cut at zero), "raised" (the rate
limit multiplied the sum), "outlived" (a retarget after the removal) and "aborted" (a
bootstrap killed between marking and rolling back).  The `StatsManager` is a bounded
FIFO of commands (`statsQ`) and the miners it has an entry for (`stats`), which is the
number the health check compares with its limit (`routes.rs:134`); `leaked` is a history
variable: the miners whose start was killed while it waited to take its entry back.

**WorkerSummary.**  `sessionKeys` and `workers` are the dispatcher's two maps.  An
Instant is its age in ticks, capped where no comparison tells ages apart, so `Tick`
ages everything at once; a report (`Snapshot`) follows its interval by less than
another one.  A connection has at most one authorized name, the session's connections
share one token, and only the first connection of the process may change it.  `Restart`
drops the session with its readers and leaves the static as it is; ids start anew.
Difficulties are positive.  `quiet` is a history variable: how long ago the connection's
last valid share for its worker was.

**Priority.**  Every operation holds `PRIORITIZED_TRANSACTIONS_POLL_LOCK` from its
first access to its last, so `op` is the one operation under way, and its RPCs are
steps between which the node (external) may evict or confirm the transaction, and the process or the session may end.  An RPC is answered,
fails before the node saw it, or is given up and executed later (`late`).  That a
transaction is prioritised by one source only is the demand of the repository's
README (line 221), here an ASSUME.  `unsure` is a history variable: the transactions
whose delta the client cannot know after such a failure.

**Miner.**  Jobs are numbered in the order of the bridge's notifies; the number is
the pool's id and stands for the merge-mining binding that travels with it.
`RecentJobs` is `recent`, its maps from one id to another folded into `issued`.  A
message is issued under the Downstream's lock and sent after it is released, so
every such pair is two actions of the notifier or of a retarget, and two tasks
retarget (`Updaters`).  `told` is the miner's memory: the job of every id it was
sent, and the difficulty in force then.  Which difficulty a retarget chooses and
when is open.  A v1 id is drawn from all those that are not in the maps (`FreshV1s`):
one never used before, for which the next number stands, or one whose job was evicted.
Abstracted: a task is known to the task manager as soon as it
is spawned; the configuration has `delay` = 0 and retargets enabled; the bridge
applies a target together with the last step of the retarget, since nothing here
reads it earlier.  History variables: `behind` (why the miner may miss the newest
job), `overlap` (two retargets at once), the mark `calm` of a message (no
retarget between its issue and its sending), `redrawn` (what was said of an id before it was
evicted and drawn again) and `renamed` (jobs that were configured twice without a notify in
between).

## Runs

| Run | Instance | Shows |
|---|---|---|
| `Context` | 2 template ids, 2 chains, 2 counts, 1 template, 2 bindings, 3 ids; symmetry on ids, chains, counts | references, bounds, protection and immutability of the context |
| `Receiver` | 5 templates, 4 blocks, 2 sessions | work on the right block, no self-wait, declared = published; a request ends unless its refusal was ignored |
| `Declarator` | 3 templates, history and buffer of 1 | no declaration lost, doubled or under a foreign prev hash; the flag has an owner |
| `Client` | 3 templates, 2 blocks, 2 sessions | the composition implements both modules; waiting ends |
| `Sessions` | 2 pools, 3 fields, 2 concurrent reports | retries, modes, restarts, shutdown |
| `Miner` | 3 jobs, 2 tracked, a broadcast buffer of 1, 2 difficulties, 2 retargets, 1 configure | shares resolve to the hashed job unless their id was drawn again; honest shares accepted; newest job and one difficulty at rest; an authorized miner is served |
| `SharePath` | 2 jobs, 2 shares, 1 further message, 2 failures, an id buffer of 1 | an honest pool is not blamed, but for the case below; a miner is told what the pool answered; every share is settled |
| `Pipeline` | 3 jobs, 2 blocks, 2 sessions, a work channel of 1 | the miners get what `JobFeed` promises; bindings follow their jobs and none leaks; a new block reaches the miners |
| `Observer` | 2 shares, 3 observations, every limit 1 | a proof is handed out once; a share that came early is tried again |
| `Channel` | 2 miners, rates 1 and 2, 1 new estimate, 1 raise, a stats channel of 1 | the sum is exact unless a named cause made it drift; no change escapes the task that tells the pool; the list of miners is true at rest |
| `Summary` | 2 connections, a named and an unnamed worker, 2 tokens, a tick of five minutes | session counts match the registered connections; a hashing miner stays registered |
| `Priority` | 1 transaction of each source, 2 fees, 2 requests, 2 faults | stores and node agree unless an RPC's outcome is unknown; accelerated fees converge |

The properties whose names end in *Unless...* name the exceptions the code really has
in a history variable.  The variable is only read by the property, so a new cause for
the same deviation would show up as a violation.  The named case itself is disclosed,
not excluded: where it is a hazard of its own, the hazard's note in `PROJECT.json` says which part
of it the property covers.  The same holds for `ResolvesToItsJob` (`redrawn`, `renamed`),
`DifficultiesAgree` (`overlap`) and `AuthorizedIsServed` (the late authorize).

*Refinement.*  `Pipeline` implements `JobFeed` (`ImplementsFeed`): `offers` is the
block of each published job and `work` the last notify.  `JdClient` implements
`TemplateReceiver` and `JobDeclarator`.

*Bounds.*  Histories are shorter than the number of entries that go through them,
so eviction, refusal and late answers to evicted entries all happen.  Five
templates are a buffered template, its overwriting one, the pending one and one
on either side of a new block; three templates are enough for two prev-hash tasks
and a declaration between them.  In `Miner`, three jobs evict one of two tracked
ones, whose id may come back with the next job or retarget, and overflow the buffer, and two retargets may overlap each other and a job; with one retarget
its properties were also checked for two `mining.configure` messages.  In `Declarator` prev hashes are named by
templates, so one tip height suffices.  Two pools let a session move, and return.
Two shares are two of one job (the accounter's ambiguity) or of two (a job id that
evicts another, answers out of order).  In `Pipeline` the work channel is full after
one message, three jobs are a held-back job, its replacement and a current one, and
the second session meets what the first one left.  In `Observer` three observations
overflow every queue and repeat an identity.  One new estimate and one raise meet
every step of the start and the end of either of two miners, and a stats channel of one
command makes each of them wait.  In `WorkerSummary` the constants keep the ratios of the
code (window = retention = interval, twice that until expiry); two connections share a
worker, or move between two.  In `Priority` two
faults are an RPC given up and a confirmation, or a restart of the process, before it is executed.
The proofs cover all other sizes for the properties they state.

*Deadlock* is checked in `Context`, `Receiver`, `Declarator`, `Client` and `Summary`;
`TemplateReceiver` and `JdClient` name the states in which the client may rest (`Quiet`, `Rest`).
It is not checked in the others: `initialize_proxy` may really return and the relay
tasks of `SharePath` and the loops of `Pipeline` may really end, and the bounded jobs, retargets,
observations and requests of `Miner`, `Channel`, `Observer` and `Priority` run out.
Waiting of everyone on everyone is covered there by liveness (`AuthorizedIsServed`,
`ShareIsSettled`, `MinersReachTip`, `EarlyIsRetried`, `AcceleratedConverges`).

*Symmetry* is used for sets of values that are stored and compared only, with
invariants and action properties, never with liveness.

*Fairness.*  `TemplateReceiver`: tokio runs a task that can run, the pool grants
tokens, the provider answers and follows a future template by its SetNewPrevHash.
`JdClient`: only the declaration tasks, whose wait ends by themselves through the two-minute
timeout; nothing is assumed of the pool.  `Lifecycle`: the session task runs, and
peers answer or close their connections; strong fairness of the monitor's two
checks, because every round of its loop makes both and a measurement between two
rounds must not hide them; a TCP connection may be refused for ever.
`Miner`: the bootstrap task and
the notifier run when they can; nothing is assumed of the miner, the bridge or the retargets.
`SharePath`: the relay tasks, the bridge, the submit task, the job-declaration client's tasks
and the monitor run until the session is over; nothing is assumed of the pool.  `Pipeline`: the main
loop and the bridge run; nothing is assumed of the publisher.  `Observer`: the worker
thread runs while it lives; when it is started again is left to the operations that need it.
`Channel`: the diff-management task runs (its limiter only delays it).  `Priority`: the
operation under the lock goes on (its RPCs have timeouts), and each periodic task gets the lock again and again
(strong fairness: tokio's mutex is a FIFO queue); the node executes what it received.

## What the code says and what it does

These are the exceptions that a property names, or were met while reading:

- Two accepted shares of one job on their way make the accounter mark an honest pool as
  down: the second overwrites the entry of the first, whose ShareOk takes it, and the
  second ShareOk finds none (`share_accounter/mod.rs:58`, `87-95`;
  `PoolNotBlamedUnlessBurst`, which fails as soon as `burst` is dropped from it).
- A SetNewPrevHash is handled before the future template it
  names, while that one is in the buffer (`template_receiver/mod.rs:354`, `612`);
  `jd_client/mod.rs:34-36` excludes it.
- "template-id-not-found" is ignored and the request stays
  pending for ever (`template_receiver/mod.rs:777`; `RequestEndsUnlessIgnored`).
- A declaration given up by the template task is set as a custom
  job after all (`job_declarator/mod.rs:389`; comment at `template_receiver/mod.rs:558-562`).
- A SetNewPrevHash whose future job is never declared keeps its task looping until the
  next one or the end of the session (`job_declarator/mod.rs:486`).
- A latency measurement that loses its connection keeps the
  monitor from seeing reports and the shutdown signal (`lib.rs:367`, `402`; `ReportRestartsUnlessStuck`).
- With job declaration a SubmitSharesError of the pool is not relayed, so the miner's
  submit stays unsettled until the session ends (`mining_upstream/upstream.rs:554`; `ShareIsSettled`).
- A pool-only session claims announcements that a session with job declaration left
  (`merge_mining.rs:631`; `BindingIsItsJobUnlessStale`).
- The comment at `api/mod.rs:338-350` lists as a step the restoration of transactions
  that left the accelerator feed; no code does it.  A failed startup reset logs that
  "transaction prioritization is disabled" (`api/mod.rs:72-75`), but nothing is
  disabled (`lib.rs:193`).
- A miner whose start is killed after it was listed and before it took the entry back stays in
  the list the health check counts until the session ends (`notify.rs:63`; `ListedUnlessLeaked`).
- A rejected share registers a connection that never authorized, and its end is not
  reported (`receive_from_downstream.rs:139`): the dashboard shows the worker until the
  zero-hashrate expiry, as it does for every worker of a session that was dropped.
- A second `mining.configure` before the next notify takes the v1 id the first one left in
  `first_job` for the pool's id (`downstream.rs:1041-1047`): shares of that job would be
  forwarded under an id the pool does not know (`renamed` in `ResolvesToItsJob`).
- `new_v1` draws random ids and remembers only those in its maps (`downstream.rs:1299-1302`): an
  id whose job was evicted may come back, and a late share under it resolves to the newer job
  (`redrawn` in `ResolvesToItsJob`).  `HonestSharesAccepted` shows that this never meets a job
  with fewer than TRACKED_RECENT_JOBS newer ones.

## Proofs

The theorems are of the form `Spec => []P`, `Spec => [][A]_vars` or, for a refinement,
`Spec => AbstractSpec`, for every value of the constants that the module's ASSUME
allows, and checked to the last leaf.

The larger proofs have three layers.  Lemmas about sequences, sets and functions
say what appending, taking the head or evicting does to an order or a range.  Then
each action is shown to be one of a few *moves* (a job is published, a message is
taken up, a share is handed on) that keep only what the invariant looks at.  Last, each
move preserves each conjunct of the invariant.  Where a conjunct is about what was
said in the past, it is stated with a set that only grows.

- **MergeMining_proofs.**  The inductive invariant is `TypeOK`, `ContextIntegrity`
  and `BoundedHistory` together: eviction keeps references alive only because
  active and pending bindings are retained (`ProtectionIsLive`), which in turn needs
  that removing a generation removes its bindings.  The bound needs that among the
  `MaxJobs + 1` bindings one is always a candidate: the new id is neither pending
  nor active, since both are bindings already there.  `ProtectedKept` and `ImmutableContext` are
  action properties proved from the same invariant.  `FoundOnceUnlessForgotten` of `Observer` needs
  that whatever was handed to the API is still in the window of recent proofs or has left it
  (`Remembered`): a proof that is recorded is new to the window, so an earlier copy of it is one
  the window has lost.
- **TemplateReceiver_proofs.**  `NeverWaitsOnItself` is inductive by itself;
  `PendingIsBacked` needs that a task that is publishing has a
  pending request and no pending job yet.  `WorkOnItsTip` rests on `FeedInv`: whatever stands in
  the FIFO from the provider is in the order of the templates (`Ordered`), no prev hash is skipped
  (`Announced`), the template right before a prev hash is the one it announces (`Paired`), and a template that
  is buffered or being published lies between the last prev hash and the next (`Fresh`).
- **JobDeclarator_proofs.**  `CounterCountsTasks` needs the finiteness of the set of
  tasks and that a task is not spawned and looping at once, which rests on prev hashes being handed over in
  ascending order.  `FutureJobOnItsPrevHash` needs that custom
  jobs refer to templates that exist, whose `tip` later templates do not change.
  `OneStage` is a sum of cardinalities; the invariant behind it (`StageInv`) says that the
  seven stages are pairwise disjoint, that no queue holds a template twice, and that all are among
  the templates handed over, so that a new one is in none.  `GateHasOwner` is inductive with it.
- **JdClient_proofs.**  `ClientImplementsReceiver` and `ClientImplementsDeclarator`: every step of
  the client is a step or a stutter of each part.  A step of one part must be one its specification
  allows the environment of the other: a template the provider issues is a NewTemplate of the
  declarator only because it builds on no earlier block (`IssuedOnTip`), and a failed
  publication is its `AskRestart`.  From the refinements, what is proved of the parts alone is carried
  over to the client (`ClientReceiverIsSafe`, `ClientDeclaratorIsSafe`); `ClientAssumption`
  gives the parts what they assume of their constants.  The other direction
  is `HandOverFits`: where the two meet, the guards that stand for the declarator's environment
  (a template once, prev hashes in order) hold whenever the template task hands something over, so
  that the composition excludes none of its steps.  Its invariant orders everything a
  template passes through, declared before requested before buffered before on the way
  (`InOrder`), and the prev hashes likewise (`AnnouncedInOrder`), on top of `FeedInv`.
- **Sessions_proofs.**  Of `Lifecycle`: `OneRetry`, `DegradedIsTemporary` and `DeclaresToItsPool`
  (only proved, no run needs it) are inductive together with the types: a session inside
  `jd_client::start` has read `TP_ADDRESS` as Some, so no retry can be under way when it gives the
  address up.  Of `Channel`: `UnsentIsNoticed` is inductive together with what the task has marked
  as seen when it reads; `ListedUnlessLeaked` needs, for each miner, which of its commands can still
  be in the StatsManager's queue, and in which order (`MinerListed`).  Of `WorkerSummary`:
  `SessionsAreCounted` needs that the registered connections are finitely many and how a
  cardinality changes when one connection moves between workers; `HashingIsRegistered` needs that the worker of
  a connection heard of lately is itself fresh (`Heard`): its last share is no older than the
  connection's, or it has been without hashrate no longer than the connection has been quiet
  beyond the window.
- **Pipeline_proofs.**  `PipelineImplementsFeed`: initial states map to initial states of
  `JobFeed`, every step to a step or a stutter.  The invariant (`PipeInv`) is about the *line*
  made of bridge queue, outbox and inbox in that order: each job stands in it once and in no
  other place (`OnePlace`), blocks do not go back along it (`LineSorted`), no prev hash that was
  announced and not taken is missing from it (`LineComplete`), and the miners are not ahead of it (`NotAhead`).
  `PendingIsQueued` and `BindingIsItsJobUnlessStale` are inductive together (`BindInv`), once it is said that a binding is
  announced, claimed or left over, for one job (`Apart`): else releasing one job's binding
  could release another's.  That a released job is nowhere else is `PipeInv` again; that a bridge
  that ended does not run again is `StartInv`.  The binding `insert_job` retires is not a pending
  one because the new binding is itself a candidate, as in `MergeMining_proofs`.
- **Miner_proofs.**  `ResolvesToItsJob`: every place where an id of a job is mentioned
  (a message under way, what the miner was told) agrees with RecentJobs as long as the id is kept
  (`NamesItsJob`): an id is drawn only when it is not in the maps, and then whatever was said of
  it goes into `redrawn`; `Faithful` carries the pool's id of every job that is not `renamed`.  `MinerIsCurrentUnlessRaced` rests on `CurrentInv`: the last notify handled is
  `first_job`, the feed ends with the newest job, and whoever is sending sends `first_job`.
  `HonestSharesAccepted` needs in addition that the jobs received are spaced and that the last
  `Tracked` of them are kept (`KeptInv`), so that only ids of older jobs can come back
  (`RedrawnOld`), and that an id issued calmly carries the difficulty the
  miner had when it was told of it (`RatedInv`), from which `DifficultiesAgree` follows too.
- **SharePath_proofs.**  `PoolNotBlamedUnlessBurst`, proved for the accounter inside the whole
  path: a share is in exactly one place between miner and answer, and the entry under its job is
  there until its answer is taken up (`AccInv`).  `SettledAsAnswered` needs what the answers
  under way say (`ReplyInv`: an answer tells the truth about the share its ticket stands for) and, because
  one success acknowledges everything up to a sequence number, that without job declaration the shares reach the
  pool in the order of their tickets and that whatever lies below an acknowledged number was
  answered before (`BatchInv`).

Only model-checked:

- all liveness: fairness and ENABLED are beyond the provers;
- `NominalIsSumUnlessDrifted` and `StoresMatchNodeUnlessUnsure`: they compare with a sum over a
  set, and what a sum becomes when an element changes is an induction over the set.

Every other property of a run is stated by a theorem.

## Not modelled, and the plan

Next: the tokens of the job declarator (`get_last_token`, `allocate_tokens`), of which
the modules only keep that a token comes eventually.

Left out, and why:

- SV1 ingress (`ingress/`, `proxy_protocol.rs`): sockets, lines and the PROXY header; no state of its own.
- The monitor's HTTP requests, the hashrates and totals it sends and the read-only HTTP routes: they copy statistics, nothing reads them back.
- Configuration, self-update and helpers (`config.rs`, `auto_update.rs`): read once before any task starts, or pure I/O.
- The arithmetic of the difficulty controller (floating point) and of hashrate estimates: which value is chosen is open
  in `Miner` and `Channel`.
- Byte layouts of coinbases, headers, merkle paths and payloads: functions of values the
  models keep opaque.
- `handle_token_updates`: relays a token and keeps no state.
