------------------------------ MODULE MergeMining ------------------------------
(***************************************************************************)
(* The merge-mining context of src/src/merge_mining.rs: ContextState, kept *)
(* behind one mutex, and the two identifier counters beside it.  An        *)
(* operation that takes the lock once is one action; applying the desired  *)
(* pair to a template takes it three times and is three actions, between   *)
(* which the HTTP API and the translator may run.                          *)
(*                                                                         *)
(* Who calls what:                                                         *)
(*   HTTP API         SetDesiredPair                                       *)
(*   TemplateRx task  BeginTemplateSession, the apply steps,               *)
(*                    DiscardTemplateGeneration, BindJobGeneration,        *)
(*                    AnnounceUnboundJob, RecordTransactionCount,          *)
(*                    RecordChainState                                     *)
(*   translator       ClaimJobBinding, ClearPendingJobBinding              *)
(*   bridge           SetActiveJobBinding, ClearPendingJobBinding          *)
(*                                                                         *)
(* Abstractions: a (payload, target) pair, a chain state (prevhash, nBits),*)
(* a coinbase (prefix, suffix) and a transaction count are opaque values;  *)
(* template_order and job_order are the ascending order of the identifiers *)
(* (each is pushed when its identifier is issued and never reordered);     *)
(* current_jobs is left out, because only the unit tests read it.          *)
(***************************************************************************)
EXTENDS Integers, Sequences, FiniteSets, FiniteSetsExt, Functions

CONSTANTS
    TemplateIds,       \* template identifiers the template provider may reuse
    JobIds,            \* miner-facing job identifiers
    Pairs,             \* desired (payload, target) pairs the API accepts
    RskPairs,          \* the pairs whose payload satisfies is_rsk_payload
    Chains,            \* (prev_hash, n_bits) chain states
    Coinbases,         \* coinbase (prefix, suffix) of a job
    TxCounts,          \* block transaction counts
    None,              \* Option::None for pairs, chains, counts and templates
    MaxTemplates,      \* MAX_TEMPLATES
    MaxJobs,           \* MAX_JOBS
    MaxAnnouncements,  \* MAX_JOB_ANNOUNCEMENTS
    MaxId              \* the last value of the id counters (u64::MAX)

ASSUME ContextAssumption ==
    /\ RskPairs \subseteq Pairs
    /\ None \notin Pairs \cup Chains \cup TxCounts \cup TemplateIds
    /\ MaxTemplates \in Nat \ {0}
    /\ MaxJobs \in Nat \ {0}
    /\ MaxAnnouncements \in Nat \ {0}
    /\ MaxId \in Nat \ {0}

VARIABLES
    desired,           \* the pair the next template is to commit to
    templates,         \* generation -> TemplateDraft
    currentTemplates,  \* template id -> its newest generation
    activeChain,       \* the last recorded chain state
    jobs,              \* binding id -> JobBinding
    announcements,     \* FIFO of published jobs the translator has not claimed
    active,            \* binding behind the last miner-facing notify
    pending,           \* claimed bindings whose notify is still to come
    nextGen,           \* next_template_generation
    nextBinding,       \* next_binding_id
    applying           \* the TemplateRx task inside apply_to_template, if it is

contextVars == <<desired, templates, currentTemplates, activeChain, jobs,
                 announcements, active, pending, nextGen, nextBinding, applying>>

-----------------------------------------------------------------------------
(* Values *)

\* next_id never hands out 0 and stops one short of the counter's last value.
Ids == 1 .. (MaxId - 1)

\* Option<u64>::None for a generation or a binding.
NoId == 0

TemplateDraft == [tid : TemplateIds, pair : Pairs,
                  chain : Chains \cup {None}, txCount : TxCounts \cup {None}]

JobBinding == [job : JobIds, tid : TemplateIds, gen : Ids,
               chain : Chains \cup {None}, coinbase : Coinbases]

Announcement == [job : JobIds, binding : Ids \cup {NoId}]

\* Where the TemplateRx task is inside apply_to_template.
ApplyState == [phase : {"idle", "invalidated", "read"},
               tid : TemplateIds \cup {None}, future : BOOLEAN,
               pair : Pairs \cup {None}]

Idle == [phase |-> "idle", tid |-> None, future |-> FALSE, pair |-> None]

\* HashMap::insert and HashMap::remove of a set of keys.
Put(f, k, v) == [x \in DOMAIN f \cup {k} |-> IF x = k THEN v ELSE f[x]]
Without(f, S) == Restrict(f, DOMAIN f \ S)

-----------------------------------------------------------------------------
(* Derived state *)

JobsOf(g) == {b \in DOMAIN jobs : jobs[b].gen = g}

\* generation_is_protected
Protected(g) == (JobsOf(g) \cap (pending \cup {active})) # {}

Announced(g) == \E i \in 1 .. Len(announcements) :
                    announcements[i].binding \in JobsOf(g)

\* Mutant of Expendable: queued notifies are spared, the active one is not.
ExpendableButPending ==
    {g \in DOMAIN templates : JobsOf(g) \cap pending = {} /\ ~Announced(g)}

\* The retained generations insert_template may retire: the ones no job is
\* bound to come first, then the ones neither protected nor announced.
Unbound == {g \in DOMAIN templates : JobsOf(g) = {}}
Expendable == {g \in DOMAIN templates : ~Protected(g) /\ ~Announced(g)}
Retirable == IF Unbound # {} THEN Unbound ELSE Expendable

-----------------------------------------------------------------------------
Init ==
    /\ desired = None
    /\ templates = << >>
    /\ currentTemplates = << >>
    /\ activeChain = None
    /\ jobs = << >>
    /\ announcements = << >>
    /\ active = NoId
    /\ pending = {}
    /\ nextGen = 1
    /\ nextBinding = 1
    /\ applying = Idle

\* set_desired_pair, once the pair parsed and the observer is up.
SetDesiredPair(pair) ==
    /\ desired' = pair
    /\ UNCHANGED <<templates, currentTemplates, activeChain, jobs, announcements,
                   active, pending, nextGen, nextBinding, applying>>

\* begin_template_session: bindings and the active one outlive the session.
\* A TemplateRx task that was inside apply_to_template is gone with the old one.
BeginTemplateSession ==
    /\ currentTemplates' = << >>
    /\ activeChain' = None
    /\ announcements' = << >>
    /\ pending' = {}
    /\ applying' = Idle
    /\ UNCHANGED <<desired, templates, jobs, active, nextGen, nextBinding>>

-----------------------------------------------------------------------------
(* apply_to_template *)

\* First lock: the template id stops naming its previous generation.
InvalidateCurrentTemplate(tid, future) ==
    /\ applying = Idle
    /\ currentTemplates' = Without(currentTemplates, {tid})
    /\ applying' = [phase |-> "invalidated", tid |-> tid, future |-> future,
                    pair |-> None]
    /\ UNCHANGED <<desired, templates, activeChain, jobs, announcements,
                   active, pending, nextGen, nextBinding>>

\* Second lock: the pair is copied; the commitment is computed outside it.
ReadDesired ==
    /\ applying.phase = "invalidated"
    /\ desired # None
    /\ applying' = [applying EXCEPT !.phase = "read", !.pair = desired]
    /\ UNCHANGED <<desired, templates, currentTemplates, activeChain, jobs,
                   announcements, active, pending, nextGen, nextBinding>>

\* Every early return: the observer is down, no pair is desired, the outputs
\* are invalid or too many, the commitment is ambiguous, or ids ran out.
RefuseTemplate ==
    /\ applying.phase \in {"invalidated", "read"}
    /\ applying' = Idle
    /\ UNCHANGED <<desired, templates, currentTemplates, activeChain, jobs,
                   announcements, active, pending, nextGen, nextBinding>>

\* remove_template_generation(g), starting from the maps ts and cur.
RemoveGeneration(ts, cur, g) ==
    /\ templates' = Without(ts, {g})
    /\ currentTemplates' = Without(cur, {t \in DOMAIN cur : cur[t] = g})
    /\ jobs' = Without(jobs, JobsOf(g))
    /\ active' = IF active \in JobsOf(g) THEN NoId ELSE active
    /\ pending' = pending \ JobsOf(g)

\* insert_template: the history stays bounded; a protected generation is not
\* retired, and with nothing to retire the incoming one is dropped instead.
InsertDraft(g, draft) ==
    LET ts == Put(templates, g, draft)
        cur == Put(currentTemplates, draft.tid, g)
        retired == IF Retirable # {} THEN Min(Retirable) ELSE g
    IN IF Cardinality(DOMAIN templates) < MaxTemplates
         THEN /\ templates' = ts
              /\ currentTemplates' = cur
              /\ UNCHANGED <<jobs, active, pending>>
         ELSE RemoveGeneration(ts, cur, retired)

\* Third lock: a non-future template inherits the chain that is active now.
InsertTemplate ==
    /\ applying.phase = "read"
    /\ nextGen < MaxId
    /\ InsertDraft(nextGen,
                   [tid |-> applying.tid, pair |-> applying.pair,
                    chain |-> IF applying.future THEN None ELSE activeChain,
                    txCount |-> None])
    /\ nextGen' = nextGen + 1
    /\ applying' = Idle
    /\ UNCHANGED <<desired, activeChain, announcements, nextBinding>>

-----------------------------------------------------------------------------
(* The TemplateRx task between two applications *)

\* discard_template_generation: called for the generation just inserted, when
\* the preview of its job fails, so before any job is bound to it.
DiscardTemplateGeneration(g) ==
    /\ applying = Idle
    /\ g \in Unbound
    /\ RemoveGeneration(templates, currentTemplates, g)
    /\ UNCHANGED <<desired, activeChain, announcements, nextGen, nextBinding,
                   applying>>

\* record_transaction_count: the first answer for a generation is the last.
RecordTransactionCount(g, n) ==
    /\ applying = Idle
    /\ templates' = [x \in DOMAIN templates |->
                       IF x = g /\ templates[x].txCount = None
                         THEN [templates[x] EXCEPT !.txCount = n]
                         ELSE templates[x]]
    /\ UNCHANGED <<desired, currentTemplates, activeChain, jobs, announcements,
                   active, pending, nextGen, nextBinding, applying>>

\* Mutant of RecordChainState: a later prevhash rewrites bindings as well.
RecordChainStateEverywhere(tid, chain) ==
    LET IsCurrent(g) == tid \in DOMAIN currentTemplates /\ currentTemplates[tid] = g
    IN /\ applying = Idle
       /\ activeChain' = chain
       /\ templates' = [g \in DOMAIN templates |->
                          IF IsCurrent(g) THEN [templates[g] EXCEPT !.chain = chain]
                                          ELSE templates[g]]
       /\ jobs' = [b \in DOMAIN jobs |->
                     IF IsCurrent(jobs[b].gen) THEN [jobs[b] EXCEPT !.chain = chain]
                                               ELSE jobs[b]]
       /\ UNCHANGED <<desired, currentTemplates, announcements, active, pending,
                      nextGen, nextBinding, applying>>

\* record_chain_state: the draft follows every prevhash of its template, a
\* binding only the first one it sees.
RecordChainState(tid, chain) ==
    LET IsCurrent(g) == tid \in DOMAIN currentTemplates /\ currentTemplates[tid] = g
    IN /\ applying = Idle
       /\ activeChain' = chain
       /\ templates' = [g \in DOMAIN templates |->
                          IF IsCurrent(g) THEN [templates[g] EXCEPT !.chain = chain]
                                          ELSE templates[g]]
       /\ jobs' = [b \in DOMAIN jobs |->
                     IF IsCurrent(jobs[b].gen) /\ jobs[b].chain = None
                       THEN [jobs[b] EXCEPT !.chain = chain]
                       ELSE jobs[b]]
       /\ UNCHANGED <<desired, currentTemplates, announcements, active, pending,
                      nextGen, nextBinding, applying>>

\* announce_job
Enqueue(queue, ann) ==
    Append(IF Len(queue) >= MaxAnnouncements THEN Tail(queue) ELSE queue, ann)

\* create_job_binding succeeds for a retained generation with an RSK payload.
Bindable(g) ==
    /\ g \in DOMAIN templates
    /\ templates[g].pair \in RskPairs
    /\ nextBinding < MaxId

\* Mutant of InsertJob: the limit is tested before the push, with <=.
InsertJobPastLimit(b, binding) ==
    LET all == Put(jobs, b, binding)
        candidates == DOMAIN all \ (pending \cup {active})
    IN jobs' = IF Cardinality(DOMAIN jobs) <= MaxJobs
                 THEN all
                 ELSE Without(all, {Min(candidates)})

\* insert_job: the oldest binding that is neither active nor pending is retired.
\* The new one is a candidate too.
InsertJob(b, binding) ==
    LET all == Put(jobs, b, binding)
        candidates == DOMAIN all \ (pending \cup {active})
    IN jobs' = IF Cardinality(DOMAIN jobs) < MaxJobs
                 THEN all
                 ELSE Without(all, {Min(candidates)})

\* bind_job_generation returning true
BindJobGeneration(job, g, coinbase) ==
    /\ applying = Idle
    /\ Bindable(g)
    /\ InsertJob(nextBinding,
                 [job |-> job, tid |-> templates[g].tid, gen |-> g,
                  chain |-> templates[g].chain, coinbase |-> coinbase])
    /\ announcements' = Enqueue(announcements, [job |-> job, binding |-> nextBinding])
    /\ nextBinding' = nextBinding + 1
    /\ UNCHANGED <<desired, templates, currentTemplates, activeChain, active,
                   pending, nextGen, applying>>

\* announce_unbound_job
AnnounceUnboundJob(job) ==
    /\ applying = Idle
    /\ announcements' = Enqueue(announcements, [job |-> job, binding |-> NoId])
    /\ UNCHANGED <<desired, templates, currentTemplates, activeChain, jobs, active,
                   pending, nextGen, nextBinding, applying>>

-----------------------------------------------------------------------------
(* The translator and the bridge *)

AnnouncedAt(job) == {i \in 1 .. Len(announcements) : announcements[i].job = job}

\* What claim_job_binding_ returns.
ClaimedBinding(job) ==
    IF AnnouncedAt(job) = {} THEN NoId
                             ELSE announcements[Min(AnnouncedAt(job))].binding

\* Mutant of ClaimJobBinding: a binding that was retired is marked pending.
ClaimRetiredBinding(job) ==
    /\ announcements' =
         IF AnnouncedAt(job) = {} THEN announcements
         ELSE SubSeq(announcements, Min(AnnouncedAt(job)) + 1, Len(announcements))
    /\ pending' = pending \cup ({ClaimedBinding(job)} \ {NoId})
    /\ UNCHANGED <<desired, templates, currentTemplates, activeChain, jobs, active,
                   nextGen, nextBinding, applying>>

\* claim_job_binding_pending: announcements up to the claimed one are dropped.
ClaimJobBinding(job) ==
    /\ announcements' =
         IF AnnouncedAt(job) = {} THEN announcements
         ELSE SubSeq(announcements, Min(AnnouncedAt(job)) + 1, Len(announcements))
    /\ pending' = pending \cup ({ClaimedBinding(job)} \cap DOMAIN jobs)
    /\ UNCHANGED <<desired, templates, currentTemplates, activeChain, jobs, active,
                   nextGen, nextBinding, applying>>

\* set_active_job_binding: a binding that was retired meanwhile is not active.
SetActiveJobBinding(b) ==
    /\ pending' = pending \ {b}
    /\ active' = IF b \in DOMAIN jobs THEN b ELSE NoId
    /\ UNCHANGED <<desired, templates, currentTemplates, activeChain, jobs,
                   announcements, nextGen, nextBinding, applying>>

\* clear_pending_job_binding
ClearPendingJobBinding(b) ==
    /\ pending' = pending \ {b}
    /\ UNCHANGED <<desired, templates, currentTemplates, activeChain, jobs,
                   announcements, active, nextGen, nextBinding, applying>>

-----------------------------------------------------------------------------
IssuedBindings == 1 .. (nextBinding - 1)

Apply ==
    \/ \E tid \in TemplateIds, future \in BOOLEAN :
           InvalidateCurrentTemplate(tid, future)
    \/ ReadDesired
    \/ RefuseTemplate
    \/ InsertTemplate

TemplateTask ==
    \/ \E g \in DOMAIN templates : DiscardTemplateGeneration(g)
    \/ \E g \in DOMAIN templates, n \in TxCounts : RecordTransactionCount(g, n)
    \/ \E tid \in TemplateIds, chain \in Chains : RecordChainState(tid, chain)
    \/ \E job \in JobIds, g \in DOMAIN templates, coinbase \in Coinbases :
           BindJobGeneration(job, g, coinbase)
    \/ \E job \in JobIds : AnnounceUnboundJob(job)

MinerSide ==
    \/ \E job \in JobIds : ClaimJobBinding(job)
    \/ \E b \in IssuedBindings \cup {NoId} : SetActiveJobBinding(b)
    \/ \E b \in IssuedBindings : ClearPendingJobBinding(b)

Next ==
    \/ \E pair \in Pairs : SetDesiredPair(pair)
    \/ BeginTemplateSession
    \/ Apply
    \/ TemplateTask
    \/ MinerSide

Spec == Init /\ [][Next]_contextVars

-----------------------------------------------------------------------------
(* Properties *)

\* The shape of every ContextState field, and every identifier below its counter.
TypeOK ==
    /\ desired \in Pairs \cup {None}
    /\ nextGen \in 1 .. MaxId
    /\ nextBinding \in 1 .. MaxId
    /\ templates \in [DOMAIN templates -> TemplateDraft]
    /\ DOMAIN templates \subseteq 1 .. (nextGen - 1)
    /\ currentTemplates \in [DOMAIN currentTemplates -> Ids]
    /\ DOMAIN currentTemplates \subseteq TemplateIds
    /\ activeChain \in Chains \cup {None}
    /\ jobs \in [DOMAIN jobs -> JobBinding]
    /\ DOMAIN jobs \subseteq IssuedBindings
    /\ announcements \in Seq(Announcement)
    /\ active \in Ids \cup {NoId}
    /\ pending \subseteq Ids
    /\ applying \in ApplyState
    /\ (applying.phase # "idle") => applying.tid \in TemplateIds
    /\ (applying.phase = "read") => applying.pair \in Pairs

\* resolve_context can follow every binding: the generation it names is
\* retained, still describes the same template and carries an RSK payload.
BindingsResolve ==
    \A b \in DOMAIN jobs :
        /\ jobs[b].gen \in DOMAIN templates
        /\ templates[jobs[b].gen].tid = jobs[b].tid
        /\ templates[jobs[b].gen].pair \in RskPairs

\* The active and the pending bindings are retained, so the protection that
\* eviction derives from them is never derived from a dangling identifier.
ProtectionIsLive ==
    /\ active \in DOMAIN jobs \cup {NoId}
    /\ pending \subseteq DOMAIN jobs

\* A template id names a retained generation of that same template.
CurrentTemplatesResolve ==
    \A tid \in DOMAIN currentTemplates :
        /\ currentTemplates[tid] \in DOMAIN templates
        /\ templates[currentTemplates[tid]].tid = tid

\* What every reader of the context relies on: no operation, eviction and
\* session change included, leaves a reference to something removed.
ContextIntegrity == BindingsResolve /\ ProtectionIsLive /\ CurrentTemplatesResolve

\* The history is bounded although bound, announced and protected entries are
\* spared: insert_template and insert_job always find something to retire.
BoundedHistory ==
    /\ Cardinality(DOMAIN templates) <= MaxTemplates
    /\ Cardinality(DOMAIN jobs) <= MaxJobs
    /\ Len(announcements) <= MaxAnnouncements

\* No step, whoever takes it, retires the binding behind the miners' last
\* notify or behind a notify still queued, nor the template either needs.
KeepsProtected ==
    \A b \in DOMAIN jobs :
        b \in pending \cup {active} =>
            /\ b \in DOMAIN jobs'
            /\ jobs[b].gen \in DOMAIN templates'

ProtectedKept == [][KeepsProtected]_contextVars

\* A share observed now or later against a binding is rebuilt from the same
\* data: identifiers are not reused, pair, template, job and coinbase never
\* change, and chain and transaction count are written at most once.
KeepsBindings ==
    \A b \in DOMAIN jobs' :
        IF b \in DOMAIN jobs
          THEN /\ jobs'[b] = [jobs[b] EXCEPT !.chain = jobs'[b].chain]
               /\ jobs[b].chain \in {None, jobs'[b].chain}
          ELSE b >= nextBinding

KeepsDrafts ==
    \A g \in DOMAIN templates' :
        IF g \in DOMAIN templates
          THEN /\ templates'[g].tid = templates[g].tid
               /\ templates'[g].pair = templates[g].pair
               /\ templates[g].txCount \in {None, templates'[g].txCount}
          ELSE g >= nextGen

ImmutableContext == [][KeepsBindings /\ KeepsDrafts]_contextVars

=============================================================================
