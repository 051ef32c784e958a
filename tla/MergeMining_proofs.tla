--------------------------- MODULE MergeMining_proofs ---------------------------
(* Proofs about the merge-mining context, for any number of templates, jobs,   *)
(* announcements and identifiers, and about the proofs its observer hands out. *)
EXTENDS Observer, FiniteSetTheorems, SequenceTheorems, WellFoundedInduction, TLAPS

-----------------------------------------------------------------------------
(* Lemmas about the operators *)

\* The oldest entry of a non-empty set of identifiers is one of its entries.
LEMMA MinIsMember ==
    ASSUME NEW S \in SUBSET Nat, S # {}
    PROVE  Min(S) \in S
<1>1. \E x \in S : \A y \in S : ~ (<<y, x>> \in OpToRel(<, Nat))
  BY WFMin, NatLessThanWellFounded, Zenon
<1>2. PICK x \in S : \A y \in S : ~ (<<y, x>> \in OpToRel(<, Nat))
  BY <1>1
<1>3. \A y \in S : x =< y
  <2> TAKE y \in S
  <2>1. x \in Nat /\ y \in Nat /\ <<y, x>> \in Nat \X Nat
    OBVIOUS
  <2>2. ~(y < x)
    BY <2>1, <1>2 DEF OpToRel
  <2> QED BY <2>1, <2>2
<1> QED BY <1>3 DEF Min

-----------------------------------------------------------------------------
(* Type correctness *)

\* A position the claim finds is a position of the announcement queue.
LEMMA ClaimPosition ==
    ASSUME TypeOK, NEW job, AnnouncedAt(job) # {}
    PROVE  /\ Min(AnnouncedAt(job)) \in 1 .. Len(announcements)
           /\ announcements[Min(AnnouncedAt(job))].job = job
           /\ announcements[Min(AnnouncedAt(job))] \in Announcement
<1>1. Len(announcements) \in Nat
  BY DEF TypeOK
<1>2. AnnouncedAt(job) \in SUBSET Nat
  BY <1>1 DEF AnnouncedAt
<1>3. Min(AnnouncedAt(job)) \in AnnouncedAt(job)
  BY <1>2, MinIsMember
<1> QED BY <1>1, <1>3 DEF AnnouncedAt, TypeOK

\* Appending to the bounded queue keeps its entries announcements.
LEMMA EnqueueType ==
    ASSUME NEW anns \in Seq(Announcement), NEW ann \in Announcement
    PROVE  /\ Enqueue(anns, ann) \in Seq(Announcement)
           /\ Len(anns) <= MaxAnnouncements
                => Len(Enqueue(anns, ann)) <= MaxAnnouncements
<1>1. CASE Len(anns) >= MaxAnnouncements
  <2>1. anns # << >>
    BY <1>1, ContextAssumption
  <2>2. Tail(anns) \in Seq(Announcement) /\ Len(Tail(anns)) = Len(anns) - 1
    BY <2>1
  <2> QED BY <1>1, <2>2, ContextAssumption DEF Enqueue
<1>2. CASE ~(Len(anns) >= MaxAnnouncements)
  BY <1>2, ContextAssumption DEF Enqueue
<1> QED BY <1>1, <1>2

\* Removing a generation leaves well-typed maps, whatever the generation.
LEMMA RemoveGenerationType ==
    ASSUME TypeOK, NEW ts, NEW cur, NEW g, NEW n \in 1 .. MaxId,
           ts \in [DOMAIN ts -> TemplateDraft], DOMAIN ts \subseteq 1 .. (n - 1),
           cur \in [DOMAIN cur -> Ids], DOMAIN cur \subseteq TemplateIds,
           RemoveGeneration(ts, cur, g)
    PROVE  /\ templates' \in [DOMAIN templates' -> TemplateDraft]
           /\ DOMAIN templates' \subseteq 1 .. (n - 1)
           /\ currentTemplates' \in [DOMAIN currentTemplates' -> Ids]
           /\ DOMAIN currentTemplates' \subseteq TemplateIds
           /\ jobs' \in [DOMAIN jobs' -> JobBinding]
           /\ DOMAIN jobs' \subseteq IssuedBindings
           /\ active' \in Ids \cup {NoId}
           /\ pending' \subseteq Ids
<1>1. /\ templates' \in [DOMAIN templates' -> TemplateDraft]
      /\ DOMAIN templates' \subseteq 1 .. (n - 1)
  BY DEF RemoveGeneration, Without, Restrict
<1>2. /\ currentTemplates' \in [DOMAIN currentTemplates' -> Ids]
      /\ DOMAIN currentTemplates' \subseteq TemplateIds
  BY DEF RemoveGeneration, Without, Restrict
<1>3. /\ jobs' \in [DOMAIN jobs' -> JobBinding]
      /\ DOMAIN jobs' \subseteq IssuedBindings
  BY DEF RemoveGeneration, Without, Restrict, TypeOK
<1>4. active' \in Ids \cup {NoId} /\ pending' \subseteq Ids
  BY DEF RemoveGeneration, TypeOK
<1> QED BY <1>1, <1>2, <1>3, <1>4

\* Inserting a draft under a fresh generation leaves well-typed maps.
LEMMA InsertDraftType ==
    ASSUME TypeOK, nextGen < MaxId, NEW draft \in TemplateDraft,
           InsertDraft(nextGen, draft)
    PROVE  /\ templates' \in [DOMAIN templates' -> TemplateDraft]
           /\ DOMAIN templates' \subseteq 1 .. nextGen
           /\ currentTemplates' \in [DOMAIN currentTemplates' -> Ids]
           /\ DOMAIN currentTemplates' \subseteq TemplateIds
           /\ jobs' \in [DOMAIN jobs' -> JobBinding]
           /\ DOMAIN jobs' \subseteq IssuedBindings
           /\ active' \in Ids \cup {NoId}
           /\ pending' \subseteq Ids
<1> DEFINE ts == Put(templates, nextGen, draft)
           cur == Put(currentTemplates, draft.tid, nextGen)
           retired == IF Retirable # {} THEN Min(Retirable) ELSE nextGen
<1>0. nextGen \in Ids /\ nextGen + 1 \in 1 .. MaxId /\ (nextGen + 1) - 1 = nextGen
  BY ContextAssumption DEF TypeOK, Ids
<1>1. ts \in [DOMAIN ts -> TemplateDraft] /\ DOMAIN ts \subseteq 1 .. nextGen
  BY <1>0 DEF TypeOK, Put
<1>2. draft.tid \in TemplateIds
  BY DEF TemplateDraft
<1>3. cur \in [DOMAIN cur -> Ids] /\ DOMAIN cur \subseteq TemplateIds
  BY <1>0, <1>2 DEF TypeOK, Put
<1>4. CASE Cardinality(DOMAIN templates) < MaxTemplates
  <2>1. templates' = ts /\ currentTemplates' = cur /\ UNCHANGED <<jobs, active, pending>>
    BY <1>4 DEF InsertDraft
  <2> QED BY <2>1, <1>1, <1>3 DEF TypeOK
<1>5. CASE ~(Cardinality(DOMAIN templates) < MaxTemplates)
  <2>1. RemoveGeneration(ts, cur, retired)
    BY <1>5 DEF InsertDraft
  <2> HIDE DEF ts, cur, retired
  <2> QED BY <2>1, <1>0, <1>1, <1>3, RemoveGenerationType
<1> QED BY <1>4, <1>5

\* Filling in a transaction count or a chain keeps a draft or binding typed.
LEMMA UpdatedEntries ==
    ASSUME NEW n \in TxCounts \cup {None}, NEW chain \in Chains \cup {None}
    PROVE  /\ \A d \in TemplateDraft : /\ [d EXCEPT !.txCount = n] \in TemplateDraft
                                       /\ [d EXCEPT !.chain = chain] \in TemplateDraft
           /\ \A j \in JobBinding : [j EXCEPT !.chain = chain] \in JobBinding
BY DEF TemplateDraft, JobBinding

\* The binding inserted and the one retired leave a well-typed map.
LEMMA InsertJobType ==
    ASSUME TypeOK, nextBinding < MaxId, NEW binding \in JobBinding,
           InsertJob(nextBinding, binding)
    PROVE  /\ jobs' \in [DOMAIN jobs' -> JobBinding]
           /\ DOMAIN jobs' \subseteq 1 .. nextBinding
<1> DEFINE all == Put(jobs, nextBinding, binding)
<1>1. nextBinding \in 1 .. nextBinding /\ IssuedBindings \subseteq 1 .. nextBinding
  BY DEF TypeOK, IssuedBindings
<1>2. all \in [DOMAIN all -> JobBinding] /\ DOMAIN all \subseteq 1 .. nextBinding
  BY <1>1 DEF TypeOK, Put
<1>3. jobs' = all \/ \E x : jobs' = Without(all, {x})
  BY DEF InsertJob
<1> QED BY <1>2, <1>3 DEF Without, Restrict

\* Every field keeps its type in every step of every caller.
LEMMA TypeStep ==
    ASSUME TypeOK, [Next]_contextVars
    PROVE  TypeOK'
<1> USE ContextAssumption
<1>1. ASSUME NEW pair \in Pairs, SetDesiredPair(pair) PROVE TypeOK'
  BY <1>1 DEF SetDesiredPair, TypeOK, IssuedBindings
<1>2. CASE BeginTemplateSession
  <2>1. Idle \in ApplyState /\ Idle.phase = "idle"
    BY DEF Idle, ApplyState
  <2> QED BY <1>2, <2>1 DEF BeginTemplateSession, TypeOK, IssuedBindings
<1>3. ASSUME NEW tid \in TemplateIds, NEW future \in BOOLEAN,
             InvalidateCurrentTemplate(tid, future)
      PROVE  TypeOK'
  <2>1. /\ currentTemplates' \in [DOMAIN currentTemplates' -> Ids]
        /\ DOMAIN currentTemplates' \subseteq TemplateIds
    BY <1>3 DEF InvalidateCurrentTemplate, TypeOK, Without, Restrict
  <2>2. /\ applying' \in ApplyState
        /\ applying'.tid = tid
        /\ applying'.phase = "invalidated"
    BY <1>3 DEF InvalidateCurrentTemplate, ApplyState
  <2> QED BY <1>3, <2>1, <2>2 DEF InvalidateCurrentTemplate, TypeOK, IssuedBindings
<1>4. CASE ReadDesired
  <2>1. desired \in Pairs
    BY <1>4 DEF ReadDesired, TypeOK
  <2>2. /\ applying' \in ApplyState
        /\ applying'.tid = applying.tid
        /\ applying'.pair = desired
    BY <1>4, <2>1 DEF ReadDesired, TypeOK, ApplyState
  <2> QED BY <1>4, <2>1, <2>2 DEF ReadDesired, TypeOK, IssuedBindings
<1>5. CASE RefuseTemplate
  <2>1. Idle \in ApplyState /\ Idle.phase = "idle"
    BY DEF Idle, ApplyState
  <2> QED BY <1>5, <2>1 DEF RefuseTemplate, TypeOK, IssuedBindings
<1>6. CASE InsertTemplate
  <2> DEFINE draft == [tid |-> applying.tid, pair |-> applying.pair,
                       chain |-> IF applying.future THEN None ELSE activeChain,
                       txCount |-> None]
  <2>1. draft \in TemplateDraft
    BY <1>6 DEF InsertTemplate, TypeOK, TemplateDraft
  <2>2. InsertDraft(nextGen, draft) /\ nextGen < MaxId
    BY <1>6 DEF InsertTemplate
  <2>3. nextGen' \in 1 .. MaxId /\ nextGen' - 1 = nextGen
    BY <1>6 DEF InsertTemplate, TypeOK
  <2>4. Idle \in ApplyState /\ Idle.phase = "idle"
    BY DEF Idle, ApplyState
  <2> HIDE DEF draft
  <2>5. /\ templates' \in [DOMAIN templates' -> TemplateDraft]
        /\ DOMAIN templates' \subseteq 1 .. (nextGen' - 1)
        /\ currentTemplates' \in [DOMAIN currentTemplates' -> Ids]
        /\ DOMAIN currentTemplates' \subseteq TemplateIds
        /\ jobs' \in [DOMAIN jobs' -> JobBinding]
        /\ DOMAIN jobs' \subseteq IssuedBindings
        /\ active' \in Ids \cup {NoId}
        /\ pending' \subseteq Ids
    BY <2>1, <2>2, <2>3, InsertDraftType
  <2> QED BY <1>6, <2>3, <2>4, <2>5 DEF InsertTemplate, TypeOK, IssuedBindings
<1>7. ASSUME NEW g \in DOMAIN templates, DiscardTemplateGeneration(g) PROVE TypeOK'
  <2>1. RemoveGeneration(templates, currentTemplates, g)
    BY <1>7 DEF DiscardTemplateGeneration
  <2>2. /\ templates' \in [DOMAIN templates' -> TemplateDraft]
        /\ DOMAIN templates' \subseteq 1 .. (nextGen - 1)
        /\ currentTemplates' \in [DOMAIN currentTemplates' -> Ids]
        /\ DOMAIN currentTemplates' \subseteq TemplateIds
        /\ jobs' \in [DOMAIN jobs' -> JobBinding]
        /\ DOMAIN jobs' \subseteq IssuedBindings
        /\ active' \in Ids \cup {NoId}
        /\ pending' \subseteq Ids
    BY <2>1, RemoveGenerationType DEF TypeOK
  <2> QED BY <1>7, <2>2 DEF DiscardTemplateGeneration, TypeOK, IssuedBindings
<1>8. ASSUME NEW g \in DOMAIN templates, NEW n \in TxCounts,
             RecordTransactionCount(g, n)
      PROVE  TypeOK'
  <2>1. /\ templates' \in [DOMAIN templates' -> TemplateDraft]
        /\ DOMAIN templates' = DOMAIN templates
    <3>1. \A x \in DOMAIN templates : templates[x] \in TemplateDraft
      BY DEF TypeOK
    <3>2. \A x \in DOMAIN templates : [templates[x] EXCEPT !.txCount = n] \in TemplateDraft
      BY <3>1, UpdatedEntries
    <3> QED BY <1>8, <3>1, <3>2 DEF RecordTransactionCount
  <2> QED BY <1>8, <2>1 DEF RecordTransactionCount, TypeOK, IssuedBindings
<1>9. ASSUME NEW tid \in TemplateIds, NEW chain \in Chains,
             RecordChainState(tid, chain)
      PROVE  TypeOK'
  <2>1. /\ templates' \in [DOMAIN templates' -> TemplateDraft]
        /\ DOMAIN templates' = DOMAIN templates
    <3>1. \A x \in DOMAIN templates : templates[x] \in TemplateDraft
      BY DEF TypeOK
    <3>2. \A x \in DOMAIN templates : [templates[x] EXCEPT !.chain = chain] \in TemplateDraft
      BY <3>1, UpdatedEntries
    <3> QED BY <1>9, <3>1, <3>2 DEF RecordChainState
  <2>2. /\ jobs' \in [DOMAIN jobs' -> JobBinding]
        /\ DOMAIN jobs' = DOMAIN jobs
    <3>1. \A b \in DOMAIN jobs : jobs[b] \in JobBinding
      BY DEF TypeOK
    <3>2. \A b \in DOMAIN jobs : [jobs[b] EXCEPT !.chain = chain] \in JobBinding
      BY <3>1, UpdatedEntries
    <3> QED BY <1>9, <3>1, <3>2 DEF RecordChainState
  <2> QED BY <1>9, <2>1, <2>2 DEF RecordChainState, TypeOK, IssuedBindings
<1>10. ASSUME NEW job \in JobIds, NEW g \in DOMAIN templates, NEW coinbase \in Coinbases,
              BindJobGeneration(job, g, coinbase)
       PROVE  TypeOK'
  <2> DEFINE binding == [job |-> job, tid |-> templates[g].tid, gen |-> g,
                         chain |-> templates[g].chain, coinbase |-> coinbase]
             ann == [job |-> job, binding |-> nextBinding]
  <2>1. binding \in JobBinding
    BY DEF TypeOK, TemplateDraft, JobBinding, Ids
  <2>2. nextBinding < MaxId /\ InsertJob(nextBinding, binding)
    BY <1>10 DEF BindJobGeneration, Bindable
  <2>3. nextBinding' \in 1 .. MaxId /\ nextBinding' - 1 = nextBinding
    <3>1. nextBinding' = nextBinding + 1
      BY <1>10 DEF BindJobGeneration
    <3>2. nextBinding \in 1 .. MaxId
      BY DEF TypeOK
    <3> QED BY <2>2, <3>1, <3>2
  <2>4. ann \in Announcement
    BY <2>2 DEF Announcement, TypeOK, Ids
  <2>5. announcements' \in Seq(Announcement)
    BY <1>10, <2>4, EnqueueType DEF BindJobGeneration, TypeOK
  <2> HIDE DEF binding
  <2>6. /\ jobs' \in [DOMAIN jobs' -> JobBinding]
        /\ DOMAIN jobs' \subseteq 1 .. (nextBinding' - 1)
    BY <2>1, <2>2, <2>3, InsertJobType
  <2> QED BY <1>10, <2>3, <2>5, <2>6 DEF BindJobGeneration, TypeOK, IssuedBindings
<1>11. ASSUME NEW job \in JobIds, AnnounceUnboundJob(job) PROVE TypeOK'
  <2>1. [job |-> job, binding |-> NoId] \in Announcement
    BY DEF Announcement
  <2>2. announcements' \in Seq(Announcement)
    BY <1>11, <2>1, EnqueueType DEF AnnounceUnboundJob, TypeOK
  <2> QED BY <1>11, <2>2 DEF AnnounceUnboundJob, TypeOK, IssuedBindings
<1>12. ASSUME NEW job \in JobIds, ClaimJobBinding(job) PROVE TypeOK'
  <2>0. announcements \in Seq(Announcement)
    BY DEF TypeOK
  <2>1. announcements' \in Seq(Announcement)
    <3>1. CASE AnnouncedAt(job) = {}
      BY <1>12, <2>0, <3>1 DEF ClaimJobBinding
    <3>2. CASE AnnouncedAt(job) # {}
      <4> DEFINE first == Min(AnnouncedAt(job))
      <4>1. first \in 1 .. Len(announcements)
        BY <3>2, ClaimPosition
      <4>2. announcements' = SubSeq(announcements, first + 1, Len(announcements))
        BY <1>12, <3>2 DEF ClaimJobBinding
      <4> HIDE DEF first
      <4> QED BY <2>0, <4>1, <4>2
    <3> QED BY <3>1, <3>2
  <2>2. pending' \subseteq Ids
    BY <1>12 DEF ClaimJobBinding, TypeOK, IssuedBindings, Ids
  <2> QED BY <1>12, <2>1, <2>2 DEF ClaimJobBinding, TypeOK, IssuedBindings
<1>13. ASSUME NEW b \in IssuedBindings \cup {NoId}, SetActiveJobBinding(b) PROVE TypeOK'
  <2>1. active' \in Ids \cup {NoId}
    BY <1>13 DEF SetActiveJobBinding, TypeOK, IssuedBindings, Ids
  <2> QED BY <1>13, <2>1 DEF SetActiveJobBinding, TypeOK, IssuedBindings
<1>14. ASSUME NEW b \in IssuedBindings, ClearPendingJobBinding(b) PROVE TypeOK'
  BY <1>14 DEF ClearPendingJobBinding, TypeOK, IssuedBindings
<1>15. CASE UNCHANGED contextVars
  BY <1>15 DEF contextVars, TypeOK, IssuedBindings
<1> QED
  BY <1>1, <1>2, <1>3, <1>4, <1>5, <1>6, <1>7, <1>8, <1>9, <1>10, <1>11, <1>12,
     <1>13, <1>14, <1>15
  DEF Next, Apply, TemplateTask, MinerSide

\* Every reachable context is well typed: no identifier is at or past its
\* counter, and no map, queue or set holds a value of another kind.
THEOREM TypeCorrect == Spec => []TypeOK
<1>1. Init => TypeOK
  BY ContextAssumption DEF Init, TypeOK, Idle, ApplyState, IssuedBindings
<1> QED BY <1>1, TypeStep, PTL DEF Spec

-----------------------------------------------------------------------------
(* The inductive invariant.  ContextIntegrity alone is not inductive: that a   *)
(* new generation or binding does not collide with an old one needs the        *)
(* counters' bounds in TypeOK.                                                 *)

Inv == TypeOK /\ ContextIntegrity

\* No job is bound to a generation that has not been issued yet.
LEMMA FreshGeneration ==
    ASSUME Inv
    PROVE  nextGen \notin DOMAIN templates /\ JobsOf(nextGen) = {}
<1>1. nextGen \in Nat /\ nextGen \notin 1 .. (nextGen - 1)
  BY ContextAssumption DEF Inv, TypeOK
<1>2. nextGen \notin DOMAIN templates
  BY <1>1 DEF Inv, TypeOK
<1> QED BY <1>2 DEF Inv, ContextIntegrity, BindingsResolve, JobsOf

\* The next binding identifier is neither in use, nor active, nor pending.
LEMMA FreshBinding ==
    ASSUME Inv
    PROVE  nextBinding \notin DOMAIN jobs \cup pending \cup {active}
<1>1. nextBinding \in Nat \ {0} /\ nextBinding \notin 1 .. (nextBinding - 1)
  BY ContextAssumption DEF Inv, TypeOK
<1>2. nextBinding \notin DOMAIN jobs
  BY <1>1 DEF Inv, TypeOK, IssuedBindings
<1> QED BY <1>1, <1>2 DEF Inv, ContextIntegrity, ProtectionIsLive, NoId

\* A generation leaves together with its jobs, so no reference is left behind.
LEMMA RemoveGenerationIntegrity ==
    ASSUME NEW ts, NEW cur, NEW g, ProtectionIsLive,
           \A b \in DOMAIN jobs : /\ jobs[b].gen \in DOMAIN ts
                                  /\ ts[jobs[b].gen].tid = jobs[b].tid
                                  /\ ts[jobs[b].gen].pair \in RskPairs,
           \A t \in DOMAIN cur : cur[t] \in DOMAIN ts /\ ts[cur[t]].tid = t,
           RemoveGeneration(ts, cur, g)
    PROVE  ContextIntegrity'
<1>1. /\ DOMAIN templates' = DOMAIN ts \ {g}
      /\ \A x \in DOMAIN templates' : templates'[x] = ts[x]
  BY DEF RemoveGeneration, Without, Restrict
<1>2. /\ DOMAIN jobs' = DOMAIN jobs \ JobsOf(g)
      /\ \A b \in DOMAIN jobs' : jobs'[b] = jobs[b]
  BY DEF RemoveGeneration, Without, Restrict
<1>3. /\ DOMAIN currentTemplates' = DOMAIN cur \ {t \in DOMAIN cur : cur[t] = g}
      /\ \A t \in DOMAIN currentTemplates' : currentTemplates'[t] = cur[t]
  BY DEF RemoveGeneration, Without, Restrict
<1>4. BindingsResolve'
  BY <1>1, <1>2 DEF BindingsResolve, JobsOf
<1>5. ProtectionIsLive'
  BY <1>2 DEF ProtectionIsLive, RemoveGeneration
<1>6. CurrentTemplatesResolve'
  BY <1>1, <1>3 DEF CurrentTemplatesResolve
<1> QED BY <1>4, <1>5, <1>6 DEF ContextIntegrity

\* Adding a generation, retiring one or refusing the new one keeps integrity.
LEMMA InsertDraftIntegrity ==
    ASSUME Inv, NEW draft, InsertDraft(nextGen, draft)
    PROVE  ContextIntegrity'
<1> DEFINE ts == Put(templates, nextGen, draft)
           cur == Put(currentTemplates, draft.tid, nextGen)
           retired == IF Retirable # {} THEN Min(Retirable) ELSE nextGen
<1>1. /\ DOMAIN ts = DOMAIN templates \cup {nextGen}
      /\ ts[nextGen] = draft
      /\ \A x \in DOMAIN templates : ts[x] = templates[x]
  BY FreshGeneration DEF Put
<1>2. /\ DOMAIN cur = DOMAIN currentTemplates \cup {draft.tid}
      /\ cur[draft.tid] = nextGen
      /\ \A t \in DOMAIN cur \ {draft.tid} : cur[t] = currentTemplates[t]
  BY DEF Put
<1> HIDE DEF ts, cur, retired
<1>3. \A b \in DOMAIN jobs : /\ jobs[b].gen \in DOMAIN ts
                             /\ ts[jobs[b].gen].tid = jobs[b].tid
                             /\ ts[jobs[b].gen].pair \in RskPairs
  BY <1>1 DEF Inv, ContextIntegrity, BindingsResolve
<1>4. \A t \in DOMAIN cur : cur[t] \in DOMAIN ts /\ ts[cur[t]].tid = t
  BY <1>1, <1>2 DEF Inv, ContextIntegrity, CurrentTemplatesResolve
<1>5. ProtectionIsLive
  BY DEF Inv, ContextIntegrity
<1>6. CASE Cardinality(DOMAIN templates) < MaxTemplates
  <2>1. templates' = ts /\ currentTemplates' = cur /\ UNCHANGED <<jobs, active, pending>>
    BY <1>6 DEF InsertDraft, ts, cur
  <2> QED BY <2>1, <1>3, <1>4, <1>5
          DEF ContextIntegrity, BindingsResolve, ProtectionIsLive, CurrentTemplatesResolve
<1>7. CASE ~(Cardinality(DOMAIN templates) < MaxTemplates)
  <2>1. RemoveGeneration(ts, cur, retired)
    BY <1>7 DEF InsertDraft, ts, cur, retired
  <2> QED BY <2>1, <1>3, <1>4, <1>5, RemoveGenerationIntegrity
<1> QED BY <1>6, <1>7

\* What insert_job keeps: every old binding but at most one, which is neither
\* active nor pending.
LEMMA InsertJobEntries ==
    ASSUME Inv, NEW binding, InsertJob(nextBinding, binding)
    PROVE  /\ DOMAIN jobs' \subseteq DOMAIN jobs \cup {nextBinding}
           /\ pending \cup ({active} \cap DOMAIN jobs) \subseteq DOMAIN jobs'
           /\ \A b \in DOMAIN jobs' :
                 jobs'[b] = IF b = nextBinding THEN binding ELSE jobs[b]
<1> DEFINE all == Put(jobs, nextBinding, binding)
           candidates == DOMAIN all \ (pending \cup {active})
<1>1. /\ DOMAIN all = DOMAIN jobs \cup {nextBinding}
      /\ \A b \in DOMAIN all : all[b] = IF b = nextBinding THEN binding ELSE jobs[b]
  BY DEF Put
<1>2. candidates \in SUBSET Nat
  BY <1>1 DEF Inv, TypeOK, IssuedBindings
<1>3. nextBinding \in candidates
  BY <1>1, FreshBinding
<1>4. Min(candidates) \notin pending \cup {active}
  BY <1>2, <1>3, MinIsMember
<1>5. pending \subseteq DOMAIN jobs
  BY DEF Inv, ContextIntegrity, ProtectionIsLive
<1>6. jobs' = all \/ jobs' = Without(all, {Min(candidates)})
  BY DEF InsertJob
<1> HIDE DEF all, candidates
<1>7. CASE jobs' = all
  BY <1>1, <1>5, <1>7
<1>8. CASE jobs' = Without(all, {Min(candidates)})
  <2>1. /\ DOMAIN jobs' = DOMAIN all \ {Min(candidates)}
        /\ \A b \in DOMAIN jobs' : jobs'[b] = all[b]
    BY <1>8 DEF Without, Restrict
  <2> QED BY <2>1, <1>1, <1>4, <1>5
<1> QED BY <1>6, <1>7, <1>8

\* Every step of every caller keeps the references of the context resolvable.
LEMMA IntegrityStep ==
    ASSUME Inv, [Next]_contextVars
    PROVE  ContextIntegrity'
<1> USE DEF Inv, ContextIntegrity
<1>1. CASE UNCHANGED <<templates, currentTemplates, jobs, active, pending>>
  BY <1>1 DEF BindingsResolve, ProtectionIsLive, CurrentTemplatesResolve
<1>2. CASE BeginTemplateSession
  BY <1>2 DEF BeginTemplateSession, BindingsResolve, ProtectionIsLive,
              CurrentTemplatesResolve
<1>3. ASSUME NEW tid \in TemplateIds, NEW future \in BOOLEAN,
             InvalidateCurrentTemplate(tid, future)
      PROVE  ContextIntegrity'
  <2>1. /\ DOMAIN currentTemplates' = DOMAIN currentTemplates \ {tid}
        /\ \A t \in DOMAIN currentTemplates' : currentTemplates'[t] = currentTemplates[t]
    BY <1>3 DEF InvalidateCurrentTemplate, Without, Restrict
  <2> QED BY <1>3, <2>1 DEF InvalidateCurrentTemplate, BindingsResolve,
                            ProtectionIsLive, CurrentTemplatesResolve
<1>4. CASE InsertTemplate
  BY <1>4, InsertDraftIntegrity DEF InsertTemplate
<1>5. ASSUME NEW g \in DOMAIN templates, DiscardTemplateGeneration(g)
      PROVE  ContextIntegrity'
  <2>1. RemoveGeneration(templates, currentTemplates, g)
    BY <1>5 DEF DiscardTemplateGeneration
  <2> QED BY <2>1, RemoveGenerationIntegrity DEF BindingsResolve, CurrentTemplatesResolve
<1>6. ASSUME NEW g \in DOMAIN templates, NEW n \in TxCounts, RecordTransactionCount(g, n)
      PROVE  ContextIntegrity'
  <2>1. /\ DOMAIN templates' = DOMAIN templates
        /\ \A x \in DOMAIN templates : /\ templates'[x].tid = templates[x].tid
                                       /\ templates'[x].pair = templates[x].pair
    BY <1>6 DEF RecordTransactionCount, TypeOK, TemplateDraft
  <2> QED BY <1>6, <2>1 DEF RecordTransactionCount, BindingsResolve,
                            ProtectionIsLive, CurrentTemplatesResolve, TypeOK
<1>7. ASSUME NEW tid \in TemplateIds, NEW chain \in Chains, RecordChainState(tid, chain)
      PROVE  ContextIntegrity'
  <2>1. /\ DOMAIN templates' = DOMAIN templates
        /\ \A x \in DOMAIN templates : /\ templates'[x].tid = templates[x].tid
                                       /\ templates'[x].pair = templates[x].pair
    BY <1>7 DEF RecordChainState, TypeOK, TemplateDraft
  <2>2. /\ DOMAIN jobs' = DOMAIN jobs
        /\ \A b \in DOMAIN jobs : /\ jobs'[b].gen = jobs[b].gen
                                  /\ jobs'[b].tid = jobs[b].tid
    BY <1>7 DEF RecordChainState, TypeOK, JobBinding
  <2> QED BY <1>7, <2>1, <2>2 DEF RecordChainState, BindingsResolve,
                                  ProtectionIsLive, CurrentTemplatesResolve
<1>8. ASSUME NEW job \in JobIds, NEW g \in DOMAIN templates, NEW coinbase \in Coinbases,
             BindJobGeneration(job, g, coinbase)
      PROVE  ContextIntegrity'
  <2> DEFINE binding == [job |-> job, tid |-> templates[g].tid, gen |-> g,
                         chain |-> templates[g].chain, coinbase |-> coinbase]
  <2>1. /\ InsertJob(nextBinding, binding)
        /\ templates[g].pair \in RskPairs
        /\ UNCHANGED <<templates, currentTemplates, active, pending>>
    BY <1>8 DEF BindJobGeneration, Bindable
  <2>2. binding.gen = g /\ binding.tid = templates[g].tid
    OBVIOUS
  <2> HIDE DEF binding
  <2>3. /\ DOMAIN jobs' \subseteq DOMAIN jobs \cup {nextBinding}
        /\ pending \cup ({active} \cap DOMAIN jobs) \subseteq DOMAIN jobs'
        /\ \A b \in DOMAIN jobs' :
              jobs'[b] = IF b = nextBinding THEN binding ELSE jobs[b]
    BY <2>1, InsertJobEntries
  <2>4. BindingsResolve'
    BY <2>1, <2>2, <2>3 DEF BindingsResolve
  <2>5. ProtectionIsLive'
    BY <2>1, <2>3 DEF ProtectionIsLive
  <2> QED BY <2>1, <2>4, <2>5 DEF CurrentTemplatesResolve
<1>9. ASSUME NEW job \in JobIds, ClaimJobBinding(job) PROVE ContextIntegrity'
  BY <1>9 DEF ClaimJobBinding, BindingsResolve, ProtectionIsLive, CurrentTemplatesResolve
<1>10. ASSUME NEW b \in IssuedBindings \cup {NoId}, SetActiveJobBinding(b)
       PROVE  ContextIntegrity'
  BY <1>10 DEF SetActiveJobBinding, BindingsResolve, ProtectionIsLive,
               CurrentTemplatesResolve
<1>11. ASSUME NEW b \in IssuedBindings, ClearPendingJobBinding(b) PROVE ContextIntegrity'
  BY <1>11 DEF ClearPendingJobBinding, BindingsResolve, ProtectionIsLive,
               CurrentTemplatesResolve
<1> QED
  BY <1>1, <1>2, <1>3, <1>4, <1>5, <1>6, <1>7, <1>8, <1>9, <1>10, <1>11
  DEF Next, Apply, TemplateTask, MinerSide, SetDesiredPair, ReadDesired,
      RefuseTemplate, AnnounceUnboundJob, contextVars

\* The inductive invariant holds in every reachable context.
THEOREM InvHolds == Spec => []Inv
<1>1. Init => Inv
  BY ContextAssumption
     DEF Init, Inv, TypeOK, Idle, ApplyState, IssuedBindings, ContextIntegrity,
         BindingsResolve, ProtectionIsLive, CurrentTemplatesResolve
<1>2. Inv /\ [Next]_contextVars => Inv'
  BY TypeStep, IntegrityStep DEF Inv
<1> QED BY <1>1, <1>2, PTL DEF Spec

\* Every reference of the context resolves in every reachable state: a binding
\* to its own template generation, the active and the pending bindings to
\* retained jobs, a template identifier to a retained generation.
THEOREM ContextIntegrityHolds == Spec => []ContextIntegrity
<1>1. Inv => ContextIntegrity
  BY DEF Inv
<1> QED BY <1>1, InvHolds, PTL

-----------------------------------------------------------------------------
(* Bounds *)

\* What a full history retires for an incoming generation: a retained entry
\* without a job, one neither protected nor announced, or the incoming entry.
LEMMA RetiredGeneration ==
    ASSUME Inv, NEW g, g = IF Retirable # {} THEN Min(Retirable) ELSE nextGen
    PROVE  /\ g \in DOMAIN templates \cup {nextGen}
           /\ JobsOf(g) = {} \/ ~Protected(g)
<1>1. CASE Retirable = {}
  BY <1>1, FreshGeneration
<1>2. CASE Retirable # {}
  <2>1. Retirable \in SUBSET Nat
    BY DEF Inv, TypeOK, Retirable, Unbound, Expendable
  <2>2. g \in Retirable
    BY <1>2, <2>1, MinIsMember
  <2> QED BY <2>2 DEF Retirable, Unbound, Expendable
<1> QED BY <1>1, <1>2

\* The retained generations and bindings are finitely many.
LEMMA FiniteHistory ==
    ASSUME TypeOK
    PROVE  IsFiniteSet(DOMAIN templates) /\ IsFiniteSet(DOMAIN jobs)
<1>1. nextGen - 1 \in Int /\ nextBinding - 1 \in Int
  BY ContextAssumption DEF TypeOK
<1>2. IsFiniteSet(1 .. (nextGen - 1)) /\ IsFiniteSet(1 .. (nextBinding - 1))
  BY <1>1, FS_Interval
<1> QED BY <1>2, FS_Subset DEF TypeOK, IssuedBindings

\* Replacing one entry of a full set, or adding one to a set that is not full,
\* stays within the limit.
LEMMA WithinLimit ==
    ASSUME NEW S, NEW T, NEW x, NEW y, NEW n \in Nat, IsFiniteSet(S),
           Cardinality(S) <= n,
           \/ Cardinality(S) < n /\ T \subseteq S \cup {x}
           \/ y \in S \cup {x} /\ T \subseteq (S \cup {x}) \ {y}
           \/ T \subseteq S
    PROVE  Cardinality(T) <= n
<1>1. Cardinality(S) \in Nat
  BY FS_CardinalityType
<1>2. /\ IsFiniteSet(S \cup {x})
      /\ Cardinality(S \cup {x}) <= Cardinality(S) + 1
      /\ Cardinality(S \cup {x}) \in Nat
  <2>1. /\ IsFiniteSet(S \cup {x})
        /\ Cardinality(S \cup {x}) =
             IF x \in S THEN Cardinality(S) ELSE Cardinality(S) + 1
    BY FS_AddElement, Zenon
  <2> QED BY <1>1, <2>1
<1>3. CASE Cardinality(S) < n /\ T \subseteq S \cup {x}
  <2>1. Cardinality(T) <= Cardinality(S \cup {x}) /\ IsFiniteSet(T)
    BY <1>2, <1>3, FS_Subset
  <2>2. Cardinality(T) \in Nat
    BY <2>1, FS_CardinalityType
  <2> QED BY <1>1, <1>2, <1>3, <2>1, <2>2
<1>4. CASE y \in S \cup {x} /\ T \subseteq (S \cup {x}) \ {y}
  <2>1. /\ IsFiniteSet((S \cup {x}) \ {y})
        /\ Cardinality((S \cup {x}) \ {y}) = Cardinality(S \cup {x}) - 1
    BY <1>2, <1>4, FS_RemoveElement
  <2>2. Cardinality(T) <= Cardinality((S \cup {x}) \ {y}) /\ IsFiniteSet(T)
    BY <1>4, <2>1, FS_Subset
  <2>3. Cardinality(T) \in Nat
    BY <2>2, FS_CardinalityType
  <2> QED BY <1>1, <1>2, <2>1, <2>2, <2>3
<1>5. CASE T \subseteq S
  <2>1. Cardinality(T) <= Cardinality(S) /\ IsFiniteSet(T)
    BY <1>5, FS_Subset
  <2>2. Cardinality(T) \in Nat
    BY <2>1, FS_CardinalityType
  <2> QED BY <1>1, <2>1, <2>2
<1> QED BY <1>3, <1>4, <1>5

\* The template history stays within its limit when a draft is inserted, and
\* no binding is added.
LEMMA InsertDraftBound ==
    ASSUME Inv, BoundedHistory, NEW draft, InsertDraft(nextGen, draft)
    PROVE  /\ Cardinality(DOMAIN templates') <= MaxTemplates
           /\ DOMAIN jobs' \subseteq DOMAIN jobs
<1> DEFINE retired == IF Retirable # {} THEN Min(Retirable) ELSE nextGen
<1>1. retired \in DOMAIN templates \cup {nextGen}
  <2> HIDE DEF retired
  <2>1. retired = IF Retirable # {} THEN Min(Retirable) ELSE nextGen
    BY DEF retired
  <2> QED BY <2>1, RetiredGeneration
<1>2. IsFiniteSet(DOMAIN templates) /\ Cardinality(DOMAIN templates) <= MaxTemplates
  BY FiniteHistory DEF Inv, BoundedHistory
<1>3. CASE Cardinality(DOMAIN templates) < MaxTemplates
  <2>1. DOMAIN templates' = DOMAIN templates \cup {nextGen} /\ jobs' = jobs
    BY <1>3 DEF InsertDraft, Put
  <2> QED BY <1>2, <1>3, <2>1, WithinLimit, ContextAssumption
<1>4. CASE ~(Cardinality(DOMAIN templates) < MaxTemplates)
  <2>1. /\ DOMAIN templates' = (DOMAIN templates \cup {nextGen}) \ {retired}
        /\ DOMAIN jobs' \subseteq DOMAIN jobs
    BY <1>4 DEF InsertDraft, RemoveGeneration, Put, Without, Restrict
  <2> HIDE DEF retired
  <2> QED BY <1>1, <1>2, <2>1, WithinLimit, ContextAssumption
<1> QED BY <1>3, <1>4

\* The binding history stays within its limit when a job is bound.
LEMMA InsertJobBound ==
    ASSUME Inv, BoundedHistory, NEW binding, InsertJob(nextBinding, binding)
    PROVE  Cardinality(DOMAIN jobs') <= MaxJobs
<1> DEFINE all == Put(jobs, nextBinding, binding)
           candidates == DOMAIN all \ (pending \cup {active})
<1>1. DOMAIN all = DOMAIN jobs \cup {nextBinding}
  BY DEF Put
<1>2. candidates \in SUBSET Nat /\ nextBinding \in candidates
  BY <1>1, FreshBinding DEF Inv, TypeOK, IssuedBindings
<1>3. Min(candidates) \in DOMAIN jobs \cup {nextBinding}
  BY <1>1, <1>2, MinIsMember
<1>4. IsFiniteSet(DOMAIN jobs) /\ Cardinality(DOMAIN jobs) <= MaxJobs
  BY FiniteHistory DEF Inv, BoundedHistory
<1>5. CASE Cardinality(DOMAIN jobs) < MaxJobs
  <2>1. DOMAIN jobs' = DOMAIN jobs \cup {nextBinding}
    BY <1>1, <1>5 DEF InsertJob
  <2> QED BY <1>4, <1>5, <2>1, WithinLimit, ContextAssumption
<1>6. CASE ~(Cardinality(DOMAIN jobs) < MaxJobs)
  <2>1. jobs' = Without(all, {Min(candidates)})
    BY <1>6 DEF InsertJob
  <2>2. DOMAIN jobs' = (DOMAIN jobs \cup {nextBinding}) \ {Min(candidates)}
    BY <1>1, <2>1 DEF Without, Restrict
  <2> HIDE DEF candidates
  <2> QED BY <1>3, <1>4, <2>2, WithinLimit, ContextAssumption
<1> QED BY <1>5, <1>6

\* Every step keeps templates, bindings and announcements within their limits.
LEMMA BoundStep ==
    ASSUME Inv, BoundedHistory, [Next]_contextVars
    PROVE  BoundedHistory'
<1>0. /\ Cardinality(DOMAIN templates) <= MaxTemplates
      /\ Cardinality(DOMAIN jobs) <= MaxJobs
      /\ Len(announcements) <= MaxAnnouncements
      /\ announcements \in Seq(Announcement)
      /\ IsFiniteSet(DOMAIN templates) /\ IsFiniteSet(DOMAIN jobs)
  BY FiniteHistory DEF Inv, TypeOK, BoundedHistory
<1>1. CASE /\ DOMAIN templates' = DOMAIN templates
           /\ DOMAIN jobs' = DOMAIN jobs
           /\ announcements' = announcements
  BY <1>0, <1>1 DEF BoundedHistory
<1>2. CASE BeginTemplateSession
  BY <1>0, <1>2, ContextAssumption DEF BeginTemplateSession, BoundedHistory
<1>3. CASE InsertTemplate
  <2>1. PICK draft : InsertDraft(nextGen, draft)
    BY <1>3 DEF InsertTemplate
  <2>2. Cardinality(DOMAIN templates') <= MaxTemplates /\ DOMAIN jobs' \subseteq DOMAIN jobs
    BY <2>1, InsertDraftBound
  <2>3. Cardinality(DOMAIN jobs') <= MaxJobs
    BY <1>0, <2>2, WithinLimit, ContextAssumption
  <2> QED BY <1>0, <1>3, <2>2, <2>3 DEF InsertTemplate, BoundedHistory
<1>4. ASSUME NEW g \in DOMAIN templates, DiscardTemplateGeneration(g)
      PROVE  BoundedHistory'
  <2>1. /\ DOMAIN templates' \subseteq DOMAIN templates
        /\ DOMAIN jobs' \subseteq DOMAIN jobs
        /\ announcements' = announcements
    BY <1>4 DEF DiscardTemplateGeneration, RemoveGeneration, Without, Restrict
  <2>2. Cardinality(DOMAIN templates') <= MaxTemplates
    BY <1>0, <2>1, WithinLimit, ContextAssumption
  <2>3. Cardinality(DOMAIN jobs') <= MaxJobs
    BY <1>0, <2>1, WithinLimit, ContextAssumption
  <2> QED BY <1>0, <2>1, <2>2, <2>3 DEF BoundedHistory
<1>5. ASSUME NEW job \in JobIds, NEW g \in DOMAIN templates, NEW coinbase \in Coinbases,
             BindJobGeneration(job, g, coinbase)
      PROVE  BoundedHistory'
  <2>1. PICK binding : InsertJob(nextBinding, binding)
    BY <1>5 DEF BindJobGeneration
  <2>2. Cardinality(DOMAIN jobs') <= MaxJobs
    BY <2>1, InsertJobBound
  <2>3. [job |-> job, binding |-> nextBinding] \in Announcement
    BY <1>5, ContextAssumption DEF BindJobGeneration, Bindable, Inv, TypeOK, Announcement, Ids
  <2>4. Len(announcements') <= MaxAnnouncements
    BY <1>0, <1>5, <2>3, EnqueueType DEF BindJobGeneration
  <2> QED BY <1>0, <1>5, <2>2, <2>4 DEF BindJobGeneration, BoundedHistory
<1>6. ASSUME NEW job \in JobIds, AnnounceUnboundJob(job) PROVE BoundedHistory'
  <2>1. [job |-> job, binding |-> NoId] \in Announcement
    BY DEF Announcement
  <2>2. Len(announcements') <= MaxAnnouncements
    BY <1>0, <1>6, <2>1, EnqueueType DEF AnnounceUnboundJob
  <2> QED BY <1>0, <1>6, <2>2 DEF AnnounceUnboundJob, BoundedHistory
<1>7. ASSUME NEW job \in JobIds, ClaimJobBinding(job) PROVE BoundedHistory'
  <2>1. Len(announcements') <= MaxAnnouncements
    <3>1. CASE AnnouncedAt(job) = {}
      BY <1>0, <1>7, <3>1 DEF ClaimJobBinding
    <3>2. CASE AnnouncedAt(job) # {}
      <4>1. Min(AnnouncedAt(job)) \in 1 .. Len(announcements)
        BY <3>2, ClaimPosition DEF Inv
      <4>2. announcements' =
              SubSeq(announcements, Min(AnnouncedAt(job)) + 1, Len(announcements))
        BY <1>7, <3>2 DEF ClaimJobBinding
      <4>3. Len(announcements') = Len(announcements) - Min(AnnouncedAt(job))
        BY <1>0, <4>1, <4>2
      <4> QED BY <1>0, <4>1, <4>3, ContextAssumption
    <3> QED BY <3>1, <3>2
  <2> QED BY <1>0, <1>7, <2>1 DEF ClaimJobBinding, BoundedHistory
<1>8. CASE \/ \E pair \in Pairs : SetDesiredPair(pair)
           \/ \E tid \in TemplateIds, future \in BOOLEAN :
                 InvalidateCurrentTemplate(tid, future)
           \/ ReadDesired
           \/ RefuseTemplate
           \/ \E g \in DOMAIN templates, n \in TxCounts : RecordTransactionCount(g, n)
           \/ \E tid \in TemplateIds, chain \in Chains : RecordChainState(tid, chain)
           \/ \E b \in IssuedBindings \cup {NoId} : SetActiveJobBinding(b)
           \/ \E b \in IssuedBindings : ClearPendingJobBinding(b)
           \/ UNCHANGED contextVars
  BY <1>1, <1>8
     DEF SetDesiredPair, InvalidateCurrentTemplate, ReadDesired, RefuseTemplate,
         RecordTransactionCount, RecordChainState, SetActiveJobBinding,
         ClearPendingJobBinding, contextVars
<1> QED
  BY <1>2, <1>3, <1>4, <1>5, <1>6, <1>7, <1>8
  DEF Next, Apply, TemplateTask, MinerSide

\* The limits hold in every reachable context although protected, bound and
\* announced entries are spared.
THEOREM BoundedHistoryHolds == Spec => []BoundedHistory
<1>1. Init => BoundedHistory
  BY FS_EmptySet, ContextAssumption DEF Init, BoundedHistory
<1>2. Inv /\ BoundedHistory /\ [Next]_contextVars => BoundedHistory'
  BY BoundStep
<1> QED BY <1>1, <1>2, InvHolds, PTL DEF Spec

-----------------------------------------------------------------------------
(* What no step does *)

\* A generation is only ever removed with no protected binding on it.
LEMMA RemovalSparesProtected ==
    ASSUME NEW ts, NEW cur, NEW g, RemoveGeneration(ts, cur, g),
           DOMAIN templates \subseteq DOMAIN ts, BindingsResolve,
           JobsOf(g) = {} \/ ~Protected(g)
    PROVE  KeepsProtected
<1>1. DOMAIN jobs' = DOMAIN jobs \ JobsOf(g) /\ DOMAIN templates' = DOMAIN ts \ {g}
  BY DEF RemoveGeneration, Without, Restrict
<1>2. \A b \in DOMAIN jobs : b \in pending \cup {active} => b \notin JobsOf(g)
  BY DEF Protected
<1> QED BY <1>1, <1>2 DEF KeepsProtected, BindingsResolve, JobsOf

\* Every step keeps the active and the pending bindings and their templates.
LEMMA ProtectedStep ==
    ASSUME Inv, [Next]_contextVars
    PROVE  KeepsProtected
<1>0. BindingsResolve
  BY DEF Inv, ContextIntegrity
<1>1. CASE DOMAIN templates' = DOMAIN templates /\ DOMAIN jobs' = DOMAIN jobs
  BY <1>0, <1>1 DEF KeepsProtected, BindingsResolve
<1>2. CASE InsertTemplate
  <2> DEFINE retired == IF Retirable # {} THEN Min(Retirable) ELSE nextGen
  <2>1. PICK draft : InsertDraft(nextGen, draft)
    BY <1>2 DEF InsertTemplate
  <2>2. CASE Cardinality(DOMAIN templates) < MaxTemplates
    <3>1. DOMAIN templates' = DOMAIN templates \cup {nextGen} /\ jobs' = jobs
      BY <2>1, <2>2 DEF InsertDraft, Put
    <3> QED BY <1>0, <3>1 DEF KeepsProtected, BindingsResolve
  <2>3. CASE ~(Cardinality(DOMAIN templates) < MaxTemplates)
    <3> DEFINE ts == Put(templates, nextGen, draft)
               cur == Put(currentTemplates, draft.tid, nextGen)
    <3>1. RemoveGeneration(ts, cur, retired)
      BY <2>1, <2>3 DEF InsertDraft
    <3>2. DOMAIN templates \subseteq DOMAIN ts
      BY DEF Put
    <3>3. JobsOf(retired) = {} \/ ~Protected(retired)
      BY RetiredGeneration
    <3> HIDE DEF ts, cur, retired
    <3> QED BY <1>0, <3>1, <3>2, <3>3, RemovalSparesProtected
  <2> QED BY <2>2, <2>3
<1>3. ASSUME NEW g \in DOMAIN templates, DiscardTemplateGeneration(g)
      PROVE  KeepsProtected
  <2>1. RemoveGeneration(templates, currentTemplates, g) /\ JobsOf(g) = {}
    BY <1>3 DEF DiscardTemplateGeneration, Unbound
  <2> QED BY <1>0, <2>1, RemovalSparesProtected
<1>4. ASSUME NEW job \in JobIds, NEW g \in DOMAIN templates, NEW coinbase \in Coinbases,
             BindJobGeneration(job, g, coinbase)
      PROVE  KeepsProtected
  <2>1. PICK binding : InsertJob(nextBinding, binding)
    BY <1>4 DEF BindJobGeneration
  <2>2. pending \cup ({active} \cap DOMAIN jobs) \subseteq DOMAIN jobs'
    BY <2>1, InsertJobEntries
  <2> QED BY <1>0, <1>4, <2>2 DEF BindJobGeneration, KeepsProtected, BindingsResolve
<1>5. CASE \/ \E pair \in Pairs : SetDesiredPair(pair)
           \/ BeginTemplateSession
           \/ \E tid \in TemplateIds, future \in BOOLEAN :
                 InvalidateCurrentTemplate(tid, future)
           \/ ReadDesired
           \/ RefuseTemplate
           \/ \E g \in DOMAIN templates, n \in TxCounts : RecordTransactionCount(g, n)
           \/ \E tid \in TemplateIds, chain \in Chains : RecordChainState(tid, chain)
           \/ \E job \in JobIds : AnnounceUnboundJob(job)
           \/ MinerSide
           \/ UNCHANGED contextVars
  BY <1>1, <1>5
     DEF SetDesiredPair, BeginTemplateSession, InvalidateCurrentTemplate, ReadDesired,
         RefuseTemplate, RecordTransactionCount, RecordChainState, AnnounceUnboundJob,
         MinerSide, ClaimJobBinding, SetActiveJobBinding, ClearPendingJobBinding,
         contextVars
<1> QED BY <1>2, <1>3, <1>4, <1>5 DEF Next, Apply, TemplateTask

\* Under any load, the context behind the miners' work is never evicted.
THEOREM ProtectedKeptHolds == Spec => ProtectedKept
<1>1. Inv /\ [Next]_contextVars => [KeepsProtected]_contextVars
  BY ProtectedStep
<1> QED BY <1>1, InvHolds, PTL DEF Spec, ProtectedKept

\* Every step leaves what a binding and its draft say as it was.
LEMMA ImmutableStep ==
    ASSUME Inv, [Next]_contextVars
    PROVE  KeepsBindings /\ KeepsDrafts
<1>0. /\ \A b \in DOMAIN jobs : jobs[b] \in JobBinding
      /\ \A g \in DOMAIN templates : templates[g] \in TemplateDraft
  BY DEF Inv, TypeOK
<1>1. \A b \in DOMAIN jobs : jobs[b] = [jobs[b] EXCEPT !.chain = jobs[b].chain]
  BY <1>0 DEF JobBinding
<1>2. ASSUME /\ DOMAIN jobs' \subseteq DOMAIN jobs
             /\ \A b \in DOMAIN jobs' : jobs'[b] = jobs[b]
      PROVE  KeepsBindings
  BY <1>1, <1>2 DEF KeepsBindings
<1>3. ASSUME /\ DOMAIN templates' \subseteq DOMAIN templates
             /\ \A g \in DOMAIN templates' : templates'[g] = templates[g]
      PROVE  KeepsDrafts
  BY <1>3 DEF KeepsDrafts
<1>4. CASE UNCHANGED <<templates, jobs>>
  BY <1>2, <1>3, <1>4
<1>5. CASE InsertTemplate
  <2>1. PICK draft : InsertDraft(nextGen, draft)
    BY <1>5 DEF InsertTemplate
  <2>2. /\ DOMAIN jobs' \subseteq DOMAIN jobs
        /\ \A b \in DOMAIN jobs' : jobs'[b] = jobs[b]
    BY <2>1 DEF InsertDraft, RemoveGeneration, Without, Restrict
  <2>3. /\ DOMAIN templates' \subseteq DOMAIN templates \cup {nextGen}
        /\ \A g \in DOMAIN templates' \ {nextGen} : templates'[g] = templates[g]
    <3> DEFINE ts == Put(templates, nextGen, draft)
    <3>1. templates' = ts \/ \E x : templates' = Without(ts, {x})
      BY <2>1 DEF InsertDraft, RemoveGeneration
    <3>2. /\ DOMAIN ts = DOMAIN templates \cup {nextGen}
          /\ \A g \in DOMAIN ts \ {nextGen} : ts[g] = templates[g]
      BY DEF Put
    <3> HIDE DEF ts
    <3> QED BY <3>1, <3>2 DEF Without, Restrict
  <2>4. nextGen \notin DOMAIN templates /\ nextGen >= nextGen
    BY FreshGeneration, ContextAssumption DEF Inv, TypeOK
  <2> QED BY <1>2, <2>2, <2>3, <2>4 DEF KeepsDrafts
<1>6. ASSUME NEW g \in DOMAIN templates, DiscardTemplateGeneration(g)
      PROVE  KeepsBindings /\ KeepsDrafts
  BY <1>2, <1>3, <1>6 DEF DiscardTemplateGeneration, RemoveGeneration, Without, Restrict
<1>7. ASSUME NEW g \in DOMAIN templates, NEW n \in TxCounts, RecordTransactionCount(g, n)
      PROVE  KeepsBindings /\ KeepsDrafts
  <2>1. KeepsBindings
    BY <1>2, <1>7 DEF RecordTransactionCount
  <2>2. KeepsDrafts
    BY <1>0, <1>7 DEF RecordTransactionCount, KeepsDrafts, TemplateDraft
  <2> QED BY <2>1, <2>2
<1>8. ASSUME NEW tid \in TemplateIds, NEW chain \in Chains, RecordChainState(tid, chain)
      PROVE  KeepsBindings /\ KeepsDrafts
  <2>1. KeepsBindings
    <3>1. DOMAIN jobs' = DOMAIN jobs
      BY <1>8 DEF RecordChainState
    <3>2. \A b \in DOMAIN jobs :
             \/ jobs'[b] = jobs[b]
             \/ jobs[b].chain = None /\ jobs'[b] = [jobs[b] EXCEPT !.chain = chain]
      BY <1>8 DEF RecordChainState
    <3>3. \A b \in DOMAIN jobs : [jobs[b] EXCEPT !.chain = chain].chain = chain
      BY <1>0 DEF JobBinding
    <3>4. \A b \in DOMAIN jobs :
             /\ jobs'[b] = [jobs[b] EXCEPT !.chain = jobs'[b].chain]
             /\ jobs[b].chain \in {None, jobs'[b].chain}
      BY <1>1, <3>2, <3>3
    <3> QED BY <3>1, <3>4 DEF KeepsBindings
  <2>2. KeepsDrafts
    BY <1>0, <1>8 DEF RecordChainState, KeepsDrafts, TemplateDraft
  <2> QED BY <2>1, <2>2
<1>9. ASSUME NEW job \in JobIds, NEW g \in DOMAIN templates, NEW coinbase \in Coinbases,
             BindJobGeneration(job, g, coinbase)
      PROVE  KeepsBindings /\ KeepsDrafts
  <2>1. PICK binding : InsertJob(nextBinding, binding)
    BY <1>9 DEF BindJobGeneration
  <2>2. /\ DOMAIN jobs' \subseteq DOMAIN jobs \cup {nextBinding}
        /\ \A b \in DOMAIN jobs' :
              jobs'[b] = IF b = nextBinding THEN binding ELSE jobs[b]
    BY <2>1, InsertJobEntries
  <2>3. nextBinding \notin DOMAIN jobs /\ nextBinding >= nextBinding
    BY FreshBinding, ContextAssumption DEF Inv, TypeOK
  <2>4. KeepsBindings
    BY <1>1, <2>2, <2>3 DEF KeepsBindings
  <2> QED BY <1>3, <1>9, <2>4 DEF BindJobGeneration
<1> QED
  BY <1>4, <1>5, <1>6, <1>7, <1>8, <1>9
  DEF Next, Apply, TemplateTask, MinerSide, SetDesiredPair, BeginTemplateSession,
      InvalidateCurrentTemplate, ReadDesired, RefuseTemplate, AnnounceUnboundJob,
      ClaimJobBinding, SetActiveJobBinding, ClearPendingJobBinding, contextVars

\* The data a proof is rebuilt from never changes under a binding, whatever
\* templates, prevhashes and transaction counts arrive later.
THEOREM ImmutableContextHolds == Spec => ImmutableContext
<1>1. Inv /\ [Next]_contextVars => [KeepsBindings /\ KeepsDrafts]_contextVars
  BY ImmutableStep
<1> QED BY <1>1, InvHolds, PTL DEF Spec, ImmutableContext

-----------------------------------------------------------------------------
(* The proofs the observer hands out *)

\* A sequence over S is one over every larger set.
LEMMA SeqOverMore ==
    ASSUME NEW S, NEW T, S \subseteq T, NEW q \in Seq(S)
    PROVE  q \in Seq(T)
<1>1. Len(q) \in Nat /\ q \in [1 .. Len(q) -> S]
  BY LenProperties
<1>2. q \in [1 .. Len(q) -> T]
  BY <1>1
<1> QED BY <1>1, <1>2 DEF Seq

\* The elements of a sequence are those at its positions.
LEMMA RangeIsPositions ==
    ASSUME NEW S, NEW q \in Seq(S)
    PROVE  /\ Len(q) \in Nat /\ DOMAIN q = 1 .. Len(q)
           /\ Range(q) = {q[i] : i \in 1 .. Len(q)}
<1>1. Len(q) \in Nat /\ DOMAIN q = 1 .. Len(q)
  BY LenProperties
<1> QED BY <1>1 DEF Range

\* Appending adds one position and one element.
LEMMA AppendAdds ==
    ASSUME NEW S, NEW q \in Seq(S), NEW x \in S
    PROVE  /\ Append(q, x) \in Seq(S)
           /\ DOMAIN Append(q, x) = DOMAIN q \cup {Len(q) + 1}
           /\ Len(q) + 1 \notin DOMAIN q
           /\ \A i \in DOMAIN q : Append(q, x)[i] = q[i]
           /\ Append(q, x)[Len(q) + 1] = x
           /\ Range(Append(q, x)) = Range(q) \cup {x}
<1> DEFINE a == Append(q, x)
<1>1. /\ a \in Seq(S) /\ Len(a) = Len(q) + 1 /\ a[Len(q) + 1] = x
      /\ \A i \in 1 .. Len(q) : a[i] = q[i]
  BY AppendProperties, LenProperties
<1> HIDE DEF a
<1>2. /\ Len(q) \in Nat /\ DOMAIN q = 1 .. Len(q) /\ DOMAIN a = 1 .. Len(q) + 1
      /\ Range(q) = {q[i] : i \in 1 .. Len(q)}
      /\ Range(a) = {a[i] : i \in 1 .. Len(q) + 1}
  BY <1>1, RangeIsPositions
<1>3. 1 .. Len(q) + 1 = (1 .. Len(q)) \cup {Len(q) + 1} /\ Len(q) + 1 \notin 1 .. Len(q)
  BY <1>2
<1>4. Range(a) = Range(q) \cup {x}
  BY <1>1, <1>2, <1>3
<1>5. /\ a \in Seq(S) /\ DOMAIN a = DOMAIN q \cup {Len(q) + 1} /\ Len(q) + 1 \notin DOMAIN q
      /\ (\A i \in DOMAIN q : a[i] = q[i]) /\ a[Len(q) + 1] = x
  BY <1>1, <1>2, <1>3
<1> QED BY <1>4, <1>5 DEF a

\* What a bounded memory keeps is a sequence of what it held.
LEMMA BoundedKeeps ==
    ASSUME NEW S, NEW q \in Seq(S), NEW max \in Nat \ {0}
    PROVE  Bounded(q, max) \in Seq(S)
<1>1. Len(q) \in Nat
  BY LenProperties
<1>2. CASE Len(q) >= max
  <2>1. q # << >>
    BY <1>1, <1>2, EmptySeq
  <2> QED BY <1>2, <2>1, HeadTailProperties DEF Bounded
<1>3. CASE ~(Len(q) >= max)
  BY <1>3 DEF Bounded
<1> QED BY <1>2, <1>3

\* Whatever was handed out is remembered, or has left the window.
Remembered ==
    /\ \E S : handed \in Seq(S) /\ recent \in Seq(S)
    /\ Range(handed) \subseteq Range(recent) \cup forgotten
    /\ FoundOnceUnlessForgotten

\* A proof that is recorded keeps the memory right: it is new to the window, so
\* where it was handed out before, the window has lost it since.
LEMMA RecordProofRemembered ==
    ASSUME Remembered, NEW id, RecordProof(id)
    PROVE  Remembered'
<1>1. PICK S : handed \in Seq(S) /\ recent \in Seq(S)
  BY DEF Remembered
<1> DEFINE T == S \cup {id}
           kept == Bounded(recent, MaxDedup)
<1>2. handed \in Seq(T) /\ recent \in Seq(T) /\ id \in T
  BY <1>1, SeqOverMore
<1>3. kept \in Seq(T)
  BY <1>2, BoundedKeeps, ObserverAssumption
<1> HIDE DEF T, kept
<1>4. /\ id \notin Range(recent)
      /\ recent' = Append(kept, id)
      /\ forgotten' = forgotten \cup (Range(recent) \ Range(recent'))
      /\ handed' = Append(handed, id)
  BY DEF RecordProof, kept
<1>5. /\ handed' \in Seq(T) /\ recent' \in Seq(T)
      /\ Range(handed') = Range(handed) \cup {id}
      /\ id \in Range(recent')
  BY <1>2, <1>3, <1>4, AppendAdds
<1>6. Range(handed) \subseteq Range(recent) \cup forgotten
  BY DEF Remembered
<1>7. Range(handed') \subseteq Range(recent') \cup forgotten'
  BY <1>4, <1>5, <1>6
<1>8. id \in Range(handed) => id \in forgotten'
  BY <1>4, <1>6
<1>9. /\ DOMAIN handed' = DOMAIN handed \cup {Len(handed) + 1}
      /\ \A i \in DOMAIN handed : handed'[i] = handed[i]
      /\ handed'[Len(handed) + 1] = id
      /\ DOMAIN handed = 1 .. Len(handed) /\ Len(handed) \in Nat
  BY <1>2, <1>4, AppendAdds, RangeIsPositions
<1>10. \A i \in DOMAIN handed : handed[i] \in Range(handed)
  BY DEF Range
<1>11. FoundOnceUnlessForgotten'
  <2> SUFFICES ASSUME NEW i \in DOMAIN handed', NEW j \in DOMAIN handed',
                      i < j, handed'[i] = handed'[j]
               PROVE  handed'[i] \in forgotten'
    BY DEF FoundOnceUnlessForgotten
  <2>1. i \in DOMAIN handed
    BY <1>9
  <2>2. CASE j \in DOMAIN handed
    BY <1>4, <1>9, <2>1, <2>2 DEF Remembered, FoundOnceUnlessForgotten
  <2>3. CASE j = Len(handed) + 1
    BY <1>8, <1>9, <1>10, <2>1, <2>3
  <2> QED BY <1>9, <2>2, <2>3
<1> QED BY <1>5, <1>7, <1>11 DEF Remembered

\* Only the worker's RecordProof touches what was handed out and what is remembered.
LEMMA OthersKeepFound ==
    ASSUME [ObserverNext]_observerVars
    PROVE  \/ UNCHANGED <<recent, handed, forgotten>>
           \/ \E id : RecordProof(id)
<1>1. CASE UNCHANGED observerVars
  BY <1>1 DEF observerVars, foundVars
<1>2. CASE RetryAfterPasses
  BY <1>2 DEF RetryAfterPasses, foundVars
<1>3. CASE ContextChanges
  BY <1>3 DEF ContextChanges, foundVars
<1>4. ASSUME NEW share \in Shares, NEW b \in IssuedBindings, TryObserveShare(share, b)
      PROVE  UNCHANGED <<recent, handed, forgotten>>
  BY <1>4 DEF TryObserveShare, foundVars
<1>5. CASE TakeFoundJob
  BY <1>5 DEF TakeFoundJob
<1>6. CASE WorkerReceives \/ WorkerTimeout \/ RetryEarly
  BY <1>6 DEF WorkerReceives, WorkerTimeout, RetryEarly, foundVars
<1>7. CASE HandleObservation
  <2>1. UNCHANGED foundVars
    BY <1>7 DEF HandleObservation, ObservationObsolete, ObservationIncomplete, ObservationReady
  <2> QED BY <2>1 DEF foundVars
<1>8. CASE ProcessCandidate
  BY <1>8 DEF ProcessCandidate, foundVars
<1>9. CASE WorkerDies
  BY <1>9 DEF WorkerDies, foundVars
<1> QED
  BY <1>1, <1>2, <1>3, <1>4, <1>5, <1>6, <1>7, <1>8, <1>9 DEF ObserverNext, Worker

\* However often a share is submitted, kept for another try or met by a new worker
\* thread, its proof is handed out again only after MAX_DEDUP_IDENTITIES others have
\* pushed it out of the window.
THEOREM FoundOnceHolds == ObserverSpec => []FoundOnceUnlessForgotten
<1>1. ObserverInit => Remembered
  <2> SUFFICES ASSUME ObserverInit PROVE Remembered
    OBVIOUS
  <2>1. recent = << >> /\ handed = << >>
    BY DEF ObserverInit
  <2>2. handed \in Seq({}) /\ recent \in Seq({}) /\ DOMAIN handed = {} /\ Range(handed) = {}
    BY <2>1 DEF Range
  <2> QED BY <2>2 DEF Remembered, FoundOnceUnlessForgotten
<1>2. Remembered /\ [ObserverNext]_observerVars => Remembered'
  <2> SUFFICES ASSUME Remembered, [ObserverNext]_observerVars PROVE Remembered'
    OBVIOUS
  <2>1. CASE UNCHANGED <<recent, handed, forgotten>>
    BY <2>1 DEF Remembered, FoundOnceUnlessForgotten
  <2>2. ASSUME NEW id, RecordProof(id) PROVE Remembered'
    BY <2>2, RecordProofRemembered
  <2> QED BY <2>1, <2>2, OthersKeepFound
<1>3. Remembered => FoundOnceUnlessForgotten
  BY DEF Remembered
<1> QED BY <1>1, <1>2, <1>3, PTL DEF ObserverSpec

=============================================================================
