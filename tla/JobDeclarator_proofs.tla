-------------------------- MODULE JobDeclarator_proofs --------------------------
(***************************************************************************)
(* Theorems about the declaration tasks, for every number of templates and *)
(* every limit.                                                            *)
(***************************************************************************)
EXTENDS JobDeclarator, FiniteSetTheorems, SequenceTheorems, TLAPS

-----------------------------------------------------------------------------
(* The counter of SetNewPrevHash tasks *)

\* A SetNewPrevHash is handed over once: the tasks are those of templates up to
\* the last announced, and one that has not run yet is not in the loop.
PrevHashInv ==
    /\ announced \in Nat
    /\ \A t \in spawned \cup looping : t \in Nat /\ t <= announced
    /\ spawned \cap looping = {}
    /\ IsFiniteSet(looping)
    /\ CounterCountsTasks

LEMMA PrevHashStep ==
    ASSUME PrevHashInv, [Next]_declaratorVars
    PROVE  PrevHashInv'
<1> USE DEF PrevHashInv, CounterCountsTasks
<1>1. ASSUME UNCHANGED <<announced, lastPrevHash, counter, spawned, looping>>
      PROVE  PrevHashInv'
  BY <1>1
<1>2. CASE NewTemplate \/ FreeGate \/ AskRestart
  BY <1>2, <1>1 DEF NewTemplate, FreeGate, AskRestart, prevHashVars
<1>3. CASE \E t \in Templates : OnNewTemplate(t) \/ Declaration(t)
  BY <1>3, <1>1 DEF OnNewTemplate, Declaration, PassGate, GateTimeout, Declare,
                    DeclareFails, OrphanDeclares, prevHashVars
<1>4. CASE \E t \in Templates : OnSetNewPrevHash(t)
  <2> PICK t \in Templates : OnSetNewPrevHash(t)
    BY <1>4
  <2>1. t \in Nat /\ t > announced
    BY DEF OnSetNewPrevHash, Templates
  <2>2. /\ announced' = t
        /\ spawned' = spawned \cup {t}
        /\ UNCHANGED <<counter, looping>>
    BY DEF OnSetNewPrevHash
  <2> QED
    BY <2>1, <2>2
<1>5. CASE \E t \in Templates : StartPrevHash(t)
  <2> PICK t \in Templates : StartPrevHash(t)
    BY <1>5
  <2>1. /\ t \in spawned /\ t \notin looping
        /\ spawned' = spawned \ {t}
        /\ looping' = looping \cup {t}
        /\ counter' = counter + 1
        /\ UNCHANGED announced
    BY DEF StartPrevHash
  <2>2. IsFiniteSet(looping') /\ Cardinality(looping') = Cardinality(looping) + 1
    BY <2>1, FS_AddElement
  <2> QED
    BY <2>1, <2>2
<1>6. CASE \E t \in Templates : LeavePrevHash(t) \/ ActivateFutureJob(t)
  <2> PICK t \in Templates : LeavePrevHash(t) \/ ActivateFutureJob(t)
    BY <1>6
  <2>1. /\ t \in looping
        /\ looping' = looping \ {t}
        /\ counter' = counter - 1
        /\ UNCHANGED <<announced, spawned>>
    BY DEF LeavePrevHash, ActivateFutureJob
  <2>2. IsFiniteSet(looping') /\ Cardinality(looping') = Cardinality(looping) - 1
    BY <2>1, FS_RemoveElement
  <2> QED
    BY <2>1, <2>2
<1>7. CASE PoolAnswer
  BY <1>7, <1>1 DEF PoolAnswer, DeclareSuccessFuture, DeclareSuccess, DeclareError,
                    DeclareUnknown, CustomJobSuccess, CustomJobError, prevHashVars
<1>8. CASE SendCustomJob
  BY <1>8, <1>1 DEF SendCustomJob, SetCustomJobs, SetCustomJobsFails, prevHashVars
<1>9. CASE Restart
  BY <1>9, FS_EmptySet DEF Restart
<1>10. CASE UNCHANGED declaratorVars
  BY <1>10, <1>1 DEF declaratorVars
<1> QED
  BY <1>2, <1>3, <1>4, <1>5, <1>6, <1>7, <1>8, <1>9, <1>10
  DEF Next, Client, PrevHashTask

\* set_new_prev_hash_counter is the number of tasks in the loop of
\* on_set_new_prev_hash, in every interleaving of tasks that start late, give up
\* and find their job.
THEOREM CounterCountsTasksHolds == Spec => []CounterCountsTasks
<1>1. Init => PrevHashInv
  BY FS_EmptySet DEF Init, PrevHashInv, CounterCountsTasks, None
<1>2. PrevHashInv /\ [Next]_declaratorVars => PrevHashInv'
  BY PrevHashStep
<1>3. PrevHashInv => CounterCountsTasks
  BY DEF PrevHashInv
<1> QED
  BY <1>1, <1>2, <1>3, PTL DEF Spec

-----------------------------------------------------------------------------
(* Future jobs and their prev hash *)

\* What a custom job refers to has been issued.
IssuedInv ==
    /\ template \in Seq([future : BOOLEAN, tip : Nat])
    /\ \A c \in CustomJobs : c.t \in Templates
    /\ FutureJobOnItsPrevHash

LEMMA IssuedStep ==
    ASSUME IssuedInv, [Next]_declaratorVars
    PROVE  IssuedInv'
<1>1. ASSUME UNCHANGED template,
             \A c \in CustomJobs' :
                 \/ c \in CustomJobs
                 \/ c.t \in Templates /\ (template[c.t].future => c.on = c.t)
      PROVE  IssuedInv'
  BY <1>1 DEF IssuedInv, FutureJobOnItsPrevHash, Templates
<1>2. ASSUME UNCHANGED <<template, calls, requests>>
      PROVE  IssuedInv'
  BY <1>2 DEF IssuedInv, FutureJobOnItsPrevHash, Templates, CustomJobs
<1>3. CASE NewTemplate
  <2>1. PICK height \in 0 .. MaxTip, future \in BOOLEAN :
            template' = Append(template, [future |-> future, tip |-> height])
    BY <1>3 DEF NewTemplate
  <2>2. height \in Nat
    BY DeclaratorAssumption DEF DeclaratorAssumption
  <2>3. /\ template' \in Seq([future : BOOLEAN, tip : Nat])
        /\ Len(template') = Len(template) + 1
        /\ \A t \in Templates : template'[t] = template[t]
    BY <2>1, <2>2 DEF IssuedInv, Templates
  <2>4. UNCHANGED <<calls, requests>>
    BY <1>3 DEF NewTemplate, customVars
  <2>5. Templates \subseteq Templates'
    BY <2>3 DEF Templates, IssuedInv
  <2> QED
    BY <2>3, <2>4, <2>5 DEF IssuedInv, FutureJobOnItsPrevHash, CustomJobs
<1>4. CASE FreeGate \/ AskRestart
  BY <1>4, <1>2 DEF FreeGate, AskRestart, customVars
<1>5. CASE \E t \in Templates : OnNewTemplate(t) \/ OnSetNewPrevHash(t) \/ Declaration(t)
  BY <1>5, <1>2 DEF OnNewTemplate, OnSetNewPrevHash, Declaration, PassGate, GateTimeout,
                    Declare, DeclareFails, OrphanDeclares, customVars
<1>6. CASE \E t \in Templates : StartPrevHash(t) \/ LeavePrevHash(t)
  BY <1>6, <1>2 DEF StartPrevHash, LeavePrevHash, customVars
<1>7. CASE \E t \in Templates : ActivateFutureJob(t)
  <2> PICK t \in Templates : ActivateFutureJob(t)
    BY <1>7
  <2>1. /\ calls' = calls \cup {[t |-> t, on |-> t, by |-> "task"]}
        /\ UNCHANGED <<template, requests>>
    BY DEF ActivateFutureJob
  <2> QED
    BY <2>1, <1>1 DEF CustomJobs
<1>8. CASE \E t \in Templates :
               DeclareSuccessFuture(t) \/ DeclareError(t) \/ DeclareUnknown(t)
  BY <1>8, <1>2 DEF DeclareSuccessFuture, DeclareError, DeclareUnknown, customVars
<1>9. CASE \E t \in Templates : DeclareSuccess(t)
  <2> PICK t \in Templates : DeclareSuccess(t)
    BY <1>9
  <2>1. /\ calls' \subseteq calls \cup {[t |-> t, on |-> lastPrevHash, by |-> "main"]}
        /\ ~template[t].future
        /\ UNCHANGED <<template, requests>>
    BY DEF DeclareSuccess
  <2> QED
    BY <2>1, <1>1 DEF CustomJobs
<1>10. CASE SendCustomJob
  <2> PICK c \in calls : SetCustomJobs(c) \/ SetCustomJobsFails(c)
    BY <1>10 DEF SendCustomJob
  <2>1. CustomJobs' \subseteq CustomJobs /\ UNCHANGED template
    <3>1. CASE SetCustomJobs(c)
      BY <3>1 DEF SetCustomJobs, CustomJobs, Range
    <3>2. CASE SetCustomJobsFails(c)
      BY <3>2 DEF SetCustomJobsFails, CustomJobs
    <3> QED
      BY <3>1, <3>2
  <2> QED
    BY <2>1, <1>1
<1>11. CASE \E r \in DOMAIN requests : CustomJobSuccess(r) \/ CustomJobError(r)
  <2> PICK r \in DOMAIN requests : CustomJobSuccess(r) \/ CustomJobError(r)
    BY <1>11
  <2>1. /\ requests' = Restrict(requests, DOMAIN requests \ {r})
        /\ UNCHANGED <<template, calls>>
    BY DEF CustomJobSuccess, CustomJobError
  <2>2. CustomJobs' \subseteq CustomJobs
    BY <2>1 DEF CustomJobs, Range, Restrict
  <2> QED
    BY <2>1, <2>2, <1>1
<1>12. CASE Restart
  <2>1. UNCHANGED template /\ CustomJobs' = {}
    BY <1>12 DEF Restart, CustomJobs, Range
  <2> QED
    BY <2>1, <1>1
<1>13. CASE UNCHANGED declaratorVars
  BY <1>13, <1>2 DEF declaratorVars
<1> QED
  BY <1>3, <1>4, <1>5, <1>6, <1>7, <1>8, <1>9, <1>10, <1>11, <1>12, <1>13
  DEF Next, Client, PrevHashTask, PoolAnswer

\* No interleaving of SetNewPrevHash tasks and pool answers sets a future job
\* under a prev hash other than the one that names its template.
THEOREM FutureJobOnItsPrevHashHolds == Spec => []FutureJobOnItsPrevHash
<1>1. Init => IssuedInv
  BY DEF Init, IssuedInv, FutureJobOnItsPrevHash, CustomJobs, Range
<1>2. IssuedInv /\ [Next]_declaratorVars => IssuedInv'
  BY IssuedStep
<1>3. IssuedInv => FutureJobOnItsPrevHash
  BY DEF IssuedInv
<1> QED
  BY <1>1, <1>2, <1>3, PTL DEF Spec

-----------------------------------------------------------------------------
(* Sequences without repetitions *)

\* RemoveFirst on a sequence without repetitions takes the element out.
LEMMA RemoveFirstOfInjective ==
    ASSUME NEW S, NEW s \in Seq(S), NEW e, IsInjective(s)
    PROVE  /\ RemoveFirst(s, e) \in Seq(S)
           /\ IsInjective(RemoveFirst(s, e))
           /\ Range(RemoveFirst(s, e)) = Range(s) \ {e}
<1> DEFINE I == {i \in 1 .. Len(s) : s[i] = e}
<1>1. CASE I = {}
  <2>1. RemoveFirst(s, e) = s
    BY <1>1 DEF RemoveFirst
  <2>2. e \notin Range(s)
    BY <1>1 DEF Range
  <2> QED
    BY <2>1, <2>2
<1>2. CASE I # {}
  <2>1. PICK k \in 1 .. Len(s) : s[k] = e
    BY <1>2
  <2>2. I = {k}
    BY <2>1 DEF IsInjective
  <2>3. Min(I) = k
    BY <2>2, <2>1 DEF Min
  <2> HIDE DEF I
  <2>4. SelectInSeq(s, LAMBDA v : v = e) = k
    BY <2>3, <1>2 DEF SelectInSeq, I
  <2> DEFINE a == SubSeq(s, 1, k - 1)
             b == SubSeq(s, k + 1, Len(s))
             r == a \o b
  <2>5. RemoveFirst(s, e) = r
    BY <2>1, <2>4 DEF RemoveFirst, RemoveAt
  <2>6. /\ a \in Seq(S) /\ Len(a) = k - 1
        /\ \A i \in 1 .. k - 1 : a[i] = s[i]
    <3>1. \A i \in 1 .. k - 1 : s[i] \in S
      BY <2>1
    <3> QED
      BY <3>1, <2>1, SubSeqProperties
  <2>7. /\ b \in Seq(S) /\ Len(b) = Len(s) - k
        /\ \A i \in 1 .. Len(s) - k : b[i] = s[k + i]
    <3>1. \A i \in k + 1 .. Len(s) : s[i] \in S
      BY <2>1
    <3>2. /\ b \in Seq(S)
          /\ Len(b) = IF k + 1 <= Len(s) THEN Len(s) - (k + 1) + 1 ELSE 0
          /\ \A i \in 1 .. Len(s) - (k + 1) + 1 : b[i] = s[(k + 1) + i - 1]
      BY <3>1, <2>1, SubSeqProperties
    <3> QED
      BY <3>2, <2>1
  <2> HIDE DEF a, b
  <2>8. /\ r \in Seq(S) /\ Len(r) = Len(s) - 1
        /\ \A i \in 1 .. Len(r) : r[i] = IF i <= k - 1 THEN s[i] ELSE s[i + 1]
    <3>1. /\ r \in Seq(S)
          /\ Len(r) = Len(a) + Len(b)
          /\ \A i \in 1 .. Len(a) + Len(b) :
                 r[i] = IF i <= Len(a) THEN a[i] ELSE b[i - Len(a)]
      BY <2>6, <2>7, ConcatProperties
    <3> QED
      BY <3>1, <2>6, <2>7, <2>1
  <2> HIDE DEF r
  <2>9. IsInjective(r)
    <3> SUFFICES ASSUME NEW i \in 1 .. Len(r), NEW j \in 1 .. Len(r), r[i] = r[j]
                 PROVE  i = j
      BY <2>8 DEF IsInjective
    <3> DEFINE at(n) == IF n <= k - 1 THEN n ELSE n + 1
    <3>1. at(i) \in DOMAIN s /\ at(j) \in DOMAIN s
      BY <2>8, <2>1
    <3>2. r[i] = s[at(i)] /\ r[j] = s[at(j)]
      BY <2>8, <2>1
    <3>3. at(i) = at(j)
      BY <3>1, <3>2 DEF IsInjective
    <3> QED
      BY <3>3, <2>8, <2>1
  <2>10. Range(r) \subseteq Range(s) \ {e}
    BY <2>8, <2>1 DEF Range, IsInjective
  <2>11. ASSUME NEW x \in Range(s) \ {e}
         PROVE  x \in Range(r)
    <3>1. PICK j \in 1 .. Len(s) : s[j] = x /\ j # k
      BY <2>11, <2>1 DEF Range
    <3>2. CASE j < k
      BY <3>1, <3>2, <2>8, <2>1 DEF Range
    <3>3. CASE j > k
      <4>1. j - 1 \in 1 .. Len(r) /\ r[j - 1] = x
        BY <3>1, <3>3, <2>8, <2>1
      <4> QED
        BY <4>1, <2>8 DEF Range
    <3> QED
      BY <3>1, <3>2, <3>3, <2>1
  <2> QED
    BY <2>5, <2>8, <2>9, <2>10, <2>11
<1> QED
  BY <1>1, <1>2

LEMMA TailOfInjective ==
    ASSUME NEW S, NEW s \in Seq(S), IsInjective(s), s # << >>
    PROVE  /\ Tail(s) \in Seq(S)
           /\ IsInjective(Tail(s))
           /\ Range(Tail(s)) \subseteq Range(s)
<1>1. /\ Tail(s) \in Seq(S) /\ Len(Tail(s)) = Len(s) - 1
      /\ \A i \in 1 .. Len(s) - 1 : Tail(s)[i] = s[i + 1]
  BY HeadTailProperties
<1> QED
  BY <1>1 DEF IsInjective, Range

LEMMA AppendToInjective ==
    ASSUME NEW S, NEW s \in Seq(S), IsInjective(s), NEW e \in S, e \notin Range(s)
    PROVE  /\ Append(s, e) \in Seq(S)
           /\ IsInjective(Append(s, e))
           /\ Range(Append(s, e)) = Range(s) \cup {e}
<1> DEFINE r == Append(s, e)
<1>1. /\ r \in Seq(S) /\ Len(r) = Len(s) + 1
      /\ \A i \in 1 .. Len(s) : r[i] = s[i]
      /\ r[Len(s) + 1] = e
  BY AppendProperties
<1> HIDE DEF r
<1>2. \A i \in 1 .. Len(s) : s[i] # e
  BY DEF Range
<1>3. IsInjective(r)
  BY <1>1, <1>2 DEF IsInjective
<1>4. Range(r) = Range(s) \cup {e}
  <2>1. Range(r) \subseteq Range(s) \cup {e}
    BY <1>1 DEF Range
  <2>2. Range(s) \subseteq Range(r)
    BY <1>1 DEF Range
  <2>3. e \in Range(r)
    BY <1>1 DEF Range
  <2> QED
    BY <2>1, <2>2, <2>3
<1> QED
  BY <1>1, <1>3, <1>4 DEF r

-----------------------------------------------------------------------------
(* One stage at a time *)

\* The stages of a declaration, each as the set of templates in it.
Called == {c.t : c \in calls}
Requested == {requests[r].t : r \in DOMAIN requests}
Stages == <<waiting, passed, Range(declared), futureJobs, Called, Requested,
            Range(poolJobs)>>

StagesDisjoint ==
    \A i, j \in 1 .. 7 : i # j => Stages[i] \cap Stages[j] = {}

\* Within a stage no template occurs twice.
Once ==
    /\ IsInjective(declared) /\ IsInjective(poolJobs)
    /\ \A c, d \in calls : c.t = d.t => c = d
    /\ \A q, r \in DOMAIN requests : requests[q].t = requests[r].t => q = r

StageInv ==
    /\ handedOver \subseteq Nat
    /\ declared \in Seq(Nat) /\ poolJobs \in Seq(Nat)
    /\ nextRequest \in Nat
    /\ \A r \in DOMAIN requests : r \in Nat /\ r < nextRequest
    /\ Once
    /\ StagesDisjoint
    /\ \A i \in 1 .. 7 : Stages[i] \subseteq handedOver

\* A step that takes a template out of the stage it is in, and puts it into
\* another or into none.
LEMMA StageMove ==
    ASSUME StageInv, handedOver' = handedOver,
           NEW from \in 1 .. 7, NEW to \in 1 .. 7, NEW t \in Stages[from],
           Stages'[from] \subseteq Stages[from] \ {t},
           \A i \in 1 .. 7 : Stages'[i] \subseteq Stages[i] \cup (IF i = to THEN {t} ELSE {})
    PROVE  StagesDisjoint' /\ \A i \in 1 .. 7 : Stages'[i] \subseteq handedOver'
<1>1. \A i \in 1 .. 7 : Stages'[i] \subseteq handedOver'
  BY DEF StageInv
<1>2. \A i \in 1 .. 7 : i # to => Stages'[i] \subseteq Stages[i] /\ t \notin Stages'[i]
  BY DEF StageInv, StagesDisjoint
<1>3. ASSUME NEW i \in 1 .. 7, NEW j \in 1 .. 7, i # j
      PROVE  Stages'[i] \cap Stages'[j] = {}
  <2>1. Stages[i] \cap Stages[j] = {}
    BY <1>3 DEF StageInv, StagesDisjoint
  <2> QED
    BY <1>2, <1>3, <2>1
<1> QED
  BY <1>1, <1>3 DEF StagesDisjoint

\* A step that at most takes templates out of their stage.
LEMMA StageShrink ==
    ASSUME StageInv, handedOver' = handedOver,
           \A i \in 1 .. 7 : Stages'[i] \subseteq Stages[i]
    PROVE  StagesDisjoint' /\ \A i \in 1 .. 7 : Stages'[i] \subseteq handedOver'
BY DEF StageInv, StagesDisjoint

\* update_last_declare_job_sent keeps the record free of repetitions.
LEMMA RecordOnce ==
    ASSUME StageInv, NEW t \in handedOver, t \notin Range(declared)
    PROVE  /\ Record(t) \in Seq(Nat)
           /\ IsInjective(Record(t))
           /\ Range(Record(t)) \subseteq Range(declared) \cup {t}
<1> DEFINE kept == IF Len(declared) < MaxDeclared THEN declared ELSE Tail(declared)
<1>1. kept \in Seq(Nat) /\ IsInjective(kept) /\ Range(kept) \subseteq Range(declared)
  <2>1. CASE Len(declared) < MaxDeclared
    BY <2>1 DEF StageInv, Once
  <2>2. CASE ~(Len(declared) < MaxDeclared)
    <3>1. declared # << >>
      BY <2>2, DeclaratorAssumption DEF DeclaratorAssumption, StageInv
    <3> QED
      BY <2>2, <3>1, TailOfInjective DEF StageInv, Once
  <2> QED
    BY <2>1, <2>2
<1> HIDE DEF kept
<1>2. t \in Nat /\ t \notin Range(kept)
  BY <1>1 DEF StageInv
<1>3. Record(t) = Append(kept, t)
  BY DEF Record, kept
<1> QED
  BY <1>1, <1>2, <1>3, AppendToInjective

\* CircularBuffer::insert keeps the mapping free of repetitions.
LEMMA InsertOnce ==
    ASSUME StageInv, NEW t \in handedOver
    PROVE  /\ Insert(t) \in Seq(Nat)
           /\ IsInjective(Insert(t))
           /\ Range(Insert(t)) \subseteq Range(poolJobs) \cup {t}
<1> DEFINE kept == RemoveFirst(poolJobs, t)
           room == IF Len(kept) = MaxPoolJobs THEN Tail(kept) ELSE kept
<1>1. /\ kept \in Seq(Nat) /\ IsInjective(kept)
      /\ Range(kept) = Range(poolJobs) \ {t}
  BY RemoveFirstOfInjective DEF StageInv, Once
<1> HIDE DEF kept
<1>2. room \in Seq(Nat) /\ IsInjective(room) /\ Range(room) \subseteq Range(kept)
  <2>1. CASE Len(kept) = MaxPoolJobs
    <3>1. kept # << >>
      BY <2>1, DeclaratorAssumption DEF DeclaratorAssumption
    <3> QED
      BY <1>1, <2>1, <3>1, TailOfInjective
  <2>2. CASE Len(kept) # MaxPoolJobs
    BY <1>1, <2>2
  <2> QED
    BY <2>1, <2>2
<1> HIDE DEF room
<1>3. t \in Nat /\ t \notin Range(room)
  BY <1>1, <1>2 DEF StageInv
<1>4. Insert(t) = Append(room, t)
  BY DEF Insert, room, kept
<1> QED
  BY <1>1, <1>2, <1>3, <1>4, AppendToInjective

LEMMA StageStep ==
    ASSUME StageInv, [Next]_declaratorVars
    PROVE  StageInv'
<1>1. ASSUME UNCHANGED <<handedOver, waiting, passed, declared, futureJobs, calls,
                         nextRequest, requests, poolJobs>>
      PROVE  StageInv'
  <2>1. Stages' = Stages
    BY <1>1 DEF Stages, Called, Requested
  <2> QED
    BY <1>1, <2>1, StageShrink DEF StageInv, Once
<1>2. CASE NewTemplate \/ FreeGate \/ AskRestart
  BY <1>2, <1>1 DEF NewTemplate, FreeGate, AskRestart, taskVars, declareVars, customVars
<1>3. CASE \E t \in Templates : OnSetNewPrevHash(t) \/ StartPrevHash(t) \/ LeavePrevHash(t)
  BY <1>3, <1>1 DEF OnSetNewPrevHash, StartPrevHash, LeavePrevHash, taskVars, declareVars,
                    customVars
<1>4. CASE \E t \in Templates : OnNewTemplate(t)
  <2> PICK t \in Templates : OnNewTemplate(t)
    BY <1>4
  <2>1. /\ t \in Nat /\ t \notin handedOver
        /\ handedOver' = handedOver \cup {t}
        /\ waiting' = waiting \cup {t}
        /\ UNCHANGED <<passed, declared, futureJobs, calls, nextRequest, requests, poolJobs>>
    BY DEF OnNewTemplate, Templates, declareVars, customVars
  <2>2. Called' = Called /\ Requested' = Requested
    BY <2>1 DEF Called, Requested
  <2>3. \A i \in 1 .. 7 : t \notin Stages[i]
    BY <2>1 DEF StageInv
  <2>4. \A i \in 1 .. 7 : Stages'[i] = IF i = 1 THEN Stages[1] \cup {t} ELSE Stages[i]
    BY <2>1, <2>2 DEF Stages
  <2>5. \A i \in 1 .. 7 : Stages'[i] \subseteq handedOver'
    BY <2>1, <2>4 DEF StageInv
  <2>6. ASSUME NEW i \in 1 .. 7, NEW j \in 1 .. 7, i # j
        PROVE  Stages'[i] \cap Stages'[j] = {}
    <3>1. Stages[i] \cap Stages[j] = {}
      BY <2>6 DEF StageInv, StagesDisjoint
    <3> QED
      BY <2>3, <2>4, <2>6, <3>1
  <2> QED
    BY <2>1, <2>5, <2>6 DEF StageInv, Once, StagesDisjoint
<1>5. CASE \E t \in Templates : PassGate(t)
  <2> PICK t \in Templates : PassGate(t)
    BY <1>5
  <2>1. /\ t \in waiting
        /\ waiting' = waiting \ {t}
        /\ passed' = passed \cup {t}
        /\ UNCHANGED <<handedOver, declared, futureJobs, calls, nextRequest, requests,
                       poolJobs>>
    BY DEF PassGate, declareVars, customVars
  <2>2. /\ t \in Stages[1] /\ Stages'[1] \subseteq Stages[1] \ {t}
        /\ \A i \in 1 .. 7 : Stages'[i] \subseteq Stages[i] \cup (IF i = 2 THEN {t} ELSE {})
    BY <2>1 DEF Stages, Called, Requested
  <2>3. StagesDisjoint' /\ \A i \in 1 .. 7 : Stages'[i] \subseteq handedOver'
    BY <2>1, <2>2, StageMove
  <2> QED
    BY <2>1, <2>3 DEF StageInv, Once
<1>6. CASE \E t \in Templates : GateTimeout(t)
  <2> PICK t \in Templates : GateTimeout(t)
    BY <1>6
  <2>1. /\ waiting' = waiting \ {t}
        /\ UNCHANGED <<handedOver, passed, declared, futureJobs, calls, nextRequest,
                       requests, poolJobs>>
    BY DEF GateTimeout, declareVars, customVars
  <2>2. \A i \in 1 .. 7 : Stages'[i] \subseteq Stages[i]
    BY <2>1 DEF Stages, Called, Requested
  <2>3. StagesDisjoint' /\ \A i \in 1 .. 7 : Stages'[i] \subseteq handedOver'
    BY <2>1, <2>2, StageShrink
  <2> QED
    BY <2>1, <2>3 DEF StageInv, Once
<1>7. CASE \E t \in Templates : Declare(t) \/ DeclareFails(t) \/ OrphanDeclares(t)
  <2> PICK t \in Templates : Declare(t) \/ DeclareFails(t) \/ OrphanDeclares(t)
    BY <1>7
  <2>1. /\ t \in passed
        /\ passed' = passed \ {t}
        /\ declared' \in {declared, Record(t)}
        /\ UNCHANGED <<handedOver, waiting, futureJobs, calls, nextRequest, requests,
                       poolJobs>>
    BY DEF Declare, DeclareFails, OrphanDeclares, declareVars, customVars
  <2>2. t \in Stages[2] /\ t \in handedOver /\ t \notin Range(declared)
    BY <2>1 DEF Stages, StageInv, StagesDisjoint
  <2>3. /\ declared' \in Seq(Nat) /\ IsInjective(declared')
        /\ Range(declared') \subseteq Range(declared) \cup {t}
    BY <2>1, <2>2, RecordOnce DEF StageInv, Once
  <2>4. /\ Stages'[2] \subseteq Stages[2] \ {t}
        /\ \A i \in 1 .. 7 : Stages'[i] \subseteq Stages[i] \cup (IF i = 3 THEN {t} ELSE {})
    BY <2>1, <2>3 DEF Stages, Called, Requested
  <2>5. StagesDisjoint' /\ \A i \in 1 .. 7 : Stages'[i] \subseteq handedOver'
    BY <2>1, <2>2, <2>4, StageMove
  <2> QED
    BY <2>1, <2>3, <2>5 DEF StageInv, Once
<1>8. ASSUME NEW t, Answered(t)
      PROVE  /\ declared' \in Seq(Nat) /\ IsInjective(declared')
             /\ Range(declared') = Range(declared) \ {t}
  BY <1>8, RemoveFirstOfInjective DEF Answered, StageInv, Once
<1>9. CASE \E t \in Templates : DeclareError(t) \/ DeclareUnknown(t)
  <2> PICK t \in Templates : DeclareError(t) \/ DeclareUnknown(t)
    BY <1>9
  <2>1. /\ Answered(t)
        /\ UNCHANGED <<handedOver, waiting, passed, futureJobs, calls, nextRequest, requests,
                       poolJobs>>
    BY DEF DeclareError, DeclareUnknown, taskVars, customVars
  <2>2. \A i \in 1 .. 7 : Stages'[i] \subseteq Stages[i]
    BY <2>1, <1>8 DEF Stages, Called, Requested
  <2>3. StagesDisjoint' /\ \A i \in 1 .. 7 : Stages'[i] \subseteq handedOver'
    BY <2>1, <2>2, StageShrink
  <2> QED
    BY <2>1, <2>3, <1>8 DEF StageInv, Once
<1>10. CASE \E t \in Templates : DeclareSuccessFuture(t)
  <2> PICK t \in Templates : DeclareSuccessFuture(t)
    BY <1>10
  <2>1. /\ Answered(t) /\ t \in Range(declared)
        /\ futureJobs' = futureJobs \cup {t}
        /\ UNCHANGED <<handedOver, waiting, passed, calls, nextRequest, requests, poolJobs>>
    BY DEF DeclareSuccessFuture, taskVars, customVars
  <2>2. /\ t \in Stages[3] /\ Stages'[3] \subseteq Stages[3] \ {t}
        /\ \A i \in 1 .. 7 : Stages'[i] \subseteq Stages[i] \cup (IF i = 4 THEN {t} ELSE {})
    BY <2>1, <1>8 DEF Stages, Called, Requested
  <2>3. StagesDisjoint' /\ \A i \in 1 .. 7 : Stages'[i] \subseteq handedOver'
    BY <2>1, <2>2, StageMove
  <2> QED
    BY <2>1, <2>3, <1>8 DEF StageInv, Once
<1>11. ASSUME NEW c, c.t \notin Called, calls' \subseteq calls \cup {c}
       PROVE  \A a, b \in calls' : a.t = b.t => a = b
  BY <1>11 DEF StageInv, Once, Called
<1>12. CASE \E t \in Templates : DeclareSuccess(t)
  <2> PICK t \in Templates : DeclareSuccess(t)
    BY <1>12
  <2> DEFINE c == [t |-> t, on |-> lastPrevHash, by |-> "main"]
  <2>1. /\ Answered(t) /\ t \in Range(declared)
        /\ calls' \subseteq calls \cup {c}
        /\ UNCHANGED <<handedOver, waiting, passed, futureJobs, nextRequest, requests,
                       poolJobs>>
    BY DEF DeclareSuccess, taskVars
  <2>2. c.t = t
    OBVIOUS
  <2> HIDE DEF c
  <2>3. /\ t \in Stages[3] /\ Stages'[3] \subseteq Stages[3] \ {t}
        /\ \A i \in 1 .. 7 : Stages'[i] \subseteq Stages[i] \cup (IF i = 5 THEN {t} ELSE {})
    BY <2>1, <2>2, <1>8 DEF Stages, Called, Requested
  <2>4. StagesDisjoint' /\ \A i \in 1 .. 7 : Stages'[i] \subseteq handedOver'
    BY <2>1, <2>3, StageMove
  <2>5. t \notin Called
    BY <2>3 DEF StageInv, StagesDisjoint, Stages
  <2>6. \A a, b \in calls' : a.t = b.t => a = b
    BY <2>1, <2>2, <2>5, <1>11
  <2> QED
    BY <2>1, <2>4, <2>6, <1>8 DEF StageInv, Once
<1>13. CASE \E t \in Templates : ActivateFutureJob(t)
  <2> PICK t \in Templates : ActivateFutureJob(t)
    BY <1>13
  <2> DEFINE c == [t |-> t, on |-> t, by |-> "task"]
  <2>1. /\ t \in futureJobs /\ futureJobs' = {}
        /\ calls' = calls \cup {c}
        /\ UNCHANGED <<handedOver, waiting, passed, declared, nextRequest, requests, poolJobs>>
    BY DEF ActivateFutureJob, taskVars
  <2>2. c.t = t
    OBVIOUS
  <2> HIDE DEF c
  <2>3. /\ t \in Stages[4] /\ Stages'[4] \subseteq Stages[4] \ {t}
        /\ \A i \in 1 .. 7 : Stages'[i] \subseteq Stages[i] \cup (IF i = 5 THEN {t} ELSE {})
    BY <2>1, <2>2 DEF Stages, Called, Requested
  <2>4. StagesDisjoint' /\ \A i \in 1 .. 7 : Stages'[i] \subseteq handedOver'
    BY <2>1, <2>3, StageMove
  <2>5. t \notin Called
    BY <2>3 DEF StageInv, StagesDisjoint, Stages
  <2>6. \A a, b \in calls' : a.t = b.t => a = b
    BY <2>1, <2>2, <2>5, <1>11
  <2> QED
    BY <2>1, <2>4, <2>6 DEF StageInv, Once
<1>14. CASE \E c \in calls : SetCustomJobs(c)
  <2> PICK c \in calls : SetCustomJobs(c)
    BY <1>14
  <2>1. /\ calls' = calls \ {c}
        /\ requests' = [r \in DOMAIN requests \cup {nextRequest} |->
                            IF r = nextRequest THEN c ELSE requests[r]]
        /\ nextRequest' = nextRequest + 1
        /\ UNCHANGED <<handedOver, waiting, passed, declared, futureJobs, poolJobs>>
    BY DEF SetCustomJobs, taskVars, declareVars
  <2>2. c.t \in Stages[5] /\ c.t \notin Called' /\ Called' \subseteq Called
    BY <2>1 DEF Stages, Called, StageInv, Once
  <2>3. nextRequest \notin DOMAIN requests
    BY DEF StageInv
  <2>4. Requested' \subseteq Requested \cup {c.t}
    BY <2>1 DEF Requested
  <2>5. /\ Stages'[5] \subseteq Stages[5] \ {c.t}
        /\ \A i \in 1 .. 7 :
               Stages'[i] \subseteq Stages[i] \cup (IF i = 6 THEN {c.t} ELSE {})
    BY <2>1, <2>2, <2>4 DEF Stages
  <2>6. StagesDisjoint' /\ \A i \in 1 .. 7 : Stages'[i] \subseteq handedOver'
    BY <2>1, <2>2, <2>5, StageMove
  <2>7. c.t \notin Requested
    BY <2>2 DEF StageInv, StagesDisjoint, Stages
  <2>8. \A q, r \in DOMAIN requests' : requests'[q].t = requests'[r].t => q = r
    BY <2>1, <2>3, <2>7 DEF StageInv, Once, Requested
  <2>9. Once'
    BY <2>1, <2>8 DEF StageInv, Once
  <2>10. nextRequest' \in Nat /\ \A r \in DOMAIN requests' : r \in Nat /\ r < nextRequest'
    BY <2>1 DEF StageInv
  <2> QED
    BY <2>1, <2>6, <2>9, <2>10 DEF StageInv
<1>15. CASE \E c \in calls : SetCustomJobsFails(c)
  <2> PICK c \in calls : SetCustomJobsFails(c)
    BY <1>15
  <2>1. /\ calls' = calls \ {c}
        /\ nextRequest' = nextRequest + 1
        /\ UNCHANGED <<handedOver, waiting, passed, declared, futureJobs, requests, poolJobs>>
    BY DEF SetCustomJobsFails, taskVars, declareVars
  <2>2. \A i \in 1 .. 7 : Stages'[i] \subseteq Stages[i]
    BY <2>1 DEF Stages, Called, Requested
  <2>3. StagesDisjoint' /\ \A i \in 1 .. 7 : Stages'[i] \subseteq handedOver'
    BY <2>1, <2>2, StageShrink
  <2> QED
    BY <2>1, <2>3 DEF StageInv, Once
<1>16. CASE \E r \in DOMAIN requests : CustomJobSuccess(r) \/ CustomJobError(r)
  <2> PICK r \in DOMAIN requests : CustomJobSuccess(r) \/ CustomJobError(r)
    BY <1>16
  <2> DEFINE t == requests[r].t
  <2>1. /\ requests' = [q \in DOMAIN requests \ {r} |-> requests[q]]
        /\ poolJobs' \in {poolJobs, Insert(t)}
        /\ UNCHANGED <<handedOver, waiting, passed, declared, futureJobs, calls, nextRequest>>
    BY DEF CustomJobSuccess, CustomJobError, Restrict, taskVars, declareVars
  <2>2. t \in Stages[6] /\ t \in handedOver
    BY DEF Stages, Requested, StageInv
  <2>3. /\ poolJobs' \in Seq(Nat) /\ IsInjective(poolJobs')
        /\ Range(poolJobs') \subseteq Range(poolJobs) \cup {t}
    BY <2>1, <2>2, InsertOnce DEF StageInv, Once
  <2>4. Requested' \subseteq Requested \ {t}
    BY <2>1 DEF Requested, StageInv, Once
  <2>5. /\ Stages'[6] \subseteq Stages[6] \ {t}
        /\ \A i \in 1 .. 7 : Stages'[i] \subseteq Stages[i] \cup (IF i = 7 THEN {t} ELSE {})
    BY <2>1, <2>3, <2>4 DEF Stages, Called
  <2>6. StagesDisjoint' /\ \A i \in 1 .. 7 : Stages'[i] \subseteq handedOver'
    BY <2>1, <2>2, <2>5, StageMove
  <2> QED
    BY <2>1, <2>3, <2>6 DEF StageInv, Once
<1>17. CASE Restart
  <2>1. /\ declared' = << >> /\ futureJobs' = {} /\ calls' = {} /\ requests' = << >>
        /\ poolJobs' = << >> /\ nextRequest' = 1
        /\ UNCHANGED <<handedOver, waiting, passed>>
    BY <1>17 DEF Restart
  <2>2. \A i \in 1 .. 7 : Stages'[i] \subseteq Stages[i]
    BY <2>1 DEF Stages, Called, Requested, Range
  <2>3. StagesDisjoint' /\ \A i \in 1 .. 7 : Stages'[i] \subseteq handedOver'
    BY <2>1, <2>2, StageShrink
  <2> QED
    BY <2>1, <2>3 DEF StageInv, Once, IsInjective
<1>18. CASE UNCHANGED declaratorVars
  BY <1>18, <1>1 DEF declaratorVars
<1> QED
  BY <1>2, <1>3, <1>4, <1>5, <1>6, <1>7, <1>9, <1>10, <1>12, <1>13, <1>14, <1>15, <1>16,
     <1>17, <1>18
  DEF Next, Client, Declaration, PrevHashTask, PoolAnswer, SendCustomJob

LEMMA StageInvHolds == Spec => []StageInv
<1>1. Init => StageInv
  <2> SUFFICES ASSUME Init
               PROVE  StageInv
    OBVIOUS
  <2>1. \A i \in 1 .. 7 : Stages[i] = {}
    BY DEF Init, Stages, Called, Requested, Range
  <2>2. Once
    BY DEF Init, Once, IsInjective
  <2> QED
    BY <2>1, <2>2 DEF Init, StageInv, StagesDisjoint
<1>2. StageInv /\ [Next]_declaratorVars => StageInv'
  BY StageStep
<1> QED
  BY <1>1, <1>2, PTL DEF Spec

\* A set with at most one element.
LEMMA AtMostOne ==
    ASSUME NEW S, \A x, y \in S : x = y
    PROVE  /\ Cardinality(S) \in {0, 1}
           /\ S = {} => Cardinality(S) = 0
<1>1. CASE S = {}
  BY <1>1, FS_EmptySet
<1>2. CASE S # {}
  <2>1. PICK x : S = {x}
    BY <1>2
  <2> QED
    BY <2>1, FS_Singleton
<1> QED
  BY <1>1, <1>2

\* The pipeline of jd_client is one to one: whatever the order in which the pool
\* answers, the tasks pass the gate and sessions restart, a template is declared
\* and set as a custom job at most once.
THEOREM OneStageHolds == Spec => []OneStage
<1>1. StageInv => OneStage
  <2> SUFFICES ASSUME StageInv, NEW t \in Templates
               PROVE  OneStage!(t)
    BY DEF OneStage
  <2> DEFINE D == {i \in 1 .. Len(declared) : declared[i] = t}
             W == {S \in {<<"w", waiting>>, <<"p", passed>>, <<"f", futureJobs>>} :
                       t \in S[2]}
             C == {c \in calls : c.t = t}
             R == {r \in DOMAIN requests : requests[r].t = t}
             P == {i \in 1 .. Len(poolJobs) : poolJobs[i] = t}
  <2>1. \A i, j \in 1 .. 7 : t \in Stages[i] /\ t \in Stages[j] => i = j
    BY DEF StageInv, StagesDisjoint
  <2>2. /\ Cardinality(D) \in {0, 1}
        /\ t \notin Stages[3] => Cardinality(D) = 0
    <3>1. \A i, j \in D : i = j
      BY DEF StageInv, Once, IsInjective
    <3>2. t \notin Stages[3] => D = {}
      BY DEF StageInv, Stages, Range
    <3> QED
      BY <3>1, <3>2, AtMostOne
  <2>3. /\ Cardinality(W) \in {0, 1}
        /\ t \notin Stages[1] /\ t \notin Stages[2] /\ t \notin Stages[4]
               => Cardinality(W) = 0
    <3>1. ASSUME NEW a \in W, NEW b \in W
          PROVE  a = b
      <4>1. /\ t \in waiting => t \notin passed /\ t \notin futureJobs
            /\ t \in passed => t \notin futureJobs
        BY <2>1 DEF Stages
      <4> QED
        BY <4>1, <3>1
    <3>2. t \notin Stages[1] /\ t \notin Stages[2] /\ t \notin Stages[4] => W = {}
      BY DEF Stages
    <3> QED
      BY <3>1, <3>2, AtMostOne
  <2>4. /\ Cardinality(C) \in {0, 1}
        /\ t \notin Stages[5] => Cardinality(C) = 0
    <3>1. \A c, d \in C : c = d
      BY DEF StageInv, Once
    <3>2. t \notin Stages[5] => C = {}
      BY DEF Stages, Called
    <3> QED
      BY <3>1, <3>2, AtMostOne
  <2>5. /\ Cardinality(R) \in {0, 1}
        /\ t \notin Stages[6] => Cardinality(R) = 0
    <3>1. \A q, r \in R : q = r
      BY DEF StageInv, Once
    <3>2. t \notin Stages[6] => R = {}
      BY DEF Stages, Requested
    <3> QED
      BY <3>1, <3>2, AtMostOne
  <2>6. /\ Cardinality(P) \in {0, 1}
        /\ t \notin Stages[7] => Cardinality(P) = 0
    <3>1. \A i, j \in P : i = j
      BY DEF StageInv, Once, IsInjective
    <3>2. t \notin Stages[7] => P = {}
      BY DEF StageInv, Stages, Range
    <3> QED
      BY <3>1, <3>2, AtMostOne
  <2> HIDE DEF D, W, C, R, P
  <2>7. Cardinality(D) + Cardinality(W) + Cardinality(C) + Cardinality(R)
            + Cardinality(P) <= 1
    BY <2>1, <2>2, <2>3, <2>4, <2>5, <2>6
  <2> QED
    BY <2>7 DEF D, W, C, R, P
<1> QED
  BY <1>1, StageInvHolds, PTL

-----------------------------------------------------------------------------
(* The owner of the gate *)

\* IS_CUSTOM_JOB_SET is never left down by a session that goes on: every step
\* that takes the flag down, or takes away the declaration that would put it up
\* again, leaves another one that will, a restart, or one of the two ways of
\* losing it that GateHasOwner names.
THEOREM GateHasOwnerHolds == Spec => []GateHasOwner
<1>1. Init => GateHasOwner
  BY DEF Init, GateHasOwner
<1>2. ASSUME StageInv, GateHasOwner, [Next]_declaratorVars
      PROVE  GateHasOwner'
  <2> USE <1>2
  <2>1. ASSUME UNCHANGED <<customJobSet, declared, futureJobs, calls, requests, lost, main>>,
               down => down'
        PROVE  GateHasOwner'
    BY <2>1 DEF GateHasOwner, CustomJobs
  <2>2. CASE NewTemplate \/ AskRestart
    BY <2>2, <2>1 DEF NewTemplate, AskRestart, gateVars, declareVars, customVars
  <2>3. CASE \E t \in Templates : OnNewTemplate(t) \/ PassGate(t) \/ OnSetNewPrevHash(t)
                                  \/ StartPrevHash(t) \/ LeavePrevHash(t)
    BY <2>3, <2>1 DEF OnNewTemplate, PassGate, OnSetNewPrevHash, StartPrevHash,
                      LeavePrevHash, gateVars, declareVars, customVars
  <2>4. CASE FreeGate \/ Restart
    BY <2>4 DEF FreeGate, Restart, GateHasOwner
  <2>5. CASE \E t \in Templates : GateTimeout(t) \/ DeclareFails(t) \/ OrphanDeclares(t)
    BY <2>5 DEF GateTimeout, DeclareFails, OrphanDeclares, GateHasOwner
  <2>6. CASE \E t \in Templates : Declare(t)
    <3> PICK t \in Templates : Declare(t)
      BY <2>6
    <3>1. t \in Stages[2] /\ t \in handedOver /\ t \notin Range(declared)
      BY DEF Declare, Stages, StageInv, StagesDisjoint
    <3>2. declared' = Record(t)
      BY DEF Declare
    <3>3. Record(t) # << >>
      <4> DEFINE kept == IF Len(declared) < MaxDeclared THEN declared ELSE Tail(declared)
      <4>1. declared \in Seq(Nat) /\ t \in Nat
        BY <3>1 DEF StageInv
      <4>2. Len(declared) < MaxDeclared \/ declared # << >>
        BY DeclaratorAssumption DEF DeclaratorAssumption, StageInv
      <4>3. kept \in Seq(Nat)
        BY <4>1, <4>2, HeadTailProperties
      <4> QED
        BY <4>1, <4>3, AppendProperties DEF Record
    <3> QED
      BY <3>2, <3>3 DEF GateHasOwner
  <2>7. CASE \E t \in Templates : DeclareSuccessFuture(t)
    BY <2>7 DEF DeclareSuccessFuture, GateHasOwner
  <2>8. CASE \E t \in Templates : DeclareSuccess(t)
    BY <2>8 DEF DeclareSuccess, GateHasOwner, CustomJobs
  <2>9. CASE \E t \in Templates : DeclareError(t)
    BY <2>9 DEF DeclareError, GateHasOwner
  <2>10. CASE \E t \in Templates : DeclareUnknown(t)
    <3> PICK t \in Templates : DeclareUnknown(t)
      BY <2>10
    <3>1. RemoveFirst(declared, t) = declared
      BY DEF DeclareUnknown, RemoveFirst, Range, StageInv
    <3> QED
      BY <3>1, <2>1 DEF DeclareUnknown, Answered, gateVars, customVars
  <2>11. CASE \E t \in Templates : ActivateFutureJob(t)
    BY <2>11 DEF ActivateFutureJob, GateHasOwner, CustomJobs
  <2>12. CASE \E c \in calls : SetCustomJobs(c)
    <3> PICK c \in calls : SetCustomJobs(c)
      BY <2>12
    <3>1. nextRequest \in DOMAIN requests'
      BY DEF SetCustomJobs
    <3> QED
      BY <3>1 DEF GateHasOwner, CustomJobs, Range
  <2>13. CASE \/ \E c \in calls : SetCustomJobsFails(c)
              \/ \E r \in DOMAIN requests : CustomJobSuccess(r) \/ CustomJobError(r)
    BY <2>13 DEF SetCustomJobsFails, CustomJobSuccess, CustomJobError, GateHasOwner
  <2>14. CASE UNCHANGED declaratorVars
    BY <2>14, <2>1 DEF declaratorVars
  <2> QED
    BY <2>2, <2>3, <2>4, <2>5, <2>6, <2>7, <2>8, <2>9, <2>10, <2>11, <2>12, <2>13, <2>14
    DEF Next, Client, Declaration, PrevHashTask, PoolAnswer, SendCustomJob
<1> QED
  BY <1>1, <1>2, StageInvHolds, PTL DEF Spec

=============================================================================
