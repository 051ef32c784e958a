---------------------------- MODULE Sessions_proofs ----------------------------
(***************************************************************************)
(* Theorems about what the sessions of the proxy share and leave behind:   *)
(* the sessions' own life (Lifecycle), the upstream channel and the list   *)
(* of miners (Channel), and the worker summary that outlives them          *)
(* (WorkerSummary), for every set of pools, miners, rates, connections,    *)
(* names and tokens and every capacity, window and time-out.               *)
(***************************************************************************)
EXTENDS Lifecycle, Channel, WorkerSummary, FiniteSetTheorems, SequenceTheorems,
        WellFoundedInduction, TLAPS

-----------------------------------------------------------------------------
(* The life of a session.  The three invariants are inductive together with   *)
(* the types of the counters and of the pools they speak of: OneRetry needs   *)
(* to know that a session inside jd_client::start read TP_ADDRESS as Some,    *)
(* which only another session could take back.                                *)

LifecycleInv == TypeOK /\ OneRetry /\ DegradedIsTemporary /\ DeclaresToItsPool

\* The state that start_internal hands to initialize_proxy is consistent.
LEMMA InvInit == Init => LifecycleInv
<1> SUFFICES ASSUME Init
             PROVE  LifecycleInv
  OBVIOUS
<1>1. poolAddr \in Pools \cup {None}
  BY DEF Init
<1>2. TypeOK
  <2>1. phase \notin Connected \cup {"connecting"}
    BY DEF Init, Running, Connected
  <2>2. {shutdown, configured, tpAddress} \subseteq BOOLEAN
    BY DEF Init
  <2>3. trying \in Nat /\ reporting \in 0 .. MaxReporting
    BY LifecycleAssumption DEF Init
  <2> QED
    BY <1>1, <2>1, <2>2, <2>3 DEF Init, TypeOK
<1>3. OneRetry
  BY DEF Init, OneRetry
<1> QED
  BY <1>2, <1>3 DEF Init, LifecycleInv, DegradedIsTemporary, DeclaresToItsPool, Running, Connected

\* Every step of initialize_proxy up to the start of the job-declaration client
\* keeps the session consistent.
LEMMA StartKeepsInv ==
    LifecycleInv /\ (StopAtTop \/ BeginConnect \/ SelectStep \/ ConnectStep \/ StartStep) => LifecycleInv'
<1> SUFFICES ASSUME LifecycleInv,
                    StopAtTop \/ BeginConnect \/ SelectStep \/ ConnectStep \/ StartStep
             PROVE  LifecycleInv'
  OBVIOUS
<1> USE LifecycleAssumption
    DEF LifecycleInv, TypeOK, OneRetry, DegradedIsTemporary, DeclaresToItsPool, Running,
        Connected, tpVars
<1>1. CASE StopAtTop
  BY <1>1 DEF StopAtTop
<1>2. CASE BeginConnect
  BY <1>2 DEF BeginConnect
<1>3. CASE SelectStep
  <2>1. CASE SelectNoPool
    BY <2>1 DEF SelectNoPool
  <2>2. ASSUME NEW pool \in Pools, SelectPool(pool)
        PROVE  LifecycleInv'
    BY <2>2 DEF SelectPool
  <2> QED
    BY <1>3, <2>1, <2>2 DEF SelectStep
<1>4. CASE ConnectStep
  <2>1. CASE Connect
    BY <2>1 DEF Connect
  <2>2. CASE ConnectFails
    BY <2>2 DEF ConnectFails
  <2>3. CASE ConnectShutdown
    BY <2>3 DEF ConnectShutdown
  <2> QED
    BY <1>4, <2>1, <2>2, <2>3 DEF ConnectStep
<1>5. CASE StartStep
  <2>1. CASE TranslatorFails
    BY <2>1 DEF TranslatorFails
  <2>2. CASE ReadTpAddress
    BY <2>2 DEF ReadTpAddress
  <2> QED
    BY <1>5, <2>1, <2>2 DEF StartStep
<1> QED
  BY <1>1, <1>2, <1>3, <1>4, <1>5

\* So do the start of the client, the retries it leaves behind and the reports of
\* any other task.
LEMMA ClientKeepsInv ==
    ASSUME LifecycleInv,
           \/ JdStep \/ RetryConnects \/ RetryReports
           \/ (\E field \in Fields : ReportDown(field)) \/ HandleShutdown
    PROVE  LifecycleInv'
<1> USE LifecycleAssumption
    DEF LifecycleInv, TypeOK, OneRetry, DegradedIsTemporary, DeclaresToItsPool, Running,
        Connected, tpVars
<1>1. CASE JdStep
  <2>1. CASE JdStarted
    BY <2>1 DEF JdStarted
  <2>2. CASE JdFails
    BY <2>2 DEF JdFails
  <2>3. CASE TpUnreachable
    <3>1. trying = 0 /\ configured
      BY <2>3 DEF TpUnreachable
    <3>2. /\ trying' = 1 /\ configured' /\ ~tpAddress'
          /\ phase' = "accounting" /\ mode' = "failed"
      BY <2>3, <3>1 DEF TpUnreachable
    <3>3. OneRetry'
      BY <3>2
    <3>4. TypeOK'
      <4>1. {shutdown, configured, tpAddress}' \subseteq BOOLEAN
        BY <2>3 DEF TpUnreachable
      <4>2. trying' \in Nat /\ reporting' \in 0 .. MaxReporting
        BY <2>3, <3>2 DEF TpUnreachable
      <4>3. downs' \subseteq Fields
        BY <2>3 DEF TpUnreachable
      <4> QED
        BY <2>3, <3>2, <4>1, <4>2, <4>3 DEF TpUnreachable
    <3> QED
      BY <2>3, <3>2, <3>3, <3>4 DEF TpUnreachable
  <2> QED
    BY <1>1, <2>1, <2>2, <2>3 DEF JdStep
<1>2. CASE RetryConnects
  BY <1>2 DEF RetryConnects
<1>3. CASE RetryReports
  BY <1>3 DEF RetryReports
<1>4. ASSUME NEW field \in Fields, ReportDown(field)
      PROVE  LifecycleInv'
  BY <1>4 DEF ReportDown
<1>5. CASE HandleShutdown
  BY <1>5 DEF HandleShutdown
<1> QED
  BY <1>1, <1>2, <1>3, <1>4, <1>5

\* And so do the monitor and the reset that follows it.
LEMMA MonitorKeepsInv ==
    ASSUME LifecycleInv,
           \/ AccountingStep \/ MonitorShutdown \/ MonitorTaskFinished \/ MonitorDown
           \/ BeginProbe \/ ProbeStep \/ ProbeStuck \/ Reset
    PROVE  LifecycleInv'
<1> USE LifecycleAssumption
    DEF LifecycleInv, TypeOK, OneRetry, DegradedIsTemporary, DeclaresToItsPool, Running,
        Connected, tpVars
<1>1. ASSUME NEW pool \in Pools \cup {None}, Leave(pool)
      PROVE  LifecycleInv'
  BY <1>1 DEF Leave
<1>2. CASE AccountingStep
  <2>1. CASE StartMonitor
    BY <2>1 DEF StartMonitor
  <2>2. CASE AccounterFails
    BY <2>2 DEF AccounterFails
  <2> QED
    BY <1>2, <2>1, <2>2 DEF AccountingStep
<1>3. CASE MonitorShutdown \/ MonitorTaskFinished \/ MonitorDown
  <2>1. Leave(None)
    BY <1>3 DEF MonitorShutdown, MonitorTaskFinished, MonitorDown
  <2> QED
    BY <1>1, <2>1
<1>4. CASE BeginProbe
  BY <1>4 DEF BeginProbe
<1>5. CASE ProbeStep
  <2>1. CASE ProbeFindsNone
    BY <2>1 DEF ProbeFindsNone
  <2>2. ASSUME NEW pool \in Pools, ProbeFindsFaster(pool)
        PROVE  LifecycleInv'
    <3>1. Leave(pool)
      BY <2>2 DEF ProbeFindsFaster
    <3> QED
      BY <1>1, <3>1
  <2> QED
    BY <1>5, <2>1, <2>2 DEF ProbeStep
<1>6. CASE ProbeStuck
  BY <1>6 DEF ProbeStuck
<1>7. CASE Reset
  BY <1>7 DEF Reset
<1> QED
  BY <1>2, <1>3, <1>4, <1>5, <1>6, <1>7

\* The proxy's sessions are consistent in every reachable state.
THEOREM InvHolds == Spec => []LifecycleInv
<1>1. LifecycleInv /\ [Next]_lifecycleVars => LifecycleInv'
  <2> SUFFICES ASSUME LifecycleInv, [Next]_lifecycleVars
               PROVE  LifecycleInv'
    OBVIOUS
  <2>1. CASE UNCHANGED lifecycleVars
    BY <2>1 DEF lifecycleVars, LifecycleInv, TypeOK, OneRetry, DegradedIsTemporary,
                DeclaresToItsPool, Running, Connected
  <2>2. CASE Next
    BY <2>2, StartKeepsInv, ClientKeepsInv, MonitorKeepsInv DEF Next
  <2> QED
    BY <2>1, <2>2
<1> QED
  BY InvInit, <1>1, PTL DEF Spec

\* The counters, pools and phases of the sessions keep their types.
THEOREM TypeCorrect == Spec => []TypeOK
<1>1. LifecycleInv => TypeOK
  BY DEF LifecycleInv
<1> QED
  BY InvHolds, <1>1, PTL

\* A template provider that could not be reached is waited for by exactly one
\* retry_connection task, in every interleaving of restarts and retries.
THEOREM OneRetryHolds == Spec => []OneRetry
<1>1. LifecycleInv => OneRetry
  BY DEF LifecycleInv
<1> QED
  BY InvHolds, <1>1, PTL

\* The report that ends a session without job declaration is never lost.
THEOREM DegradedIsTemporaryHolds == Spec => []DegradedIsTemporary
<1>1. LifecycleInv => DegradedIsTemporary
  BY DEF LifecycleInv
<1> QED
  BY InvHolds, <1>1, PTL

\* The declarator's address is the mining connection's, for every set of pools.
THEOREM DeclaresToItsPoolHolds == Spec => []DeclaresToItsPool
<1>1. LifecycleInv => DeclaresToItsPool
  BY DEF LifecycleInv
<1> QED
  BY InvHolds, <1>1, PTL

-----------------------------------------------------------------------------
(* The pool is told *)

\* A hashrate that changed after it was read for sending left its mark.
ReadIsMarked == diff.stage = "sending" /\ diff.rate # nominal => unseen

Noticed ==
    /\ UnsentIsNoticed /\ ReadIsMarked
    /\ unseen \in BOOLEAN
    /\ diff = [stage |-> diff.stage, rate |-> diff.rate]

\* What a step does to the watch channel and to the diff management task.
Raises == unseen' = TRUE /\ UNCHANGED upstreamVars
Leaves == UNCHANGED <<nominal, unseen, upstreamVars>>

LEMMA WatchMoves ==
    ASSUME ChannelNext
    PROVE  \/ Raises
           \/ Leaves
           \/ DiffManagement
<1> USE DEF minerVars, upstreamVars, statsVars, Raises, Leaves
<1>1. ASSUME NEW m \in Miners, Stats(m) \/ KillTasks(m) PROVE Leaves
  BY <1>1 DEF Stats, StartLists, StartUnlists, ReaderUnlists, UpdateStats, KillTasks
<1>2. ASSUME NEW m \in Miners, Bootstrap(m) PROVE Raises \/ Leaves
  BY <1>2 DEF Bootstrap, StartReads, StartAdds, StartMarks, StartChecks, StartTakes,
              StartUndoes, Subtract, SetNominal
<1>3. ASSUME NEW m \in Miners, End(m) PROVE Raises \/ Leaves
  BY <1>3 DEF End, ReaderCloses, ReaderTakes, ReaderSubtracts, Subtract, SetNominal
<1>4. ASSUME NEW m \in Miners, Retarget(m) PROVE Raises \/ Leaves
  BY <1>4 DEF Retarget, UpdateReestimates, ReconcileChannel, MaybeRaise, LimitReestimates,
              SetNominal
<1>5. ManagerHandles => Leaves
  BY DEF ManagerHandles
<1> QED
  BY <1>1, <1>2, <1>3, <1>4, <1>5 DEF ChannelNext, DiffStep

LEMMA NoticedStep ==
    ASSUME Noticed, [ChannelNext]_channelVars
    PROVE  Noticed'
<1> USE DEF Noticed, UnsentIsNoticed, ReadIsMarked
<1>1. CASE Raises
  BY <1>1 DEF Raises, upstreamVars
<1>2. CASE Leaves
  BY <1>2 DEF Leaves, upstreamVars
<1>3. CASE DiffWakes
  BY <1>3 DEF DiffWakes, DiffGoes
<1>4. CASE DiffMarksSeen
  BY <1>4 DEF DiffMarksSeen, DiffGoes
<1>5. CASE DiffReads
  BY <1>5 DEF DiffReads
<1>6. CASE DiffSends
  BY <1>6 DEF DiffSends, DiffGoes
<1>7. CASE UNCHANGED channelVars
  BY <1>7 DEF channelVars, upstreamVars
<1> QED
  BY <1>1, <1>2, <1>3, <1>4, <1>5, <1>6, <1>7, WatchMoves DEF DiffManagement

\* run_diff_management never sleeps on a hashrate the pool was not told: a change
\* made while the task reads, waits for the limiter or sends wakes it again.
THEOREM UnsentIsNoticedHolds == ChannelSpec => []UnsentIsNoticed
<1>1. ChannelInit => Noticed
  <2> SUFFICES ASSUME ChannelInit PROVE Noticed
    OBVIOUS
  <2>1. nominal = 0 /\ sent = 0 /\ unseen = FALSE /\ diff = [stage |-> "idle", rate |-> 0]
    BY DEF ChannelInit
  <2> QED
    BY <2>1 DEF Noticed, UnsentIsNoticed, ReadIsMarked
<1>2. Noticed /\ [ChannelNext]_channelVars => Noticed'
  BY NoticedStep
<1>3. Noticed => UnsentIsNoticed
  BY DEF Noticed
<1> QED
  BY <1>1, <1>2, <1>3, PTL DEF ChannelSpec

-----------------------------------------------------------------------------
(* The list of miners: q is the StatsManager's channel, s its list *)

Commands == [kind : {"setup", "remove", "update"}, miner : Miners]
At(q, i, kind, m) == q[i].kind = kind /\ q[i].miner = m

Unmentioned(q, m) == \A i \in 1 .. Len(q) : ~At(q, i, "remove", m)

\* The last command about the miner that is not an update takes it off the list.
Unlisting(q, s, m) ==
    /\ \A i \in 1 .. Len(q) :
           At(q, i, "setup", m) => \E j \in i + 1 .. Len(q) : At(q, j, "remove", m)
    /\ m \in s => \E j \in 1 .. Len(q) : At(q, j, "remove", m)

\* The miner is on the list or will be, and nothing takes it off.
Listing(q, s, m) ==
    /\ Unmentioned(q, m)
    /\ m \notin s => \E i \in 1 .. Len(q) : At(q, i, "setup", m)

LEMMA SendCommand ==
    ASSUME NEW q \in Seq(Commands), NEW c \in Commands, NEW s, NEW m \in Miners
    PROVE  LET a == Append(q, c)
               about == c.miner = m
           IN /\ a \in Seq(Commands)
              /\ about /\ c.kind = "remove" => Unlisting(a, s, m)
              /\ about /\ c.kind = "setup" /\ Unmentioned(q, m) => Listing(a, s, m)
              /\ ~(about /\ c.kind = "setup") /\ Unlisting(q, s, m) => Unlisting(a, s, m)
              /\ ~(about /\ c.kind = "remove") /\ Listing(q, s, m) => Listing(a, s, m)
              /\ ~(about /\ c.kind = "remove") /\ Unmentioned(q, m) => Unmentioned(a, m)
<1> DEFINE a == Append(q, c)
           n == Len(q) + 1
<1>1. /\ a \in Seq(Commands) /\ Len(q) \in Nat /\ Len(a) = n /\ a[n] = c
      /\ \A i \in 1 .. Len(q) : a[i] = q[i]
  BY AppendProperties, LenProperties
<1> HIDE DEF a
<1>2. /\ \A kind : \A i \in 1 .. Len(q) : At(a, i, kind, m) <=> At(q, i, kind, m)
      /\ \A kind : At(a, n, kind, m) <=> c.kind = kind /\ c.miner = m
      /\ 1 .. Len(a) = (1 .. Len(q)) \cup {n}
  BY <1>1 DEF At
<1>3. c.miner = m /\ c.kind = "remove" => Unlisting(a, s, m)
  <2> SUFFICES ASSUME c.miner = m, c.kind = "remove" PROVE Unlisting(a, s, m)
    OBVIOUS
  <2>1. At(a, n, "remove", m) /\ ~At(a, n, "setup", m) /\ n \in 1 .. Len(a)
    BY <1>1, <1>2
  <2>2. \A i \in 1 .. Len(q) : n \in i + 1 .. Len(a)
    BY <1>1
  <2> QED
    BY <1>2, <2>1, <2>2 DEF Unlisting
<1>4. ~(c.miner = m /\ c.kind = "remove") /\ Unmentioned(q, m) => Unmentioned(a, m)
  BY <1>2 DEF Unmentioned
<1>5. c.miner = m /\ c.kind = "setup" /\ Unmentioned(q, m) => Listing(a, s, m)
  BY <1>2, <1>4 DEF Listing
<1>6. ~(c.miner = m /\ c.kind = "remove") /\ Listing(q, s, m) => Listing(a, s, m)
  BY <1>2, <1>4 DEF Listing
<1>7. ~(c.miner = m /\ c.kind = "setup") /\ Unlisting(q, s, m) => Unlisting(a, s, m)
  <2> SUFFICES ASSUME ~(c.miner = m /\ c.kind = "setup"), Unlisting(q, s, m)
               PROVE  Unlisting(a, s, m)
    OBVIOUS
  <2>1. ASSUME NEW i \in 1 .. Len(a), At(a, i, "setup", m)
        PROVE  \E j \in i + 1 .. Len(a) : At(a, j, "remove", m)
    <3>1. i \in 1 .. Len(q) /\ At(q, i, "setup", m)
      BY <1>2, <2>1
    <3>2. PICK j \in i + 1 .. Len(q) : At(q, j, "remove", m)
      BY <3>1 DEF Unlisting
    <3>3. j \in 1 .. Len(q) /\ j \in i + 1 .. Len(a)
      BY <1>1, <3>1
    <3> QED
      BY <1>2, <3>2, <3>3
  <2>2. m \in s => \E j \in 1 .. Len(a) : At(a, j, "remove", m)
    BY <1>2 DEF Unlisting
  <2> QED
    BY <2>1, <2>2 DEF Unlisting
<1> QED
  BY <1>1, <1>3, <1>4, <1>5, <1>6, <1>7 DEF a

LEMMA HandleCommand ==
    ASSUME NEW q \in Seq(Commands), q # << >>, NEW s, NEW t, NEW m \in Miners,
           Head(q).miner # m \/ Head(q).kind = "update" => (m \in t <=> m \in s),
           Head(q).miner = m /\ Head(q).kind = "setup" => m \in t,
           Head(q).miner = m /\ Head(q).kind = "remove" => m \notin t
    PROVE  /\ Tail(q) \in Seq(Commands)
           /\ Unlisting(q, s, m) => Unlisting(Tail(q), t, m)
           /\ Listing(q, s, m) => Listing(Tail(q), t, m)
           /\ Unmentioned(q, m) => Unmentioned(Tail(q), m)
<1> DEFINE r == Tail(q)
           h == Head(q)
<1>1. /\ r \in Seq(Commands) /\ h = q[1] /\ h \in Commands
      /\ Len(q) \in Nat /\ Len(q) >= 1 /\ Len(r) = Len(q) - 1
      /\ \A i \in 1 .. Len(r) : r[i] = q[i + 1]
  <2>1. Len(q) \in Nat /\ Len(q) # 0
    BY LenProperties, EmptySeq
  <2> QED
    BY <2>1, HeadTailProperties
<1>2. h.kind \in {"setup", "remove", "update"}
  BY <1>1 DEF Commands
<1>3. \A kind : At(q, 1, kind, m) <=> h.kind = kind /\ h.miner = m
  BY <1>1 DEF At
<1> HIDE DEF r, h
<1>4. \A kind : \A i \in 1 .. Len(r) : At(r, i, kind, m) <=> At(q, i + 1, kind, m)
  BY <1>1 DEF At
<1>5. /\ \A i \in 1 .. Len(r) : i + 1 \in 1 .. Len(q)
      /\ \A i \in 1 .. Len(q) : i # 1 => i - 1 \in 1 .. Len(r) /\ (i - 1) + 1 = i
  BY <1>1
<1>6. Unmentioned(q, m) => Unmentioned(r, m)
  BY <1>4, <1>5 DEF Unmentioned
<1>7. ASSUME Listing(q, s, m) PROVE Listing(r, t, m)
  <2>1. h.kind # "remove" \/ h.miner # m
    BY <1>1, <1>3, <1>7 DEF Listing, Unmentioned
  <2>2. ASSUME m \notin t PROVE \E i \in 1 .. Len(r) : At(r, i, "setup", m)
    <3>1. m \notin s
      BY <1>2, <2>1, <2>2 DEF h
    <3>2. PICK i \in 1 .. Len(q) : At(q, i, "setup", m)
      BY <1>7, <3>1 DEF Listing
    <3>3. i # 1
      BY <1>3, <2>2, <3>2 DEF h
    <3>4. i - 1 \in 1 .. Len(r) /\ At(r, i - 1, "setup", m)
      BY <1>4, <1>5, <3>2, <3>3
    <3> QED
      BY <3>4
  <2> QED
    BY <1>6, <1>7, <2>2 DEF Listing
<1>8. ASSUME Unlisting(q, s, m) PROVE Unlisting(r, t, m)
  <2>1. ASSUME NEW i \in 1 .. Len(r), At(r, i, "setup", m)
        PROVE  \E j \in i + 1 .. Len(r) : At(r, j, "remove", m)
    <3>1. i + 1 \in 1 .. Len(q) /\ At(q, i + 1, "setup", m)
      BY <1>4, <1>5, <2>1
    <3>2. PICK j \in i + 2 .. Len(q) : At(q, j, "remove", m)
      <4>1. PICK j \in (i + 1) + 1 .. Len(q) : At(q, j, "remove", m)
        BY <1>8, <3>1 DEF Unlisting
      <4> QED
        BY <4>1
    <3>3. j \in 1 .. Len(q) /\ j # 1 /\ j - 1 \in i + 1 .. Len(r)
      BY <1>1, <3>2
    <3> QED
      BY <1>4, <1>5, <3>2, <3>3
  <2>2. ASSUME m \in t PROVE \E j \in 1 .. Len(r) : At(r, j, "remove", m)
    <3>1. h.kind # "remove" \/ h.miner # m
      BY <2>2 DEF h
    <3>2. PICK j \in 1 .. Len(q) : At(q, j, "remove", m)
      <4>1. CASE m \in s
        BY <1>8, <4>1 DEF Unlisting
      <4>2. CASE m \notin s
        <5>1. At(q, 1, "setup", m)
          BY <1>2, <1>3, <2>2, <3>1, <4>2 DEF h
        <5>2. PICK j \in 1 + 1 .. Len(q) : At(q, j, "remove", m)
          BY <1>1, <1>8, <5>1 DEF Unlisting
        <5>3. j \in 1 .. Len(q)
          BY <1>1
        <5> QED
          BY <5>2, <5>3
      <4> QED
        BY <4>1, <4>2
    <3>3. j # 1
      BY <1>3, <3>1, <3>2
    <3>4. j - 1 \in 1 .. Len(r) /\ At(r, j - 1, "remove", m)
      BY <1>4, <1>5, <3>2, <3>3
    <3> QED
      BY <3>4
  <2> QED
    BY <2>1, <2>2 DEF Unlisting
<1> QED
  BY <1>1, <1>6, <1>7, <1>8 DEF r

\* The miner's start listed it, and neither the start nor the reader took that back.
Listed(m) ==
    \/ boot[m] \in {"stats", "rollback"}
    \/ boot[m] = "running" /\ reader[m] \in {"open", "closed"}

\* Nobody took anything back yet.
Silent(m) ==
    /\ boot[m] \in {"new", "read", "added", "setup", "stats", "rollback", "running"}
    /\ reader[m] \in {"open", "closed"}

ListTypes ==
    /\ statsQ \in Seq(Commands)
    /\ boot \in [Miners -> {"new", "read", "added", "setup", "stats", "running", "rollback",
                            "unlisted", "undo", "done", "killed"}]
    /\ reader \in [Miners -> {"open", "closed", "unlisted", "taken", "removed", "killed"}]

\* The order of the commands follows the miner's two tasks.
MinerListed(m) ==
    /\ ~Listed(m) /\ m \notin leaked => Unlisting(statsQ, stats, m)
    /\ Silent(m) /\ Listed(m) => Listing(statsQ, stats, m)
    /\ Silent(m) => Unmentioned(statsQ, m)

ListInv == ListTypes /\ \A m \in Miners : MinerListed(m)

LEMMA AwaitedAt ==
    ASSUME ListTypes, NEW m \in Miners, NEW kind
    PROVE  Awaited(kind, m) <=> \E i \in 1 .. Len(statsQ) : At(statsQ, i, kind, m)
<1>1. /\ DOMAIN statsQ = 1 .. Len(statsQ)
      /\ \A i \in 1 .. Len(statsQ) : statsQ[i] \in Commands
  BY ElementOfSeq, LenProperties DEF ListTypes
<1>2. \A i \in 1 .. Len(statsQ) :
          At(statsQ, i, kind, m) <=> statsQ[i] = [kind |-> kind, miner |-> m]
  BY <1>1 DEF At, Commands
<1> QED
  BY <1>1, <1>2 DEF Awaited

LEMMA ListInvImplies == ListInv => ListedUnlessLeaked
<1> SUFFICES ASSUME ListInv, NEW m \in Miners
             PROVE  /\ (reader[m] = "open" /\ boot[m] = "running" /\ ~Awaited("setup", m))
                           => m \in stats
                    /\ (/\ reader[m] = "killed" /\ boot[m] \in {"done", "killed"}
                        /\ ~Awaited("remove", m)) => m \notin stats \/ m \in leaked
  BY DEF ListedUnlessLeaked
<1>1. MinerListed(m) /\ ListTypes
  BY DEF ListInv
<1> QED
  BY <1>1, AwaitedAt DEF MinerListed, Listed, Silent, Listing, Unlisting

\* Steps of the miner's tasks that send no command.
Mute(n) ==
    /\ UNCHANGED <<statsQ, stats>>
    /\ boot' = [boot EXCEPT ![n] = boot'[n]]
    /\ reader' = [reader EXCEPT ![n] = reader'[n]]
    /\ \/ UNCHANGED <<boot, reader, leaked>>
       \/ /\ boot[n] = "new" /\ boot'[n] \in {"read", "done"} /\ UNCHANGED <<reader, leaked>>
       \/ /\ boot[n] = "read" /\ boot'[n] = "added" /\ UNCHANGED <<reader, leaked>>
       \/ /\ boot[n] = "added" /\ boot'[n] = "setup" /\ UNCHANGED <<reader, leaked>>
       \/ /\ boot[n] = "stats" /\ UNCHANGED <<reader, leaked>>
          /\ boot'[n] = IF reader[n] = "open" THEN "running" ELSE "rollback"
       \/ /\ boot[n] \in {"unlisted", "undo"} /\ boot'[n] \in {"undo", "done"}
          /\ UNCHANGED <<reader, leaked>>
       \/ /\ reader[n] = "open" /\ reader'[n] = "closed" /\ UNCHANGED <<boot, leaked>>
       \/ /\ reader[n] = "unlisted" /\ reader'[n] = "taken" /\ UNCHANGED <<boot, leaked>>
       \/ /\ reader[n] = "taken" /\ reader'[n] = "removed" /\ UNCHANGED <<boot, leaked>>
       \/ /\ reader[n] = "removed" /\ reader'[n] = "killed"
          /\ boot[n] \in {"new", "setup", "rollback", "running", "done"}
          /\ boot'[n] \in {"killed", "done"}
          /\ leaked' = leaked \cup (IF boot[n] = "rollback" THEN {n} ELSE {})

\* Steps that send one.
Sends(n, kind) ==
    /\ Command(kind, n)
    /\ boot' = [boot EXCEPT ![n] = boot'[n]]
    /\ reader' = [reader EXCEPT ![n] = reader'[n]]
    /\ \/ /\ kind = "setup" /\ boot[n] = "setup" /\ boot'[n] = "stats" /\ UNCHANGED reader
       \/ /\ kind = "remove" /\ boot[n] = "rollback" /\ boot'[n] = "unlisted"
          /\ UNCHANGED reader
       \/ /\ kind = "remove" /\ reader[n] = "closed" /\ reader'[n] = "unlisted"
          /\ UNCHANGED boot
       \/ kind = "update" /\ UNCHANGED <<boot, reader>>

LEMMA ListMoves ==
    ASSUME ListTypes, ChannelNext
    PROVE  \/ \E n \in Miners :
                  Mute(n) \/ \E kind \in {"setup", "remove", "update"} : Sends(n, kind)
           \/ ManagerHandles
           \/ UNCHANGED <<statsQ, stats, leaked, boot, reader>>
<1> USE DEF minerVars, statsVars, ListTypes
<1>1. ASSUME NEW n \in Miners, Stats(n)
      PROVE  \E kind \in {"setup", "remove", "update"} : Sends(n, kind)
  <2>1. CASE StartLists(n)
    BY <2>1 DEF StartLists, BootGoes, Sends
  <2>2. CASE StartUnlists(n)
    BY <2>2 DEF StartUnlists, BootGoes, Sends
  <2>3. CASE ReaderUnlists(n)
    BY <2>3 DEF ReaderUnlists, ReaderGoes, Sends
  <2>4. CASE UpdateStats(n)
    BY <2>4 DEF UpdateStats, Sends
  <2> QED
    BY <1>1, <2>1, <2>2, <2>3, <2>4 DEF Stats
<1>2. ASSUME NEW n \in Miners, Bootstrap(n), UNCHANGED statsVars PROVE Mute(n)
  BY <1>2 DEF Bootstrap, StartReads, StartAdds, StartMarks, StartChecks, StartTakes,
              StartUndoes, BootGoes, Mute
<1>3. ASSUME NEW n \in Miners, End(n), UNCHANGED statsVars PROVE Mute(n)
  BY <1>3 DEF End, ReaderCloses, ReaderTakes, ReaderSubtracts, ReaderGoes, Mute
<1>4. ASSUME NEW n \in Miners, KillTasks(n) PROVE Mute(n)
  BY <1>4 DEF KillTasks, ReaderGoes, Mute
<1>5. ASSUME NEW n \in Miners, Retarget(n), UNCHANGED statsVars
      PROVE  UNCHANGED <<statsQ, stats, leaked, boot, reader>>
  BY <1>5 DEF Retarget, UpdateReestimates, ReconcileChannel, MaybeRaise, LimitReestimates
<1>6. ASSUME DiffStep PROVE UNCHANGED <<statsQ, stats, leaked, boot, reader>>
  BY <1>6 DEF DiffStep, DiffManagement, DiffWakes, DiffMarksSeen, DiffReads, DiffSends
<1> QED
  BY <1>1, <1>2, <1>3, <1>4, <1>5, <1>6 DEF ChannelNext

LEMMA MuteStep ==
    ASSUME ListInv, NEW n \in Miners, Mute(n)
    PROVE  ListInv'
<1>1. ListTypes /\ UNCHANGED <<statsQ, stats>>
  BY DEF ListInv, Mute
<1>2. ListTypes'
  BY <1>1 DEF Mute, ListTypes
<1>3. ASSUME NEW m \in Miners, m # n PROVE MinerListed(m)'
  <2>1. boot'[m] = boot[m] /\ reader'[m] = reader[m] /\ (m \in leaked' <=> m \in leaked)
    BY <1>1, <1>3 DEF Mute, ListTypes
  <2>2. MinerListed(m)
    BY DEF ListInv
  <2> QED
    BY <1>1, <2>1, <2>2 DEF MinerListed, Listed, Silent
<1>4. MinerListed(n)'
  <2>1. MinerListed(n)
    BY DEF ListInv
  <2>2. Silent(n)' => Silent(n)
    BY <1>1 DEF Mute, Silent, ListTypes
  <2>3. Silent(n)' /\ Listed(n)' => Listed(n)
    BY <1>1 DEF Mute, Silent, Listed, ListTypes
  <2>4. ~Listed(n)' /\ n \notin leaked' => ~Listed(n) /\ n \notin leaked
    BY <1>1 DEF Mute, Listed, ListTypes
  <2> QED
    BY <1>1, <2>1, <2>2, <2>3, <2>4 DEF MinerListed
<1> QED
  BY <1>2, <1>3, <1>4 DEF ListInv

LEMMA SendsStep ==
    ASSUME ListInv, NEW n \in Miners, NEW kind \in {"setup", "remove", "update"},
           Sends(n, kind)
    PROVE  ListInv'
<1> DEFINE c == [kind |-> kind, miner |-> n]
<1>1. ListTypes /\ statsQ' = Append(statsQ, c) /\ UNCHANGED <<stats, leaked>>
  BY DEF ListInv, Sends, Command
<1>2. c \in Commands /\ c.kind = kind /\ c.miner = n /\ statsQ \in Seq(Commands)
  BY <1>1 DEF Commands, ListTypes
<1> HIDE DEF c
<1>3. ListTypes'
  <2>1. statsQ' \in Seq(Commands)
    BY <1>1, <1>2, AppendProperties
  <2> QED
    BY <1>1, <2>1 DEF Sends, ListTypes
<1>4. ASSUME NEW m \in Miners
      PROVE  LET about == n = m
             IN /\ about /\ kind = "remove" => Unlisting(statsQ', stats, m)
                /\ about /\ kind = "setup" /\ Unmentioned(statsQ, m) => Listing(statsQ', stats, m)
                /\ ~(about /\ kind = "setup") /\ Unlisting(statsQ, stats, m) =>
                       Unlisting(statsQ', stats, m)
                /\ ~(about /\ kind = "remove") /\ Listing(statsQ, stats, m) =>
                       Listing(statsQ', stats, m)
                /\ ~(about /\ kind = "remove") /\ Unmentioned(statsQ, m) =>
                       Unmentioned(statsQ', m)
  BY <1>1, <1>2, SendCommand
<1>5. ASSUME NEW m \in Miners, m # n PROVE MinerListed(m)'
  <2>1. boot'[m] = boot[m] /\ reader'[m] = reader[m]
    BY <1>1, <1>5 DEF Sends, ListTypes
  <2>2. MinerListed(m)
    BY DEF ListInv
  <2> QED
    BY <1>1, <1>4, <1>5, <2>1, <2>2 DEF MinerListed, Listed, Silent
<1>6. MinerListed(n)'
  <2>1. MinerListed(n)
    BY DEF ListInv
  <2>2. CASE kind = "setup"
    <3>1. /\ boot[n] = "setup" /\ boot'[n] = "stats" /\ reader'[n] = reader[n]
      BY <2>2 DEF Sends
    <3> QED
      BY <1>1, <1>4, <2>1, <2>2, <3>1 DEF MinerListed, Listed, Silent
  <2>3. CASE kind = "remove"
    <3>1. \/ boot'[n] = "unlisted"
          \/ reader'[n] = "unlisted" /\ reader[n] = "closed" /\ boot'[n] = boot[n]
      BY <2>3 DEF Sends
    <3>2. ~Silent(n)'
      BY <3>1 DEF Silent
    <3> QED
      BY <1>1, <1>4, <2>3, <3>2 DEF MinerListed
  <2>4. CASE kind = "update"
    <3>1. UNCHANGED <<boot, reader>>
      BY <2>4 DEF Sends
    <3> QED
      BY <1>1, <1>4, <2>1, <2>4, <3>1 DEF MinerListed, Listed, Silent
  <2> QED
    BY <2>2, <2>3, <2>4
<1> QED
  BY <1>3, <1>5, <1>6 DEF ListInv

LEMMA HandlesStep ==
    ASSUME ListInv, ManagerHandles
    PROVE  ListInv'
<1> DEFINE h == Head(statsQ)
<1>1. /\ statsQ # <<>> /\ statsQ' = Tail(statsQ) /\ stats' = Handled(h)
      /\ UNCHANGED <<leaked, boot, reader>> /\ ListTypes
  BY DEF ManagerHandles, ListInv, minerVars
<1>2. statsQ \in Seq(Commands) /\ h \in Commands /\ Tail(statsQ) \in Seq(Commands)
  <2>1. statsQ \in Seq(Commands)
    BY <1>1 DEF ListTypes
  <2> QED
    BY <1>1, <2>1, HeadTailProperties
<1> HIDE DEF h
<1>3. h.kind \in {"setup", "remove", "update"}
  BY <1>2 DEF Commands
<1>4. ASSUME NEW m \in Miners PROVE MinerListed(m)'
  <2>1. /\ h.miner # m \/ h.kind = "update" => (m \in stats' <=> m \in stats)
        /\ h.miner = m /\ h.kind = "setup" => m \in stats'
        /\ h.miner = m /\ h.kind = "remove" => m \notin stats'
    BY <1>1, <1>3 DEF Handled
  <2>2. /\ Unlisting(statsQ, stats, m) => Unlisting(statsQ', stats', m)
        /\ Listing(statsQ, stats, m) => Listing(statsQ', stats', m)
        /\ Unmentioned(statsQ, m) => Unmentioned(statsQ', m)
    BY <1>1, <1>2, <2>1, HandleCommand DEF h
  <2>3. MinerListed(m)
    BY DEF ListInv
  <2> QED
    BY <1>1, <2>2, <2>3 DEF MinerListed, Listed, Silent
<1> QED
  BY <1>1, <1>2, <1>4 DEF ListInv, ListTypes

LEMMA ListStep ==
    ASSUME ListInv, [ChannelNext]_channelVars
    PROVE  ListInv'
<1>1. CASE UNCHANGED <<statsQ, stats, leaked, boot, reader>>
  BY <1>1 DEF ListInv, ListTypes, MinerListed, Listed, Silent
<1>2. CASE UNCHANGED channelVars
  BY <1>1, <1>2 DEF channelVars, minerVars, statsVars
<1>3. CASE ChannelNext
  BY <1>1, <1>3, ListMoves, MuteStep, SendsStep, HandlesStep DEF ListInv
<1> QED
  BY <1>2, <1>3

\* The list behind the health check is right at rest, in whatever order the start
\* of a miner, its end and late updates of its tasks reach the StatsManager: a
\* served miner is listed, one that is gone is not, unless its start was aborted in
\* the middle of its rollback.
THEOREM ListedUnlessLeakedHolds == ChannelSpec => []ListedUnlessLeaked
<1>1. ChannelInit => ListInv
  <2> SUFFICES ASSUME ChannelInit PROVE ListInv
    OBVIOUS
  <2>1. /\ boot = [m \in Miners |-> "new"] /\ reader = [m \in Miners |-> "open"]
        /\ statsQ = <<>> /\ stats = {}
    BY DEF ChannelInit
  <2>2. ListTypes
    BY <2>1 DEF ListTypes
  <2>3. \A m \in Miners : Unlisting(statsQ, stats, m) /\ Unmentioned(statsQ, m) /\ ~Listed(m)
    BY <2>1 DEF Unlisting, Unmentioned, Listed
  <2> QED
    BY <2>2, <2>3 DEF ListInv, MinerListed
<1>2. ListInv /\ [ChannelNext]_channelVars => ListInv'
  BY ListStep
<1> QED
  BY <1>1, <1>2, ListInvImplies, PTL DEF ChannelSpec

-----------------------------------------------------------------------------
(* The worker summary: one worker *)

Ages == Nat \cup {NoAge}
WorkerTypes == [count : Nat, gone : Ages, idle : Ages, shares : SUBSET Nat]

\* A worker had a valid share at most q ticks ago: the share is still in its window,
\* or the window has been empty for no longer than that.
Fresh(w, q) ==
    \/ \E age \in w.shares : age <= q
    \/ w.shares = {} /\ w.idle # NoAge /\ w.idle + Window <= q

\* The least of a non-empty set of ages is one of them, and no other is less.
LEMMA YoungestAge ==
    ASSUME NEW S \in SUBSET Nat, S # {}
    PROVE  Min(S) \in S /\ \A age \in S : Min(S) <= age
<1>1. \E x \in S : \A y \in S : ~ (<<y, x>> \in OpToRel(<, Nat))
  BY WFMin, NatLessThanWellFounded, Zenon
<1>2. PICK x \in S : \A y \in S : ~ (<<y, x>> \in OpToRel(<, Nat))
  BY <1>1
<1>3. \A y \in S : x =< y
  <2> TAKE y \in S
  <2>1. x \in Nat /\ y \in Nat /\ <<y, x>> \in Nat \X Nat
    OBVIOUS
  <2>2. ~(y < x)
    BY <2>1, <1>2 DEF OpToRel
  <2> QED BY <2>1, <2>2
<1> QED BY <1>3 DEF Min

\* An age grows by one up to its cap.
LEMMA OlderAge ==
    ASSUME NEW age \in Ages, NEW cap \in Nat
    PROVE  /\ Older(age, cap) \in Ages
           /\ age = NoAge => Older(age, cap) = NoAge
           /\ age # NoAge => /\ age \in Nat /\ Older(age, cap) \in Nat
                             /\ Older(age, cap) <= age + 1 /\ Older(age, cap) <= cap
                             /\ Older(age, cap) = age + 1 \/ Older(age, cap) = cap
<1>1. CASE age = NoAge
  BY <1>1 DEF Older, Ages
<1>2. CASE age # NoAge
  <2>1. age \in Nat /\ {age + 1, cap} \in SUBSET Nat /\ {age + 1, cap} # {}
    BY <1>2 DEF Ages
  <2>2. Min({age + 1, cap}) \in {age + 1, cap} /\ \A x \in {age + 1, cap} : Min({age + 1, cap}) <= x
    BY <2>1, YoungestAge
  <2> DEFINE m == Min({age + 1, cap})
  <2>3. (m = age + 1 \/ m = cap) /\ m <= age + 1 /\ m <= cap /\ m \in Nat
    BY <2>1, <2>2
  <2> HIDE DEF m
  <2> QED BY <1>2, <2>1, <2>3 DEF Older, Ages, m
<1> QED BY <1>1, <1>2

\* The constants are numbers of ticks.
LEMMA TickBounds ==
    /\ {Interval, Window, Retention, Timeout} \subseteq Nat \ {0}
    /\ LongAgo \in Nat /\ LongAgo = Window + Timeout
    /\ NoAge \in Int /\ NoAge \notin Nat /\ NoAge \in Ages
BY SummaryAssumption DEF LongAgo, NoAge, Ages

LEMMA MarkConnectedFacts ==
    ASSUME NEW w \in WorkerTypes
    PROVE  /\ MarkConnected(w) \in WorkerTypes
           /\ MarkConnected(w).count = w.count + 1
           /\ \A q \in Nat : Fresh(w, q) => Fresh(MarkConnected(w), q)
<1> DEFINE more == w.count + 1
           idle == IF w.shares = {} /\ w.idle = NoAge THEN 0 ELSE w.idle
           m == MarkConnected(w)
<1>1. w.count \in Nat /\ w.gone \in Ages /\ w.idle \in Ages /\ w.shares \in SUBSET Nat
  BY DEF WorkerTypes
<1>2. /\ m = [w EXCEPT !.count = more, !.gone = NoAge, !.idle = idle]
      /\ more = w.count + 1 /\ more \in Nat /\ idle \in Ages
      /\ w.idle # NoAge => idle = w.idle
  BY <1>1 DEF MarkConnected, Ages
<1> HIDE DEF more, idle, m
<1>3. m \in WorkerTypes /\ m.count = more /\ m.shares = w.shares /\ m.idle = idle
  BY <1>1, <1>2, TickBounds DEF WorkerTypes
<1>4. \A q \in Nat : Fresh(w, q) => Fresh(m, q)
  BY <1>2, <1>3 DEF Fresh
<1> QED BY <1>2, <1>3, <1>4 DEF m

LEMMA MarkDisconnectedFacts ==
    ASSUME NEW w \in WorkerTypes, w.count > 0
    PROVE  /\ MarkDisconnected(w) \in WorkerTypes
           /\ MarkDisconnected(w).count = w.count - 1
           /\ w.count > 1 => \A q \in Nat : Fresh(w, q) => Fresh(MarkDisconnected(w), q)
<1> DEFINE left == IF w.count = 0 THEN 0 ELSE w.count - 1
           gone == IF left = 0 THEN 0 ELSE w.gone
           idle == IF left = 0 THEN NoAge ELSE w.idle
           m == MarkDisconnected(w)
<1>1. w.count \in Nat /\ w.gone \in Ages /\ w.idle \in Ages /\ w.shares \in SUBSET Nat
  BY DEF WorkerTypes
<1>2. m = [w EXCEPT !.count = left, !.gone = gone, !.idle = idle]
  BY DEF MarkDisconnected
<1>3. left = w.count - 1 /\ left \in Nat
  BY <1>1
<1>4. /\ gone \in Ages /\ idle \in Ages
      /\ w.count > 1 => idle = w.idle
  BY <1>1, <1>3, TickBounds DEF Ages
<1> HIDE DEF left, gone, idle, m
<1>5. m \in WorkerTypes /\ m.count = left /\ m.shares = w.shares /\ m.idle = idle
  BY <1>1, <1>2, <1>3, <1>4 DEF WorkerTypes
<1>6. w.count > 1 => \A q \in Nat : Fresh(w, q) => Fresh(m, q)
  BY <1>4, <1>5 DEF Fresh
<1> QED BY <1>3, <1>5, <1>6 DEF m

\* Pruning forgets no share that counts, and a worker is expired only when it had
\* no valid share for the window and the time-out together.
LEMMA PruneFacts ==
    ASSUME NEW w \in WorkerTypes
    PROVE  /\ Prune(w) \in WorkerTypes
           /\ Prune(w).count = w.count
           /\ \A q \in Nat : Fresh(w, q) => Fresh(Prune(w), q)
<1> DEFINE old == {age \in w.shares : age > Window}
           kept == w.shares \ old
           idle == IF kept # {} THEN NoAge
                   ELSE IF old # {} THEN Min(old) - Window ELSE w.idle
           p == Prune(w)
<1>1. /\ w.shares \in SUBSET Nat /\ w.idle \in Ages /\ w.count \in Nat /\ w.gone \in Ages
      /\ p = [w EXCEPT !.shares = kept, !.idle = idle]
  BY DEF WorkerTypes, Prune
<1>2. old # {} => Min(old) \in Nat /\ Min(old) > Window /\ \A age \in old : Min(old) <= age
  <2> SUFFICES ASSUME old # {} PROVE Min(old) \in old /\ \A age \in old : Min(old) <= age
    BY <1>1
  <2>1. old \in SUBSET Nat
    BY <1>1
  <2> HIDE DEF old
  <2> QED BY <2>1, YoungestAge
<1>3. idle \in Ages
  BY <1>1, <1>2, TickBounds DEF Ages
<1>4. kept \in SUBSET Nat /\ \A age \in kept : age <= Window
  BY <1>1, TickBounds
<1>5. p \in WorkerTypes /\ p.count = w.count /\ p.shares = kept /\ p.idle = idle
  <2> HIDE DEF kept, idle, p
  <2> QED BY <1>1, <1>3, <1>4 DEF WorkerTypes
<1>6. ASSUME NEW q \in Nat, NEW age \in w.shares, age <= q
      PROVE  (\E a \in kept : a <= q) \/ (kept = {} /\ idle # NoAge /\ idle + Window <= q)
  <2>1. CASE age \in kept
    BY <1>6, <2>1
  <2>2. CASE age \in old
    <3>1. age > Window
      BY <2>2
    <3>2. CASE kept # {}
      BY <1>1, <1>4, <1>6, <3>1, <3>2, TickBounds
    <3>3. CASE kept = {}
      <4>1. idle = Min(old) - Window /\ Min(old) \in Nat /\ Min(old) > Window /\ Min(old) <= age
        BY <1>2, <2>2, <3>3
      <4> HIDE DEF idle, old, kept
      <4> QED BY <1>1, <1>6, <3>3, <4>1, TickBounds
    <3> QED BY <3>2, <3>3
  <2> QED BY <2>1, <2>2
<1>7. ASSUME NEW q \in Nat, w.shares = {}, w.idle # NoAge, w.idle + Window <= q
      PROVE  kept = {} /\ idle # NoAge /\ idle + Window <= q
  BY <1>7
<1> HIDE DEF kept, idle, old
<1>8. \A q \in Nat : Fresh(w, q) => Fresh(p, q)
  BY <1>5, <1>6, <1>7 DEF Fresh
<1> QED BY <1>5, <1>8

LEMMA ExpiredIsQuiet ==
    ASSUME NEW w \in WorkerTypes, ShouldForceDisconnect(w), NEW q \in Nat, Fresh(w, q)
    PROVE  q >= LongAgo
BY TickBounds DEF WorkerTypes, Ages, Fresh, ShouldForceDisconnect

LEMMA RecordValidShareFacts ==
    ASSUME NEW w \in WorkerTypes
    PROVE  /\ RecordValidShare(w) \in WorkerTypes
           /\ RecordValidShare(w).count = w.count
           /\ \A q \in Nat : Fresh(RecordValidShare(w), q)
<1> DEFINE p == Prune(w)
<1>1. p \in WorkerTypes /\ p.count = w.count
  BY PruneFacts
<1> HIDE DEF p
<1> DEFINE shares == p.shares \cup {0}
           r == [p EXCEPT !.shares = shares, !.idle = NoAge]
<1>2. shares \in SUBSET Nat /\ 0 \in shares /\ RecordValidShare(w) = r
  BY <1>1 DEF WorkerTypes, RecordValidShare, p
<1> HIDE DEF shares
<1>3. r \in WorkerTypes /\ r.count = p.count /\ 0 \in r.shares
  BY <1>1, <1>2, TickBounds DEF WorkerTypes
<1> HIDE DEF r
<1> QED BY <1>1, <1>2, <1>3 DEF Fresh

\* A tick makes every age of a worker one older.
Aged(w) == [w EXCEPT !.gone = Older(@, Retention), !.idle = Older(@, Timeout),
                     !.shares = {Older(age, LongAgo) : age \in @}]

LEMMA AgedFacts ==
    ASSUME NEW w \in WorkerTypes
    PROVE  /\ Aged(w) \in WorkerTypes
           /\ Aged(w).count = w.count
           /\ \A q \in Nat : q + 1 < LongAgo /\ Fresh(w, q) => Fresh(Aged(w), q + 1)
<1> DEFINE gone == Older(w.gone, Retention)
           idle == Older(w.idle, Timeout)
           shares == {Older(age, LongAgo) : age \in w.shares}
           a == Aged(w)
<1>1. w.count \in Nat /\ w.gone \in Ages /\ w.idle \in Ages /\ w.shares \in SUBSET Nat
  BY DEF WorkerTypes
<1>2. gone \in Ages /\ idle \in Ages
  BY <1>1, OlderAge, TickBounds
<1>3. \A age \in w.shares : /\ age \in Nat /\ Older(age, LongAgo) \in Nat
                            /\ Older(age, LongAgo) <= age + 1
  <2> TAKE age \in w.shares
  <2>1. age \in Nat /\ age \in Ages /\ age # NoAge
    BY <1>1, TickBounds DEF Ages
  <2> QED BY <2>1, OlderAge, TickBounds
<1>4. shares \in SUBSET Nat
  BY <1>3
<1>5. w.idle # NoAge => idle \in Nat /\ w.idle \in Nat /\ idle <= w.idle + 1
  BY <1>1, OlderAge, TickBounds
<1>6. a = [w EXCEPT !.gone = gone, !.idle = idle, !.shares = shares]
  BY DEF Aged
<1>7. \A q \in Nat : (\E age \in w.shares : age <= q) => \E age \in shares : age <= q + 1
  BY <1>3
<1>8. w.shares = {} => shares = {}
  OBVIOUS
<1> HIDE DEF gone, idle, shares, a
<1>9. a \in WorkerTypes /\ a.count = w.count /\ a.shares = shares /\ a.idle = idle
  BY <1>1, <1>2, <1>4, <1>6 DEF WorkerTypes
<1>10. \A q \in Nat : q + 1 < LongAgo /\ Fresh(w, q) => Fresh(a, q + 1)
  BY <1>5, <1>7, <1>8, <1>9, TickBounds DEF Fresh
<1> QED BY <1>9, <1>10 DEF a

-----------------------------------------------------------------------------
(* The worker summary: the two maps *)

Of(sk, k) == {c \in DOMAIN sk : sk[c] = k}

\* The connections registered in sk are those the workers of w count.
Registry(sk, w) ==
    /\ IsFiniteSet(DOMAIN sk) /\ sk = [c \in DOMAIN sk |-> sk[c]]
    /\ w \in [DOMAIN w -> WorkerTypes]
    /\ \A c \in DOMAIN sk : sk[c] \in DOMAIN w
    /\ \A k \in DOMAIN w : w[k].count = Cardinality(Of(sk, k))

\* The connections other than c stay registered where they are, and their workers
\* forget no share.
KeepsOthers(c, sk, w, sk1, w1) ==
    \A d \in DOMAIN sk \ {c} :
        /\ d \in DOMAIN sk1 /\ sk1[d] = sk[d]
        /\ \A q \in Nat : Fresh(w[sk[d]], q) => Fresh(w1[sk[d]], q)

LEMMA OfFinite ==
    ASSUME NEW sk, IsFiniteSet(DOMAIN sk), NEW k
    PROVE  /\ IsFiniteSet(Of(sk, k)) /\ Cardinality(Of(sk, k)) \in Nat
           /\ Cardinality(Of(sk, k)) = 0 <=> Of(sk, k) = {}
<1>1. Of(sk, k) \in SUBSET DOMAIN sk
  BY DEF Of
<1>2. IsFiniteSet(Of(sk, k))
  BY <1>1, FS_Subset
<1> QED BY <1>2, FS_CardinalityType, FS_EmptySet

\* The workers when c is gone.
LeftBehind(sk, w, c) ==
    [k \in DOMAIN w |-> IF c \in DOMAIN sk /\ k = sk[c] THEN MarkDisconnected(w[k]) ELSE w[k]]

\* A connection leaves its worker.
LEMMA LeaveFacts ==
    ASSUME NEW sk, NEW w, Registry(sk, w), NEW c,
           NEW sk1, sk1 = Restrict(sk, DOMAIN sk \ {c}),
           NEW w1, w1 = LeftBehind(sk, w, c)
    PROVE  Registry(sk1, w1) /\ KeepsOthers(c, sk, w, sk1, w1)
<1>0. w1 = [k \in DOMAIN w |-> IF c \in DOMAIN sk /\ k = sk[c]
                               THEN MarkDisconnected(w[k]) ELSE w[k]]
  BY DEF LeftBehind
<1>1. /\ DOMAIN sk1 = DOMAIN sk \ {c} /\ \A d \in DOMAIN sk1 : sk1[d] = sk[d]
      /\ sk1 = [d \in DOMAIN sk1 |-> sk1[d]]
  BY DEF Restrict
<1>2. IsFiniteSet(DOMAIN sk) /\ IsFiniteSet(DOMAIN sk1)
  BY <1>1, FS_RemoveElement DEF Registry
<1>3. \A k \in DOMAIN w : w[k] \in WorkerTypes /\ w[k].count = Cardinality(Of(sk, k))
  BY DEF Registry
<1>4. ASSUME NEW k \in DOMAIN w, c \in DOMAIN sk, k = sk[c]
      PROVE  /\ w1[k] \in WorkerTypes /\ w1[k].count = Cardinality(Of(sk1, k))
             /\ \A d \in DOMAIN sk1 : sk1[d] = k =>
                   \A q \in Nat : Fresh(w[k], q) => Fresh(w1[k], q)
  <2>1. c \in Of(sk, k) /\ Of(sk1, k) = Of(sk, k) \ {c}
    BY <1>1, <1>4 DEF Of
  <2>2. IsFiniteSet(Of(sk, k)) /\ Cardinality(Of(sk, k)) \in Nat /\ Cardinality(Of(sk, k)) # 0
    BY <1>2, <2>1, OfFinite
  <2>3. Cardinality(Of(sk1, k)) = Cardinality(Of(sk, k)) - 1
    BY <2>1, <2>2, FS_RemoveElement
  <2>4. w[k] \in WorkerTypes /\ w[k].count > 0 /\ w1[k] = MarkDisconnected(w[k])
    BY <1>0, <1>3, <1>4, <2>2
  <2>5. /\ w1[k] \in WorkerTypes /\ w1[k].count = w[k].count - 1
        /\ w[k].count > 1 => \A q \in Nat : Fresh(w[k], q) => Fresh(w1[k], q)
    BY <2>4, MarkDisconnectedFacts
  <2>6. ASSUME NEW d \in DOMAIN sk1, sk1[d] = k PROVE w[k].count > 1
    <3>1. d \in Of(sk1, k)
      BY <2>6 DEF Of
    <3>2. Cardinality(Of(sk1, k)) \in Nat /\ Cardinality(Of(sk1, k)) # 0
      BY <1>2, <3>1, OfFinite
    <3> QED BY <1>3, <1>4, <2>2, <2>3, <3>2
  <2> QED BY <1>3, <2>3, <2>5, <2>6
<1>5. ASSUME NEW k \in DOMAIN w, ~(c \in DOMAIN sk /\ k = sk[c])
      PROVE  w1[k] = w[k] /\ Of(sk1, k) = Of(sk, k)
  BY <1>0, <1>1, <1>5 DEF Of
<1>6. DOMAIN w1 = DOMAIN w /\ w1 \in [DOMAIN w1 -> WorkerTypes]
  <2>1. DOMAIN w1 = DOMAIN w /\ w1 = [k \in DOMAIN w1 |-> w1[k]]
    BY <1>0
  <2>2. \A k \in DOMAIN w : w1[k] \in WorkerTypes
    BY <1>3, <1>4, <1>5
  <2> QED BY <2>1, <2>2
<1>7. \A k \in DOMAIN w1 : w1[k].count = Cardinality(Of(sk1, k))
  BY <1>3, <1>4, <1>5, <1>6
<1>8. \A d \in DOMAIN sk1 : sk1[d] \in DOMAIN w1
  BY <1>1, <1>6 DEF Registry
<1>9. Registry(sk1, w1)
  BY <1>1, <1>2, <1>6, <1>7, <1>8 DEF Registry
<1>10. KeepsOthers(c, sk, w, sk1, w1)
  BY <1>1, <1>4, <1>5, <1>6, <1>8 DEF KeepsOthers
<1> QED BY <1>9, <1>10

\* A connection that is registered nowhere joins a worker.
LEMMA JoinFacts ==
    ASSUME NEW sk, NEW w, Registry(sk, w), NEW c, c \notin DOMAIN sk, NEW k,
           NEW e, e = (IF k \in DOMAIN w THEN w[k] ELSE NewWorker),
           NEW sk1, sk1 = Put(sk, c, k),
           NEW w1, w1 = Put(w, k, MarkConnected(e))
    PROVE  /\ Registry(sk1, w1) /\ KeepsOthers(c, sk, w, sk1, w1)
           /\ DOMAIN sk1 = DOMAIN sk \cup {c} /\ sk1[c] = k /\ k \in DOMAIN w1
<1>1. /\ DOMAIN sk1 = DOMAIN sk \cup {c} /\ sk1[c] = k
      /\ \A d \in DOMAIN sk : sk1[d] = sk[d]
      /\ sk1 = [d \in DOMAIN sk1 |-> sk1[d]]
  BY DEF Put
<1>2. /\ DOMAIN w1 = DOMAIN w \cup {k} /\ w1[k] = MarkConnected(e)
      /\ \A x \in DOMAIN w \ {k} : w1[x] = w[x]
      /\ w1 = [x \in DOMAIN w1 |-> w1[x]]
  BY DEF Put
<1>3. IsFiniteSet(DOMAIN sk) /\ IsFiniteSet(DOMAIN sk1)
  BY <1>1, FS_AddElement DEF Registry
<1>4. /\ \A d \in DOMAIN sk : sk[d] \in DOMAIN w
      /\ \A x \in DOMAIN w : w[x] \in WorkerTypes /\ w[x].count = Cardinality(Of(sk, x))
  BY DEF Registry
<1>5. e \in WorkerTypes /\ e.count = Cardinality(Of(sk, k))
  <2>1. CASE k \in DOMAIN w
    BY <1>4, <2>1
  <2>2. CASE k \notin DOMAIN w
    <3>1. Of(sk, k) = {}
      BY <1>4, <2>2 DEF Of
    <3>2. e = NewWorker /\ Cardinality(Of(sk, k)) = 0
      BY <2>2, <3>1, FS_EmptySet
    <3> QED BY <3>2, TickBounds DEF NewWorker, WorkerTypes
  <2> QED BY <2>1, <2>2
<1>6. /\ w1[k] \in WorkerTypes /\ w1[k].count = e.count + 1
      /\ \A q \in Nat : Fresh(e, q) => Fresh(w1[k], q)
  BY <1>2, <1>5, MarkConnectedFacts
<1>7. w1[k].count = Cardinality(Of(sk1, k))
  <2>1. Of(sk1, k) = Of(sk, k) \cup {c} /\ c \notin Of(sk, k)
    BY <1>1 DEF Of
  <2>2. IsFiniteSet(Of(sk, k))
    BY <1>3, OfFinite
  <2> QED BY <1>5, <1>6, <2>1, <2>2, FS_AddElement
<1>8. \A x \in DOMAIN w \ {k} : w1[x] \in WorkerTypes /\ w1[x].count = Cardinality(Of(sk1, x))
  <2> TAKE x \in DOMAIN w \ {k}
  <2>1. Of(sk1, x) = Of(sk, x)
    BY <1>1 DEF Of
  <2> QED BY <1>2, <1>4, <2>1
<1>9. w1 \in [DOMAIN w1 -> WorkerTypes]
  <2>1. \A x \in DOMAIN w1 : w1[x] \in WorkerTypes
    BY <1>2, <1>6, <1>8
  <2> QED BY <1>2, <2>1
<1>10. Registry(sk1, w1)
  BY <1>1, <1>2, <1>3, <1>4, <1>7, <1>8, <1>9 DEF Registry
<1>11. \A x \in DOMAIN w : \A q \in Nat : Fresh(w[x], q) => Fresh(w1[x], q)
  BY <1>2, <1>6
<1>12. KeepsOthers(c, sk, w, sk1, w1)
  BY <1>1, <1>4, <1>11 DEF KeepsOthers
<1> QED BY <1>1, <1>2, <1>10, <1>12

\* The connections that one step keeps and the next one keeps are kept by both.
LEMMA KeepsOthersTwice ==
    ASSUME NEW c, NEW sk, NEW w, NEW sk1, NEW w1, NEW sk2, NEW w2,
           KeepsOthers(c, sk, w, sk1, w1), KeepsOthers(c, sk1, w1, sk2, w2)
    PROVE  KeepsOthers(c, sk, w, sk2, w2)
BY DEF KeepsOthers

\* A connection moves to a worker it is not registered to.
LEMMA MoveFacts ==
    ASSUME Registry(sessionKeys, workers), NEW c, NEW k,
           ~(Registered(c) /\ sessionKeys[c] = k),
           NEW sk, sk = Put(sessionKeys, c, k), NEW w, w = Joined(c, k)
    PROVE  /\ Registry(sk, w) /\ KeepsOthers(c, sessionKeys, workers, sk, w)
           /\ c \in DOMAIN sk /\ sk[c] = k /\ k \in DOMAIN w
<1> DEFINE sk1 == Restrict(sessionKeys, DOMAIN sessionKeys \ {c})
           w1 == Left(c)
           e == Entry(k)
<1>1. w1 = LeftBehind(sessionKeys, workers, c)
  BY DEF Left, LeftBehind, Registered
<1>2. DOMAIN w1 = DOMAIN workers /\ (k \in DOMAIN w1 => w1[k] = workers[k])
  BY DEF Left
<1>3. e = (IF k \in DOMAIN w1 THEN w1[k] ELSE NewWorker)
  BY <1>2 DEF Entry
<1>4. /\ DOMAIN sk1 = DOMAIN sessionKeys \ {c}
      /\ \A d \in DOMAIN sk1 : sk1[d] = sessionKeys[d]
      /\ sk1 = Restrict(sessionKeys, DOMAIN sessionKeys \ {c})
  BY DEF Restrict
<1>5. sk = Put(sk1, c, k)
  BY <1>4 DEF Put
<1>6. w = Put(w1, k, MarkConnected(e))
  BY DEF Joined
<1> HIDE DEF sk1, w1, e
<1>7. Registry(sk1, w1) /\ KeepsOthers(c, sessionKeys, workers, sk1, w1)
  BY <1>1, <1>4, LeaveFacts
<1>8. /\ Registry(sk, w) /\ KeepsOthers(c, sk1, w1, sk, w)
      /\ DOMAIN sk = DOMAIN sk1 \cup {c} /\ sk[c] = k /\ k \in DOMAIN w
  <2>1. c \notin DOMAIN sk1
    BY <1>4
  <2> QED BY <1>3, <1>5, <1>6, <1>7, <2>1, JoinFacts
<1> QED BY <1>7, <1>8, KeepsOthersTwice

\* A valid share is recorded for one worker.
LEMMA ShareFacts ==
    ASSUME NEW sk, NEW w, Registry(sk, w), NEW key \in DOMAIN w,
           NEW w1, w1 = [w EXCEPT ![key] = RecordValidShare(w[key])]
    PROVE  /\ Registry(sk, w1)
           /\ \A c : KeepsOthers(c, sk, w, sk, w1)
           /\ \A q \in Nat : Fresh(w1[key], q)
           /\ DOMAIN w1 = DOMAIN w
<1>1. /\ IsFiniteSet(DOMAIN sk) /\ \A c \in DOMAIN sk : sk[c] \in DOMAIN w
      /\ sk = [c \in DOMAIN sk |-> sk[c]]
      /\ \A x \in DOMAIN w : w[x] \in WorkerTypes /\ w[x].count = Cardinality(Of(sk, x))
      /\ w = [x \in DOMAIN w |-> w[x]]
  BY DEF Registry
<1>2. /\ DOMAIN w1 = DOMAIN w /\ w1[key] = RecordValidShare(w[key])
      /\ \A x \in DOMAIN w \ {key} : w1[x] = w[x]
      /\ w1 = [x \in DOMAIN w1 |-> w1[x]]
  BY <1>1
<1>3. /\ w1[key] \in WorkerTypes /\ w1[key].count = w[key].count
      /\ \A q \in Nat : Fresh(w1[key], q)
  BY <1>1, <1>2, RecordValidShareFacts
<1>4. \A x \in DOMAIN w1 : w1[x] \in WorkerTypes /\ w1[x].count = Cardinality(Of(sk, x))
  BY <1>1, <1>2, <1>3
<1>5. w1 \in [DOMAIN w1 -> WorkerTypes]
  BY <1>2, <1>4
<1>6. Registry(sk, w1)
  BY <1>1, <1>2, <1>4, <1>5 DEF Registry
<1>7. \A x \in DOMAIN w : \A q \in Nat : Fresh(w[x], q) => Fresh(w1[x], q)
  BY <1>2, <1>3
<1>8. \A c : KeepsOthers(c, sk, w, sk, w1)
  BY <1>1, <1>7 DEF KeepsOthers
<1> QED BY <1>2, <1>3, <1>6, <1>8

-----------------------------------------------------------------------------
(* The worker summary: the invariant *)

\* A connection that had a valid share for its worker within the window and the
\* time-out is open, has a name, is registered, and its worker knows of the share.
Heard ==
    \A c \in Connections : quiet[c] < LongAgo =>
        /\ c \in open /\ names[c] # {} /\ Registered(c)
        /\ Fresh(workers[sessionKeys[c]], quiet[c])

SummaryInv ==
    /\ Registry(sessionKeys, workers)
    /\ open \subseteq Connections
    /\ names \in [Connections -> SUBSET Names]
    /\ quiet \in [Connections -> Nat]
    /\ Heard

\* A step of one connection keeps what is known of the others.
LEMMA OneConnectionStep ==
    ASSUME SummaryInv, NEW c \in Connections,
           KeepsOthers(c, sessionKeys, workers, sessionKeys', workers'),
           NEW q \in Nat, quiet' = [quiet EXCEPT ![c] = q],
           NEW n \in SUBSET Names, names' = [names EXCEPT ![c] = n],
           open \ {c} \subseteq open',
           q < LongAgo => /\ c \in open' /\ n # {} /\ c \in DOMAIN sessionKeys'
                          /\ Fresh(workers'[sessionKeys'[c]], q)
    PROVE  Heard' /\ names' \in [Connections -> SUBSET Names] /\ quiet' \in [Connections -> Nat]
<1>1. names' \in [Connections -> SUBSET Names] /\ quiet' \in [Connections -> Nat]
  BY DEF SummaryInv
<1>2. /\ quiet'[c] = q /\ names'[c] = n
      /\ \A d \in Connections \ {c} : quiet'[d] = quiet[d] /\ names'[d] = names[d] /\ quiet[d] \in Nat
  BY DEF SummaryInv
<1>3. ASSUME NEW d \in Connections \ {c}, quiet'[d] < LongAgo
      PROVE  /\ d \in open' /\ names'[d] # {} /\ d \in DOMAIN sessionKeys'
             /\ Fresh(workers'[sessionKeys'[d]], quiet'[d])
  <2>1. /\ d \in open /\ names[d] # {} /\ d \in DOMAIN sessionKeys
        /\ Fresh(workers[sessionKeys[d]], quiet[d])
    BY <1>2, <1>3 DEF SummaryInv, Heard, Registered
  <2>2. /\ d \in DOMAIN sessionKeys' /\ sessionKeys'[d] = sessionKeys[d]
        /\ Fresh(workers'[sessionKeys[d]], quiet[d])
    BY <1>2, <2>1 DEF KeepsOthers
  <2> QED BY <1>2, <2>1, <2>2
<1> QED BY <1>1, <1>2, <1>3 DEF Heard, Registered

\* record_share, for a connection that stays with its worker or moves.
LEMMA RecordShareFacts ==
    ASSUME Registry(sessionKeys, workers), NEW c, NEW k, NEW valid \in BOOLEAN,
           RecordShare(c, k, valid)
    PROVE  /\ Registry(sessionKeys', workers')
           /\ KeepsOthers(c, sessionKeys, workers, sessionKeys', workers')
           /\ c \in DOMAIN sessionKeys'
           /\ valid => \A q \in Nat : Fresh(workers'[sessionKeys'[c]], q)
           /\ ~valid /\ Stays(c, k) => UNCHANGED <<sessionKeys, workers>>
<1> DEFINE key == IF Stays(c, k) THEN sessionKeys[c] ELSE k
           all == IF Stays(c, k) THEN workers ELSE Joined(c, k)
           sk == Put(sessionKeys, c, key)
<1>1. /\ sessionKeys' = sk
      /\ workers' = [all EXCEPT ![key] = IF valid THEN RecordValidShare(all[key]) ELSE all[key]]
  BY DEF RecordShare
<1>2. Stays(c, k) => sk = sessionKeys /\ all = workers
  BY DEF Stays, Registered, Put, Registry
<1>3. /\ Registry(sk, all) /\ KeepsOthers(c, sessionKeys, workers, sk, all)
      /\ c \in DOMAIN sk /\ sk[c] = key /\ key \in DOMAIN all
  <2>1. CASE Stays(c, k)
    <3>1. c \in DOMAIN sk /\ sk[c] = key /\ key \in DOMAIN all
      BY <1>2, <2>1 DEF Stays, Registered, Registry
    <3>2. KeepsOthers(c, sessionKeys, workers, sessionKeys, workers)
      BY DEF KeepsOthers
    <3> QED BY <1>2, <2>1, <3>1, <3>2
  <2>2. CASE ~Stays(c, k)
    <3>1. ~(Registered(c) /\ sessionKeys[c] = k)
      BY <2>2 DEF Stays
    <3>2. key = k /\ all = Joined(c, k) /\ sk = Put(sessionKeys, c, k)
      BY <2>2
    <3> HIDE DEF key, all, sk
    <3> QED BY <3>1, <3>2, MoveFacts
  <2> QED BY <2>1, <2>2
<1>4. all = [x \in DOMAIN all |-> all[x]]
  BY <1>3 DEF Registry
<1> HIDE DEF key, all, sk
<1>5. CASE valid
  <2>1. workers' = [all EXCEPT ![key] = RecordValidShare(all[key])]
    BY <1>1, <1>5
  <2>2. /\ Registry(sk, workers') /\ KeepsOthers(c, sk, all, sk, workers')
        /\ \A q \in Nat : Fresh(workers'[key], q)
    <3> SUFFICES ASSUME NEW w1, w1 = [all EXCEPT ![key] = RecordValidShare(all[key])]
                 PROVE  /\ Registry(sk, w1) /\ KeepsOthers(c, sk, all, sk, w1)
                        /\ \A q \in Nat : Fresh(w1[key], q)
      BY <2>1
    <3> QED BY <1>3, ShareFacts
  <2>3. KeepsOthers(c, sessionKeys, workers, sk, workers')
    <3> SUFFICES ASSUME NEW w2, w2 = workers'
                 PROVE  KeepsOthers(c, sessionKeys, workers, sk, w2)
      OBVIOUS
    <3> QED BY <1>3, <2>2, KeepsOthersTwice
  <2> QED BY <1>1, <1>3, <1>5, <2>2, <2>3
<1>6. CASE ~valid
  <2>1. workers' = all
    BY <1>1, <1>4, <1>6
  <2> QED BY <1>1, <1>2, <1>3, <1>6, <2>1
<1> QED BY <1>5, <1>6

LEMMA AcceptStep ==
    ASSUME SummaryInv, NEW c \in Connections, Accept(c)
    PROVE  SummaryInv'
<1>1. UNCHANGED <<names, sessionKeys, workers, quiet>> /\ open' = open \cup {c}
  BY DEF Accept, dispatcherVars
<1> QED BY <1>1 DEF SummaryInv, Heard, Registered

LEMMA AuthorizeStep ==
    ASSUME SummaryInv, NEW c \in Connections, NEW n \in Names, NEW t \in Tokens,
           Authorize(c, n, t)
    PROVE  SummaryInv'
<1>1. /\ names[c] = {} /\ names' = [names EXCEPT ![c] = {n}] /\ UNCHANGED <<open, quiet>>
      /\ WorkerConnected(c, Key(t, n))
  BY DEF Authorize
<1> DEFINE k == Key(t, n)
<1>2. Registry(sessionKeys, workers)
  BY DEF SummaryInv
<1>3. /\ sessionKeys' = Put(sessionKeys, c, k)
      /\ workers' = IF Registered(c) /\ sessionKeys[c] = k THEN workers ELSE Joined(c, k)
  BY <1>1 DEF WorkerConnected
<1> HIDE DEF k
<1>4. /\ Registry(sessionKeys', workers')
      /\ KeepsOthers(c, sessionKeys, workers, sessionKeys', workers')
  <2>1. CASE Registered(c) /\ sessionKeys[c] = k
    <3>1. sessionKeys' = sessionKeys /\ workers' = workers
      BY <1>2, <1>3, <2>1 DEF Registered, Put, Registry
    <3> QED BY <1>2, <3>1 DEF KeepsOthers
  <2>2. CASE ~(Registered(c) /\ sessionKeys[c] = k)
    <3> SUFFICES ASSUME NEW sk, sk = Put(sessionKeys, c, k), NEW w, w = Joined(c, k)
                 PROVE  Registry(sk, w) /\ KeepsOthers(c, sessionKeys, workers, sk, w)
      BY <1>3, <2>2
    <3> QED BY <1>2, <2>2, MoveFacts
  <2> QED BY <2>1, <2>2
<1>5. /\ quiet[c] \in Nat /\ ~(quiet[c] < LongAgo) /\ quiet' = [quiet EXCEPT ![c] = quiet[c]]
      /\ {n} \in SUBSET Names /\ open \ {c} \subseteq open'
  BY <1>1 DEF SummaryInv, Heard
<1>6. Heard' /\ names' \in [Connections -> SUBSET Names] /\ quiet' \in [Connections -> Nat]
  BY <1>1, <1>4, <1>5, OneConnectionStep
<1> QED BY <1>1, <1>4, <1>6 DEF SummaryInv

LEMMA SubmitValidStep ==
    ASSUME SummaryInv, NEW c \in Connections, SubmitValid(c)
    PROVE  SummaryInv'
<1>1. PICK n \in names[c] : RecordShare(c, Key(token, n), TRUE)
  BY DEF SubmitValid
<1>2. c \in open /\ quiet' = [quiet EXCEPT ![c] = 0] /\ UNCHANGED <<open, names>>
  BY DEF SubmitValid, connectionVars
<1>3. /\ Registry(sessionKeys', workers')
      /\ KeepsOthers(c, sessionKeys, workers, sessionKeys', workers')
      /\ c \in DOMAIN sessionKeys' /\ Fresh(workers'[sessionKeys'[c]], 0)
  BY <1>1, RecordShareFacts DEF SummaryInv
<1>4. names[c] \in SUBSET Names /\ names[c] # {} /\ names' = [names EXCEPT ![c] = names[c]]
  BY <1>1, <1>2 DEF SummaryInv
<1>5. Heard' /\ names' \in [Connections -> SUBSET Names] /\ quiet' \in [Connections -> Nat]
  BY <1>2, <1>3, <1>4, OneConnectionStep
<1> QED BY <1>2, <1>3, <1>5 DEF SummaryInv

LEMMA SubmitInvalidStep ==
    ASSUME SummaryInv, NEW c \in Connections, NEW n \in Names, SubmitInvalid(c, n)
    PROVE  SummaryInv'
<1> DEFINE k == Key(token, n)
<1>1. /\ RecordShare(c, k, FALSE) /\ UNCHANGED <<open, names>>
      /\ quiet' = IF Stays(c, k) THEN quiet ELSE [quiet EXCEPT ![c] = LongAgo]
  BY DEF SubmitInvalid, connectionVars
<1> HIDE DEF k
<1>2. /\ Registry(sessionKeys', workers')
      /\ KeepsOthers(c, sessionKeys, workers, sessionKeys', workers')
      /\ Stays(c, k) => UNCHANGED <<sessionKeys, workers>>
  BY <1>1, RecordShareFacts DEF SummaryInv
<1>3. CASE Stays(c, k)
  BY <1>1, <1>2, <1>3 DEF SummaryInv, Heard, Registered
<1>4. CASE ~Stays(c, k)
  <2>1. names[c] \in SUBSET Names /\ names' = [names EXCEPT ![c] = names[c]]
    BY <1>1 DEF SummaryInv
  <2>2. quiet' = [quiet EXCEPT ![c] = LongAgo] /\ LongAgo \in Nat /\ ~(LongAgo < LongAgo)
    BY <1>1, <1>4, TickBounds
  <2>3. Heard' /\ names' \in [Connections -> SUBSET Names] /\ quiet' \in [Connections -> Nat]
    BY <1>1, <1>2, <2>1, <2>2, OneConnectionStep
  <2> QED BY <1>1, <1>2, <2>3 DEF SummaryInv
<1> QED BY <1>3, <1>4

LEMMA CloseStep ==
    ASSUME SummaryInv, NEW c \in Connections, Close(c)
    PROVE  SummaryInv'
<1>1. /\ open' = open \ {c} /\ names' = [names EXCEPT ![c] = {}]
      /\ quiet' = [quiet EXCEPT ![c] = LongAgo] /\ LongAgo \in Nat /\ ~(LongAgo < LongAgo)
      /\ {} \in SUBSET Names
      /\ UNCHANGED <<sessionKeys, workers>> \/ WorkerDisconnected(c)
  BY TickBounds DEF Close, dispatcherVars
<1>2. /\ Registry(sessionKeys', workers')
      /\ KeepsOthers(c, sessionKeys, workers, sessionKeys', workers')
  <2>1. CASE UNCHANGED <<sessionKeys, workers>>
    BY <2>1 DEF SummaryInv, KeepsOthers
  <2>2. CASE WorkerDisconnected(c)
    <3>1. /\ sessionKeys' = Restrict(sessionKeys, DOMAIN sessionKeys \ {c})
          /\ workers' = LeftBehind(sessionKeys, workers, c)
      BY <2>2 DEF WorkerDisconnected, Left, LeftBehind, Registered
    <3> SUFFICES ASSUME NEW sk, sk = Restrict(sessionKeys, DOMAIN sessionKeys \ {c}),
                        NEW w, w = LeftBehind(sessionKeys, workers, c)
                 PROVE  Registry(sk, w) /\ KeepsOthers(c, sessionKeys, workers, sk, w)
      BY <3>1
    <3> QED BY LeaveFacts DEF SummaryInv
  <2> QED BY <1>1, <2>1, <2>2
<1>3. Heard' /\ names' \in [Connections -> SUBSET Names] /\ quiet' \in [Connections -> Nat]
  BY <1>1, <1>2, OneConnectionStep
<1> QED BY <1>1, <1>2, <1>3 DEF SummaryInv

LEMMA RestartStep ==
    ASSUME SummaryInv, Restart
    PROVE  SummaryInv'
<1>1. /\ names' = [c \in Connections |-> {}] /\ quiet' = [c \in Connections |-> LongAgo]
      /\ open' = {} /\ UNCHANGED <<sessionKeys, workers>>
  BY DEF Restart, dispatcherVars
<1>2. /\ names' \in [Connections -> SUBSET Names] /\ quiet' \in [Connections -> Nat]
      /\ \A c \in Connections : ~(quiet'[c] < LongAgo)
  BY <1>1, TickBounds
<1> QED BY <1>1, <1>2 DEF SummaryInv, Heard

LEMMA TickStep ==
    ASSUME SummaryInv, Tick
    PROVE  SummaryInv'
<1>1. /\ workers' = [k \in DOMAIN workers |-> Aged(workers[k])]
      /\ quiet' = [c \in Connections |-> Older(quiet[c], LongAgo)]
      /\ UNCHANGED <<open, names, sessionKeys>>
  BY DEF Tick, Aged, connectionVars
<1>2. /\ \A k \in DOMAIN workers :
            workers[k] \in WorkerTypes /\ workers[k].count = Cardinality(Of(sessionKeys, k))
      /\ \A c \in DOMAIN sessionKeys : sessionKeys[c] \in DOMAIN workers
  BY DEF SummaryInv, Registry
<1>3. \A k \in DOMAIN workers :
         /\ workers'[k] \in WorkerTypes /\ workers'[k].count = workers[k].count
         /\ \A q \in Nat : q + 1 < LongAgo /\ Fresh(workers[k], q) => Fresh(workers'[k], q + 1)
  BY <1>1, <1>2, AgedFacts
<1>4. DOMAIN workers' = DOMAIN workers /\ workers' = [k \in DOMAIN workers' |-> workers'[k]]
  BY <1>1
<1>5. workers' \in [DOMAIN workers' -> WorkerTypes]
  BY <1>3, <1>4
<1>6. Registry(sessionKeys', workers')
  BY <1>1, <1>2, <1>3, <1>4, <1>5 DEF SummaryInv, Registry
<1>7. \A c \in Connections :
         /\ quiet[c] \in Nat /\ quiet'[c] \in Nat
         /\ quiet'[c] < LongAgo => quiet'[c] = quiet[c] + 1
  <2> TAKE c \in Connections
  <2>1. quiet[c] \in Nat /\ quiet[c] \in Ages /\ quiet[c] # NoAge
    BY TickBounds DEF SummaryInv, Ages
  <2> QED BY <1>1, <2>1, OlderAge, TickBounds
<1>8. quiet' \in [Connections -> Nat]
  BY <1>1, <1>7
<1>9. ASSUME NEW c \in Connections, quiet'[c] < LongAgo
      PROVE  /\ c \in open' /\ names'[c] # {} /\ c \in DOMAIN sessionKeys'
             /\ Fresh(workers'[sessionKeys'[c]], quiet'[c])
  <2>1. quiet'[c] = quiet[c] + 1 /\ quiet[c] + 1 < LongAgo /\ quiet[c] < LongAgo
    BY <1>7, <1>9, TickBounds
  <2>2. /\ c \in open /\ names[c] # {} /\ c \in DOMAIN sessionKeys
        /\ Fresh(workers[sessionKeys[c]], quiet[c])
    BY <2>1 DEF SummaryInv, Heard, Registered
  <2>3. Fresh(workers'[sessionKeys[c]], quiet[c] + 1)
    BY <1>2, <1>3, <1>7, <2>1, <2>2
  <2> QED BY <1>1, <2>1, <2>2, <2>3
<1>10. Heard'
  BY <1>9 DEF Heard, Registered
<1> QED BY <1>1, <1>6, <1>8, <1>10 DEF SummaryInv

\* The report evicts workers nobody is registered to, and expires a worker only
\* with all its connections, none of which had a valid share in time.
LEMMA SnapshotStep ==
    ASSUME SummaryInv, Snapshot
    PROVE  SummaryInv'
<1> DEFINE pruned == [k \in DOMAIN workers |-> Prune(workers[k])]
           kept == {k \in DOMAIN workers : ~ShouldEvict(pruned[k])}
           expired == {k \in kept : ShouldForceDisconnect(pruned[k])}
           left == {c \in DOMAIN sessionKeys : sessionKeys[c] \notin expired}
<1>1. /\ workers' = [k \in kept |-> IF k \in expired THEN ForceDisconnected(pruned[k])
                                                     ELSE pruned[k]]
      /\ sessionKeys' = Restrict(sessionKeys, left)
      /\ UNCHANGED <<open, names, quiet>>
  BY DEF Snapshot, connectionVars
<1>2. /\ \A k \in DOMAIN workers :
            workers[k] \in WorkerTypes /\ workers[k].count = Cardinality(Of(sessionKeys, k))
      /\ \A c \in DOMAIN sessionKeys : sessionKeys[c] \in DOMAIN workers
      /\ IsFiniteSet(DOMAIN sessionKeys)
  BY DEF SummaryInv, Registry
<1>3. \A k \in DOMAIN workers :
         /\ pruned[k] \in WorkerTypes /\ pruned[k].count = workers[k].count
         /\ \A q \in Nat : Fresh(workers[k], q) => Fresh(pruned[k], q)
  BY <1>2, PruneFacts
<1>4. kept \subseteq DOMAIN workers /\ expired \subseteq kept /\ left \subseteq DOMAIN sessionKeys
  OBVIOUS
<1>5. /\ DOMAIN workers' = kept /\ workers' = [k \in DOMAIN workers' |-> workers'[k]]
      /\ \A k \in expired : workers'[k] = ForceDisconnected(pruned[k])
      /\ \A k \in kept \ expired : workers'[k] = pruned[k]
  BY <1>1
<1>6. /\ DOMAIN sessionKeys' = left /\ \A c \in left : sessionKeys'[c] = sessionKeys[c]
      /\ sessionKeys' = [c \in DOMAIN sessionKeys' |-> sessionKeys'[c]]
  BY <1>1 DEF Restrict
<1>7. IsFiniteSet(DOMAIN sessionKeys')
  BY <1>2, <1>4, <1>6, FS_Subset
<1>8. \A c \in DOMAIN sessionKeys : sessionKeys[c] \in kept
  <2> TAKE c \in DOMAIN sessionKeys
  <2> DEFINE k == sessionKeys[c]
  <2>1. k \in DOMAIN workers /\ c \in Of(sessionKeys, k)
    BY <1>2 DEF Of
  <2>2. Cardinality(Of(sessionKeys, k)) # 0
    BY <1>2, <2>1, OfFinite
  <2>3. pruned[k].count # 0
    <3> HIDE DEF pruned, k
    <3> QED BY <1>2, <1>3, <2>1, <2>2
  <2> HIDE DEF pruned
  <2> QED BY <2>1, <2>3 DEF ShouldEvict
<1>9. \A c \in left : sessionKeys[c] \in kept \ expired
  BY <1>4, <1>8
<1>10. \A k \in expired :
          /\ ForceDisconnected(pruned[k]) \in WorkerTypes
          /\ ForceDisconnected(pruned[k]).count = 0
  <2> TAKE k \in expired
  <2>1. pruned[k] \in WorkerTypes
    BY <1>3
  <2> HIDE DEF pruned
  <2> QED BY <2>1, TickBounds DEF ForceDisconnected, WorkerTypes, Ages
<1>11. \A c \in DOMAIN sessionKeys : sessionKeys[c] \in expired =>
          \A q \in Nat : Fresh(workers[sessionKeys[c]], q) => q >= LongAgo
  <2> SUFFICES ASSUME NEW c \in DOMAIN sessionKeys, sessionKeys[c] \in expired,
                      NEW q \in Nat, Fresh(workers[sessionKeys[c]], q)
               PROVE  q >= LongAgo
    OBVIOUS
  <2> DEFINE p == pruned[sessionKeys[c]]
  <2>1. ShouldForceDisconnect(p)
    OBVIOUS
  <2>2. p \in WorkerTypes /\ Fresh(p, q)
    <3> HIDE DEF pruned, expired, kept
    <3> QED BY <1>2, <1>3
  <2> HIDE DEF p
  <2> QED BY <2>1, <2>2, ExpiredIsQuiet
<1>12. \A c \in DOMAIN sessionKeys : sessionKeys[c] \notin expired => c \in left
  OBVIOUS
<1>13. \A c \in left : sessionKeys[c] \notin expired
  OBVIOUS
<1> HIDE DEF pruned, kept, expired, left
<1>14. \A k \in kept : /\ workers'[k] \in WorkerTypes
                       /\ workers'[k].count = Cardinality(Of(sessionKeys', k))
  <2> TAKE k \in kept
  <2>1. CASE k \in expired
    <3>1. Of(sessionKeys', k) = {}
      BY <1>6, <1>13, <2>1 DEF Of
    <3> QED BY <1>5, <1>10, <2>1, <3>1, FS_EmptySet
  <2>2. CASE k \notin expired
    <3>1. Of(sessionKeys', k) = Of(sessionKeys, k)
      BY <1>4, <1>6, <1>12, <2>2 DEF Of
    <3> QED BY <1>2, <1>3, <1>4, <1>5, <2>2, <3>1
  <2> QED BY <2>1, <2>2
<1>15. workers' \in [DOMAIN workers' -> WorkerTypes]
  BY <1>5, <1>14
<1>16. Registry(sessionKeys', workers')
  BY <1>5, <1>6, <1>7, <1>9, <1>14, <1>15 DEF Registry
<1>17. ASSUME NEW c \in Connections, quiet[c] < LongAgo
       PROVE  /\ c \in open' /\ names'[c] # {} /\ c \in DOMAIN sessionKeys'
              /\ Fresh(workers'[sessionKeys'[c]], quiet[c])
  <2>1. /\ c \in open /\ names[c] # {} /\ c \in DOMAIN sessionKeys /\ quiet[c] \in Nat
        /\ Fresh(workers[sessionKeys[c]], quiet[c])
    BY <1>17 DEF SummaryInv, Heard, Registered
  <2>2. sessionKeys[c] \notin expired
    BY <1>11, <1>17, <2>1, TickBounds
  <2>3. c \in left /\ sessionKeys[c] \in kept \ expired
    BY <1>8, <1>12, <2>1, <2>2
  <2>4. Fresh(workers'[sessionKeys[c]], quiet[c])
    BY <1>3, <1>4, <1>5, <2>1, <2>3
  <2> QED BY <1>1, <1>6, <2>1, <2>3, <2>4
<1>18. Heard'
  BY <1>1, <1>17 DEF Heard, Registered
<1> QED BY <1>1, <1>16, <1>18 DEF SummaryInv

LEMMA SummaryInvHolds == SummarySpec => []SummaryInv
<1>1. SummaryInit => SummaryInv
  <2> SUFFICES ASSUME SummaryInit PROVE SummaryInv
    OBVIOUS
  <2>1. /\ sessionKeys = << >> /\ workers = << >>
        /\ names = [c \in Connections |-> {}] /\ quiet = [c \in Connections |-> LongAgo]
        /\ open = {}
    BY DEF SummaryInit
  <2>2. DOMAIN sessionKeys = {} /\ DOMAIN workers = {}
    BY <2>1
  <2>3. /\ sessionKeys = [c \in DOMAIN sessionKeys |-> sessionKeys[c]]
        /\ workers \in [DOMAIN workers -> WorkerTypes]
    BY <2>1, <2>2
  <2>4. Registry(sessionKeys, workers)
    BY <2>2, <2>3, FS_EmptySet DEF Registry
  <2>5. /\ names \in [Connections -> SUBSET Names] /\ quiet \in [Connections -> Nat]
        /\ \A c \in Connections : ~(quiet[c] < LongAgo)
    BY <2>1, TickBounds
  <2> QED BY <2>1, <2>4, <2>5 DEF SummaryInv, Heard
<1>2. SummaryInv /\ [SummaryNext]_summaryVars => SummaryInv'
  <2> SUFFICES ASSUME SummaryInv, [SummaryNext]_summaryVars PROVE SummaryInv'
    OBVIOUS
  <2>1. CASE UNCHANGED summaryVars
    BY <2>1 DEF SummaryInv, Heard, Registered, summaryVars, connectionVars, dispatcherVars
  <2>2. CASE Readers
    BY <2>2, AcceptStep, SubmitValidStep, CloseStep, SubmitInvalidStep, AuthorizeStep
    DEF Readers
  <2> QED BY <2>1, <2>2, RestartStep, TickStep, SnapshotStep DEF SummaryNext
<1> QED BY <1>1, <1>2, PTL DEF SummarySpec

\* session_keys and workers never disagree, for any number of connections, names
\* and tokens and every order of joins, moves, losses, expirations and evictions.
THEOREM SessionsAreCountedHolds == SummarySpec => []SessionsAreCounted
<1>1. SummaryInv => SessionsAreCounted
  BY DEF SummaryInv, Registry, SessionsAreCounted, Of, Range
<1> QED BY <1>1, SummaryInvHolds, PTL

\* A miner that submits valid shares is in the summary until it has been without
\* one for WORKER_HASHRATE_WINDOW and ZERO_HASHRATE_CONNECTED_TIMEOUT together,
\* whatever these are.
THEOREM HashingIsRegisteredHolds == SummarySpec => []HashingIsRegistered
<1>1. SummaryInv => HashingIsRegistered
  BY TickBounds DEF SummaryInv, Heard, HashingIsRegistered
<1> QED BY <1>1, SummaryInvHolds, PTL

=============================================================================
