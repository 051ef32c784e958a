-------------------------------- MODULE Channel --------------------------------
(***************************************************************************)
(* The hashrate of the one upstream channel all miners share, and the list *)
(* of miners by which the health check counts them.  Each miner adds its   *)
(* estimate and is listed when its notify task starts, moves the estimate  *)
(* when its difficulty is retargeted and takes both away when it leaves; a *)
(* task per miner raises the sum when the upstream share limit is held;    *)
(* the diff management task of the upstream tells the pool.  The tasks run *)
(* on several threads and no operation holds the downstream's and the      *)
(* channel's mutex together, so each is several steps.                     *)
(*                                                                         *)
(* A rate is a natural number (the code's f32 rounds).  Time is not        *)
(* measured: the rate-limit window may be full at any moment, and the      *)
(* limiters of raises and updates only delay them.                         *)
(***************************************************************************)
EXTENDS Integers, Sequences, FiniteSets, FiniteSetsExt

CONSTANTS
    Miners,
    Rates,        \* hashrate estimates
    Multiplier,   \* SHARE_RATE_LIMIT_PER_MINUTE / SHARE_PER_MIN, at least 2
    InitialRate,  \* downstream_hashrate of the configuration
    MaxChanges,   \* bound on new estimates
    MaxRaises,    \* bound on raises by the rate limit
    StatsCapacity \* capacity of the StatsManager's channel (100)

ASSUME ChannelAssumption ==
    /\ Rates \subseteq Nat \ {0}
    /\ InitialRate \in Rates /\ Multiplier \in Nat \ {0}
    /\ {MaxChanges, MaxRaises} \subseteq Nat /\ StatsCapacity \in Nat \ {0}

VARIABLES
    boot,        \* the bootstrap task of each miner: start_notify
    reader,      \* its receive task
    copied,      \* registered_hashrate of start_notify
    estimate,    \* estimated_downstream_hash_rate
    registered,  \* channel_hashrate_registered
    removal,     \* what the receive task has still to subtract
    delta,       \* what a retarget of the miner has still to add
    limiting,    \* its rate-limit task is between raise and retarget
    nominal,     \* channel_nominal_hashrate
    unseen,      \* the watch channel holds a revision not seen
    diff,        \* run_diff_management
    sent,        \* nominal_hash_rate of the last UpdateChannel
    changes,     \* new estimates and raises so far
    drift,       \* why the sum is no longer exact (history)
    statsQ,      \* the StatsManager's channel
    stats,       \* the miners it has an entry for
    leaked       \* miners whose start was aborted before it took its entry back (history)

minerVars == <<boot, reader, copied, estimate, registered, removal, delta, limiting>>
upstreamVars == <<diff, sent>>
statsVars == <<statsQ, stats, leaked>>
channelVars == <<minerVars, nominal, unseen, upstreamVars, changes, drift, statsVars>>

\* Who retargets a miner: its update task, or its rate-limit task.
Tasks == {"update", "limit"}

ChannelInit ==
    /\ boot = [m \in Miners |-> "new"]
    /\ reader = [m \in Miners |-> "open"]
    /\ copied = [m \in Miners |-> 0]
    /\ estimate = [m \in Miners |-> InitialRate]
    /\ registered = [m \in Miners |-> FALSE]
    /\ removal = [m \in Miners |-> 0]
    /\ delta = [m \in Miners |-> [t \in Tasks |-> 0]]
    /\ limiting = [m \in Miners |-> FALSE]
    /\ nominal = 0 /\ unseen = FALSE
    /\ diff = [stage |-> "idle", rate |-> 0]
    /\ sent = 0
    /\ changes = [rate |-> 0, raise |-> 0]
    /\ drift = {}
    /\ statsQ = <<>> /\ stats = {} /\ leaked = {}

\* Each change of the sum is followed by request_immediate_update under one lock.
SetNominal(n) ==
    /\ nominal' = n
    /\ unseen' = TRUE

Subtract(n) == SetNominal(nominal - Min({n, nominal}))

\* A subtraction that was cut at zero.
Clamps(n) == IF n > nominal THEN {"clamped"} ELSE {}

-----------------------------------------------------------------------------
(* start_notify *)

BootGoes(m, from, to) ==
    /\ boot[m] = from
    /\ boot' = [boot EXCEPT ![m] = to]

StartReads(m) ==
    /\ BootGoes(m, "new", IF reader[m] = "open" THEN "read" ELSE "done")
    /\ copied' = [copied EXCEPT ![m] = estimate[m]]
    /\ UNCHANGED <<reader, estimate, registered, removal, delta, limiting, nominal, unseen,
                   upstreamVars, changes, drift>>

StartAdds(m) ==
    /\ BootGoes(m, "read", "added")
    /\ SetNominal(nominal + copied[m])
    /\ UNCHANGED <<reader, copied, estimate, registered, removal, delta, limiting,
                   upstreamVars, changes, drift>>

\* mark_channel_hashrate_registered
StartMarks(m) ==
    /\ BootGoes(m, "added", "setup")
    /\ registered' = [registered EXCEPT ![m] = TRUE]
    /\ UNCHANGED <<reader, copied, estimate, removal, delta, limiting, nominal, unseen,
                   upstreamVars, changes, drift>>

\* send_reliable: it waits for room.
Command(kind, m) ==
    /\ Len(statsQ) < StatsCapacity
    /\ statsQ' = Append(statsQ, [kind |-> kind, miner |-> m])
    /\ UNCHANGED <<stats, leaked>>

\* setup_stats_reliable
StartLists(m) ==
    /\ BootGoes(m, "setup", "stats")
    /\ Command("setup", m)
    /\ UNCHANGED <<reader, copied, estimate, registered, removal, delta, limiting, nominal,
                   unseen, upstreamVars, changes, drift>>

\* A miner that left meanwhile is rolled back.
StartChecks(m) ==
    /\ BootGoes(m, "stats", IF reader[m] = "open" THEN "running" ELSE "rollback")
    /\ UNCHANGED <<reader, copied, estimate, registered, removal, delta, limiting, nominal,
                   unseen, upstreamVars, changes, drift>>

\* remove_stats_reliable
StartUnlists(m) ==
    /\ BootGoes(m, "rollback", "unlisted")
    /\ Command("remove", m)
    /\ UNCHANGED <<reader, copied, estimate, registered, removal, delta, limiting, nominal,
                   unseen, upstreamVars, changes, drift>>

StartTakes(m) ==
    /\ BootGoes(m, "unlisted", IF registered[m] THEN "undo" ELSE "done")
    /\ registered' = [registered EXCEPT ![m] = FALSE]
    /\ UNCHANGED <<reader, copied, estimate, removal, delta, limiting, nominal, unseen,
                   upstreamVars, changes, drift>>

StartUndoes(m) ==
    /\ BootGoes(m, "undo", "done")
    /\ Subtract(copied[m])
    /\ drift' = drift \cup Clamps(copied[m])
    /\ UNCHANGED <<reader, copied, estimate, registered, removal, delta, limiting,
                   upstreamVars, changes>>

-----------------------------------------------------------------------------
(* The end of a miner: start_receive_downstream after its loop *)

ReaderGoes(m, from, to) ==
    /\ reader[m] = from
    /\ reader' = [reader EXCEPT ![m] = to]

ReaderCloses(m) ==
    /\ ReaderGoes(m, "open", "closed")
    /\ UNCHANGED <<boot, copied, estimate, registered, removal, delta, limiting, nominal,
                   unseen, upstreamVars, changes, drift>>

ReaderUnlists(m) ==
    /\ ReaderGoes(m, "closed", "unlisted")
    /\ Command("remove", m)
    /\ UNCHANGED <<boot, copied, estimate, registered, removal, delta, limiting, nominal,
                   unseen, upstreamVars, changes, drift>>

\* Mutant of ReaderTakes: the flag is read and left set.
ReaderReads(m) ==
    /\ ReaderGoes(m, "unlisted", "taken")
    /\ removal' = [removal EXCEPT ![m] = IF registered[m] THEN estimate[m] ELSE 0]
    /\ UNCHANGED <<boot, copied, estimate, registered, delta, limiting, nominal, unseen,
                   upstreamVars, changes, drift>>

\* remove_downstream_hashrate_from_channel, under the downstream's lock
ReaderTakes(m) ==
    /\ ReaderGoes(m, "unlisted", "taken")
    /\ removal' = [removal EXCEPT ![m] = IF registered[m] THEN estimate[m] ELSE 0]
    /\ registered' = [registered EXCEPT ![m] = FALSE]
    /\ UNCHANGED <<boot, copied, estimate, delta, limiting, nominal, unseen, upstreamVars, changes, drift>>

\* ... and under the channel's
ReaderSubtracts(m) ==
    /\ ReaderGoes(m, "taken", "removed")
    /\ IF removal[m] = 0 THEN UNCHANGED <<nominal, unseen>> ELSE Subtract(removal[m])
    /\ drift' = drift \cup Clamps(removal[m])
    /\ removal' = [removal EXCEPT ![m] = 0]
    /\ UNCHANGED <<boot, copied, estimate, registered, delta, limiting, upstreamVars, changes>>

\* The kill signal aborts the miner's tasks at an await, the rollback of
\* start_notify included.  The rate-limit task is not one of them.
KillTasks(m) ==
    /\ boot[m] \in {"new", "setup", "rollback", "running", "done"}
    /\ delta[m]["update"] = 0
    /\ ReaderGoes(m, "removed", "killed")
    /\ boot' = [boot EXCEPT ![m] = IF @ = "running" THEN "killed" ELSE "done"]
    /\ drift' = drift \cup (IF registered[m] THEN {"aborted"} ELSE {})
    /\ leaked' = leaked \cup (IF boot[m] = "rollback" THEN {m} ELSE {})
    /\ UNCHANGED <<statsQ, stats>>
    /\ UNCHANGED <<copied, estimate, registered, removal, delta, limiting, nominal, unseen,
                   upstreamVars, changes>>

-----------------------------------------------------------------------------
(* Retargets of a miner *)

\* The first lock of reconcile_hash_rate_estimation.
Reestimate(m, task, rate) ==
    /\ delta[m][task] = 0
    /\ changes.rate < MaxChanges
    /\ rate # estimate[m]
    /\ estimate' = [estimate EXCEPT ![m] = rate]
    /\ delta' = [delta EXCEPT ![m][task] = rate - estimate[m]]

\* try_update_difficulty_settings from the update task.
UpdateReestimates(m, rate) ==
    /\ boot[m] = "running" /\ reader[m] # "killed"
    /\ Reestimate(m, "update", rate)
    /\ changes' = [changes EXCEPT !.rate = @ + 1]
    /\ drift' = drift \cup (IF registered[m] THEN {} ELSE {"outlived"})
    /\ UNCHANGED <<boot, reader, copied, registered, removal, limiting, nominal, unseen,
                   upstreamVars>>

\* The second lock: the sum follows the estimate and stays at least zero.
Moved(n) == IF nominal + n > 0 THEN nominal + n ELSE 0

ReconcileChannel(m, task) ==
    /\ delta[m][task] # 0
    /\ SetNominal(Moved(delta[m][task]))
    /\ drift' = drift \cup Clamps(-delta[m][task])
    /\ delta' = [delta EXCEPT ![m][task] = 0]
    /\ UNCHANGED <<boot, reader, copied, estimate, registered, removal, limiting,
                   upstreamVars, changes>>

-----------------------------------------------------------------------------
(* The rate limit of upstream shares *)

\* check_share_rate_limit was spawned when the miner was first given work.
RateLimitTask(m) == boot[m] \in {"running", "killed"} /\ delta[m]["limit"] = 0

\* The window of upstream shares was full for five ticks.
\* maybe_request_upstream_rate_limit_retarget raises once per interval for all
\* miners together.
MaybeRaise(m) ==
    /\ RateLimitTask(m) /\ ~limiting[m]
    /\ limiting' = [limiting EXCEPT ![m] = TRUE]
    /\ \/ /\ changes.raise < MaxRaises
          /\ SetNominal(Max({nominal * Multiplier, InitialRate}))
          /\ changes' = [changes EXCEPT !.raise = @ + 1]
          /\ drift' = drift \cup {"raised"}
       \/ UNCHANGED <<nominal, unseen, changes, drift>>
    /\ UNCHANGED <<boot, reader, copied, estimate, registered, removal, delta,
                   upstreamVars>>

\* ... then try_update_difficulty_settings, also when the miner is gone.
LimitReestimates(m) ==
    /\ limiting[m]
    /\ limiting' = [limiting EXCEPT ![m] = FALSE]
    /\ \/ /\ \E rate \in Rates : Reestimate(m, "limit", rate)
          /\ changes' = [changes EXCEPT !.rate = @ + 1]
          /\ drift' = drift \cup (IF registered[m] THEN {} ELSE {"outlived"})
       \/ UNCHANGED <<estimate, delta, changes, drift>>
    /\ UNCHANGED <<boot, reader, copied, registered, removal, nominal, unseen,
                   upstreamVars>>

-----------------------------------------------------------------------------
(* run_diff_management *)

DiffGoes(from, to) ==
    /\ diff.stage = from
    /\ diff' = [diff EXCEPT !.stage = to]

\* update_rx.changed(), which marks the revision as seen, or the timer.
DiffWakes ==
    /\ DiffGoes("idle", "due")
    /\ unseen \/ sent # nominal
    /\ unseen' = FALSE
    /\ UNCHANGED <<minerVars, nominal, sent, changes, drift>>

\* borrow_and_update, when the limiter allows
DiffMarksSeen ==
    /\ DiffGoes("due", "reading")
    /\ unseen' = FALSE
    /\ UNCHANGED <<minerVars, nominal, sent, changes, drift>>

\* try_update_hashrate
DiffReads ==
    /\ diff.stage = "reading"
    /\ diff' = [stage |-> "sending", rate |-> nominal]
    /\ UNCHANGED <<minerVars, nominal, unseen, sent, changes, drift>>

\* Mutant of DiffSends: the revision is marked when its hashrate was sent.
DiffSendsThenMarks ==
    /\ DiffGoes("sending", "idle")
    /\ sent' = diff.rate
    /\ unseen' = FALSE
    /\ UNCHANGED <<minerVars, nominal, changes, drift>>

DiffSends ==
    /\ DiffGoes("sending", "idle")
    /\ sent' = diff.rate
    /\ UNCHANGED <<minerVars, nominal, unseen, changes, drift>>

-----------------------------------------------------------------------------
(* StatsManager *)

\* update_diff, update_hashrate and the share counts, by every task that holds the
\* Downstream: try_send drops the command when the channel is full.
UpdateStats(m) ==
    /\ reader[m] = "open" \/ boot[m] \in {"running", "killed"}
    /\ Command("update", m)
    /\ UNCHANGED <<minerVars, nominal, unseen, upstreamVars, changes, drift>>

\* Mutant of Handled: an update makes the entry it does not find.
HandledInserting(command) ==
    IF command.kind = "remove" THEN stats \ {command.miner} ELSE stats \cup {command.miner}

\* An update finds the entry or does nothing.
Handled(command) ==
    CASE command.kind = "setup"  -> stats \cup {command.miner}
      [] command.kind = "remove" -> stats \ {command.miner}
      [] command.kind = "update" -> stats

ManagerHandles ==
    /\ statsQ # <<>>
    /\ stats' = Handled(Head(statsQ))
    /\ statsQ' = Tail(statsQ)
    /\ UNCHANGED <<leaked, minerVars, nominal, unseen, upstreamVars, changes, drift>>

-----------------------------------------------------------------------------
(* The specification *)

Bootstrap(m) ==
    \/ StartReads(m) \/ StartAdds(m) \/ StartMarks(m)
    \/ StartChecks(m) \/ StartTakes(m) \/ StartUndoes(m)

End(m) == ReaderCloses(m) \/ ReaderTakes(m) \/ ReaderSubtracts(m)

Retarget(m) ==
    \/ \E rate \in Rates : UpdateReestimates(m, rate)
    \/ \E task \in Tasks : ReconcileChannel(m, task)
    \/ MaybeRaise(m) \/ LimitReestimates(m)

DiffManagement == DiffWakes \/ DiffMarksSeen \/ DiffReads \/ DiffSends

Stats(m) == StartLists(m) \/ StartUnlists(m) \/ ReaderUnlists(m) \/ UpdateStats(m)

DiffStep == DiffManagement /\ UNCHANGED statsVars

ChannelNext ==
    \/ \E m \in Miners : \/ Stats(m) \/ KillTasks(m)
                         \/ (Bootstrap(m) \/ End(m) \/ Retarget(m)) /\ UNCHANGED statsVars
    \/ DiffStep \/ ManagerHandles

\* The diff management task is scheduled, and the waits of its limiter end.
ChannelSpec ==
    ChannelInit /\ [][ChannelNext]_channelVars /\ WF_channelVars(DiffStep)

-----------------------------------------------------------------------------
(* Properties *)

\* What the miner has in the sum at this moment, steps under way included.
Share(m) ==
    LET begun == IF boot[m] \in {"added", "undo"} THEN copied[m] ELSE 0
        held == IF registered[m] THEN estimate[m] ELSE 0
        owed == delta[m]["update"] + delta[m]["limit"]
    IN begun + held + removal[m] - owed

\* The channel's hashrate is the sum of what its miners hold and nothing is left
\* of one that is gone, whatever the order of its start, its retargets and its
\* end, unless a known cause made it drift: a subtraction cut at zero, a raise by
\* the rate limit, a retarget after the miner was removed, or a bootstrap aborted
\* between marking and rolling back.
NominalIsSumUnlessDrifted ==
    drift = {} =>
        /\ nominal = MapThenSumSet(Share, Miners)
        /\ \A m \in Miners : reader[m] = "killed" => ~registered[m]

\* No change of the hashrate goes unnoticed by the task that tells the pool,
\* although it is made while the task reads, waits for the limiter or sends.
UnsentIsNoticed ==
    nominal # sent =>
        \/ unseen
        \/ diff.stage \in {"due", "reading"}
        \/ diff.stage = "sending" /\ diff.rate = nominal

Awaited(kind, m) == [kind |-> kind, miner |-> m] \in {statsQ[i] : i \in DOMAIN statsQ}

\* The health check's count of miners is true at rest: a miner that is served is
\* listed, one that is gone is not, in whatever order its start, its end and late
\* updates of its tasks reach the StatsManager; unless its start was aborted
\* between listing it and taking that back.
ListedUnlessLeaked ==
    \A m \in Miners :
        /\ (reader[m] = "open" /\ boot[m] = "running" /\ ~Awaited("setup", m)) => m \in stats
        /\ (reader[m] = "killed" /\ boot[m] \in {"done", "killed"} /\ ~Awaited("remove", m))
               => m \notin stats \/ m \in leaked

=============================================================================
