--------------------------------- MODULE Miner ---------------------------------
(***************************************************************************)
(* One miner's connection to the translator                                *)
(* (src/src/translator/downstream): how the bridge's jobs reach the miner, *)
(* which identifiers and difficulties they get on the way, and which       *)
(* shares come back as shares of which job.                                *)
(*                                                                         *)
(* The bridge numbers its jobs 1, 2, ... in the order of its notifies; the *)
(* number is the pool's id (v2) and stands for the merge-mining binding    *)
(* too.  RecentJobs gives every message to the miner a random id (v1) that *)
(* is not in its maps, here a number above MaxJob; an id that was evicted  *)
(* may come back.  What the miner was sent is in told: for every v1 id its *)
(* job and the difficulty last announced before it.                        *)
(*                                                                         *)
(* Tasks of a connection: the receiving task (Configure, Authorize,        *)
(* Submit), the notifier (start_notify), the update task and the           *)
(* rate-limit task, which both retarget.  They share the Downstream under  *)
(* a mutex and send after releasing it, so a message may be overtaken.     *)
(* The configuration accepts only delay = 0: the bootstrap difficulty is   *)
(* sent once.                                                              *)
(***************************************************************************)
EXTENDS Integers, Sequences, FiniteSets

CONSTANTS
    MaxJob,         \* bound on the jobs of the bridge
    Diffs,          \* difficulties, powers of two in the code
    InitialDiff,    \* base_initial_difficulty
    Tracked,        \* TRACKED_RECENT_JOBS
    Buffer,         \* capacity of the notify broadcast
    MaxUpdates,     \* bound on retargets
    MaxConfigures   \* bound on mining.configure messages

ASSUME MinerAssumption ==
    /\ MaxJob \in Nat \ {0}
    /\ Diffs \subseteq Nat /\ InitialDiff \in Diffs
    /\ Tracked \in Nat \ {0}
    /\ Buffer \in Nat \ {0}
    /\ MaxUpdates \in Nat
    /\ MaxConfigures \in Nat

VARIABLES
    sentJob,     \* the last job broadcast on tx_sv1_notify, 0 for none
    lastNotify,  \* Bridge.last_notify, 0 for None
    bridgeDiff,  \* the target of the channel in the bridge's factory
    phase,       \* the connection
    feed,        \* rx_sv1_notify: jobs not yet received
    firstJob,    \* Downstream.first_job: its job_id field and its job
    configures,  \* mining.configure messages handled
    authorized,  \* authorized_names is not empty
    diff,        \* the back of current_difficulties
    recent,      \* RecentJobs
    issues,      \* different v1 ids drawn so far
    notifier,    \* the task of start_notify
    update,      \* the tasks that call try_update_difficulty_settings
    updates,     \* retargets so far
    told,        \* what the miner was sent: v1 id to job and difficulty
    minerJob,    \* the v1 id of the last mining.notify sent, 0 for none
    minerDiff,   \* the last mining.set_difficulty sent, 0 for none
    submits,     \* difficulty_mgmt.submits is not empty
    down,        \* DownstreamState::Down was reported
    behind,      \* why the miner may miss the newest job (history)
    overlap,     \* a retarget began during another one (history)
    redrawn,     \* what was said of an id that was evicted and drawn again (history)
    renamed      \* jobs configured again before the next notify (history)

bridgeVars == <<sentJob, lastNotify>>
jobVars == <<firstJob, recent, issues, redrawn, renamed>>
minerVars == <<told, minerJob, minerDiff, down>>
retargetVars == <<bridgeDiff, diff, updates, overlap>>
vars == <<bridgeVars, phase, feed, configures, authorized, submits, behind,
          notifier, update, jobVars, minerVars, retargetVars>>

Updaters == {"update", "limit"}
NoHeld == [v1 |-> 0, job |-> 0, calm |-> TRUE]
NoUpdate(pc) == [pc |-> pc, diff |-> 0, held |-> NoHeld]

Init ==
    /\ sentJob = 0
    /\ lastNotify = 0
    /\ diff = InitialDiff
    /\ bridgeDiff = InitialDiff
    /\ phase = "away"
    /\ feed = <<>>
    /\ firstJob = [id |-> 0, job |-> 0]
    /\ configures = 0
    /\ authorized = FALSE
    /\ recent = [issued |-> <<>>, lastV2s |-> <<>>, jobs |-> <<>>]
    /\ issues = 0
    /\ notifier = [pc |-> "none", held |-> NoHeld]
    /\ update = [x \in Updaters |-> NoUpdate("off")]
    /\ updates = 0
    /\ told = <<>>
    /\ minerJob = 0
    /\ minerDiff = 0
    /\ submits = FALSE
    /\ down = FALSE
    /\ behind = {}
    /\ overlap = FALSE
    /\ redrawn = {}
    /\ renamed = {}

-----------------------------------------------------------------------------
(* RecentJobs *)

\* HashMap::insert
Put(f, k, v) == [x \in DOMAIN f \cup {k} |-> IF x = k THEN v ELSE f[x]]

\* Mutant of FreshV1s: new_v1 takes the first id it draws.
FreshV1sUnchecked == MaxJob + 1 .. MaxJob + issues + 1

\* new_v1 draws until the id is not in the maps: one that was never drawn (they are all
\* alike, the next number stands for them) or one that was evicted since.
FreshV1s == (MaxJob + 1 .. MaxJob + issues + 1) \ DOMAIN recent.issued

\* remove_v2 of the id that last_v2s gives up.
WithoutV2(issued, v2) ==
    LET kept == {v1 \in DOMAIN issued : issued[v1].v2 # v2}
    IN  [v1 \in kept |-> issued[v1]]

\* Mutant of NewV1: one job too few is tracked.
NewV1Short(r, v1, n, d) ==
    LET known == \E v \in DOMAIN r.issued : r.issued[v].v2 = n.id
        full == ~known /\ Len(r.lastV2s) >= Tracked - 1
        kept == IF full THEN WithoutV2(r.issued, Head(r.lastV2s)) ELSE r.issued
        entry == [v2 |-> n.id, job |-> n.job, diff |-> d]
    IN  [r EXCEPT !.issued = Put(kept, v1, entry),
                  !.lastV2s = CASE known -> r.lastV2s
                                [] full  -> Append(Tail(r.lastV2s), n.id)
                                [] OTHER -> Append(r.lastV2s, n.id)]

\* new_v1: the id joins the ones of its v2 id; a v2 id not known yet is tracked, and
\* the oldest one tracked is removed with all of its ids.
NewV1(r, v1, n, d) ==
    LET known == \E v \in DOMAIN r.issued : r.issued[v].v2 = n.id
        full == ~known /\ Len(r.lastV2s) = Tracked
        kept == IF full THEN WithoutV2(r.issued, Head(r.lastV2s)) ELSE r.issued
        entry == [v2 |-> n.id, job |-> n.job, diff |-> d]
    IN  [r EXCEPT !.issued = Put(kept, v1, entry),
                  !.lastV2s = CASE known -> r.lastV2s
                                [] full  -> Append(Tail(r.lastV2s), n.id)
                                [] OTHER -> Append(r.lastV2s, n.id)]

\* add_job_with_binding: the job is saved under its v2 id.
AddJob(r, v1, n, d) ==
    LET added == Append(r.jobs, n)
    IN  [NewV1(r, v1, n, d) EXCEPT
            !.jobs = IF Len(added) > Tracked THEN Tail(added) ELSE added]

\* clone_last: the last job under one more id.
LastJobFront(r) == Head(r.jobs)  \* mutant of LastJob: the oldest one
LastJob(r) == r.jobs[Len(r.jobs)]
CloneLast(r, v1, d) == NewV1(r, v1, LastJob(r), d)

-----------------------------------------------------------------------------
(* Messages to the miner *)

Busy(x) == update[x].pc \notin {"off", "idle"}
Calm == ~overlap /\ \A x \in Updaters : ~Busy(x)

\* Retargets that hold a job between clone_last and its sending.
Reissued == {x \in Updaters : update[x].pc = "reissued"}

\* The message issued last, on its way to the miner.
Held(v1, job, calm) == [v1 |-> v1, job |-> job, calm |-> calm]
Crossed(h) == [h EXCEPT !.calm = @ /\ h.v1 = 0]

\* The miner was sent job as v1, or a message on its way says so.
Says(h, v1, job) == h.v1 = v1 /\ h.job = job
Mentioned(v1, job) ==
    \/ v1 \in DOMAIN told /\ told[v1].job = job
    \/ Says(notifier.held, v1, job)
    \/ \E x \in Updaters : Says(update[x].held, v1, job)

\* The id is drawn.  When it was in the maps before and is not now, whatever was said of
\* it is outdated.
Draw(v1) ==
    /\ issues' = IF v1 > MaxJob + issues THEN issues + 1 ELSE issues
    /\ redrawn' = IF v1 \in DOMAIN recent.issued
                      THEN redrawn
                      ELSE redrawn \cup {v1} \X {job \in 0 .. MaxJob : Mentioned(v1, job)}

\* send_message_downstream: the miner gets the message; once its connection is gone
\* the message is lost or, when start_send_to_downstream has ended, the failure is
\* reported.
Gone ==
    /\ phase # "running"
    /\ UNCHANGED <<told, minerJob, minerDiff>>
    /\ IF phase = "closed" THEN down' = TRUE ELSE down' \in {down, TRUE}

SendDifficulty(d) ==
    \/ /\ phase = "running"
       /\ minerDiff' = d
       /\ UNCHANGED <<told, minerJob, down>>
    \/ Gone

SendJob(h) ==
    \/ /\ phase = "running"
       /\ told' = Put(told, h.v1, [job |-> h.job, diff |-> minerDiff, calm |-> h.calm])
       /\ minerJob' = h.v1
       /\ UNCHANGED <<minerDiff, down>>
    \/ Gone

-----------------------------------------------------------------------------
(* The bridge's side of a notify *)

\* handle_new_prev_hash_ and handle_new_extended_mining_job_ broadcast the notify and
\* then store it.  A receiver that lags loses its oldest message.
Broadcast ==
    /\ sentJob < MaxJob
    /\ lastNotify = sentJob
    /\ sentJob' = sentJob + 1
    /\ feed' = CASE phase \in {"away", "opened", "closed"} -> feed
                 [] Len(feed) = Buffer -> Append(Tail(feed), sentJob + 1)
                 [] OTHER -> Append(feed, sentJob + 1)
    /\ UNCHANGED <<lastNotify, phase, configures, authorized, submits, behind, notifier,
                   update, jobVars, minerVars, retargetVars>>

StoreNotify ==
    /\ lastNotify # sentJob
    /\ lastNotify' = sentJob
    /\ UNCHANGED <<sentJob, phase, feed, configures, authorized, submits, behind,
                   notifier, update, jobVars, minerVars, retargetVars>>

-----------------------------------------------------------------------------
(* The connection *)

\* on_new_sv1_connection opens a channel and hands out last_notify.
OnNewSv1Connection == firstJob' = [id |-> lastNotify, job |-> lastNotify]

\* start_accept_connection, once the bridge is ready.
Open ==
    /\ phase = "away"
    /\ lastNotify # 0
    /\ phase' = "opened"
    /\ OnNewSv1Connection
    /\ UNCHANGED <<bridgeVars, feed, configures, authorized, submits, behind, notifier,
                   update, recent, issues, redrawn, renamed, minerVars, retargetVars>>

\* The spawned task waits for a slot, subscribes to the broadcast and starts the
\* receiving and the sending task.
NewDownstream ==
    /\ phase = "opened"
    /\ phase' = "running"
    /\ behind' = IF firstJob.job = sentJob THEN behind ELSE behind \cup {"opened"}
    /\ UNCHANGED <<bridgeVars, feed, configures, authorized, submits, notifier, update,
                   jobVars, minerVars, retargetVars>>

\* The relay of the connection is gone: start_receive_downstream leaves its loop and
\* marks the Downstream closed.  What the miner was told is gone with it.
Disconnect ==
    /\ phase = "running"
    /\ phase' = "closing"
    /\ told' = <<>>
    /\ minerJob' = 0
    /\ minerDiff' = 0
    /\ UNCHANGED <<bridgeVars, feed, configures, authorized, submits, behind, notifier,
                   update, jobVars, down, retargetVars>>

\* The kill signal aborts the tasks of the connection that the task manager knows; the
\* rate-limit task was spawned without it.
Kill ==
    /\ phase = "closing"
    /\ phase' = "closed"
    /\ feed' = <<>>
    /\ notifier' = [pc |-> "ended", held |-> NoHeld]
    /\ update' = [update EXCEPT !["update"] = NoUpdate("off")]
    /\ UNCHANGED <<bridgeVars, configures, authorized, submits, behind, jobVars,
                   minerVars, retargetVars>>

\* handle_configure: first_job is issued and keeps the id it was issued under.
Configure ==
    /\ phase = "running"
    /\ configures < MaxConfigures
    /\ configures' = configures + 1
    /\ renamed' = IF firstJob.id = firstJob.job THEN renamed
                                                ELSE renamed \cup {firstJob.job}
    /\ \E v1 \in FreshV1s :
          /\ Draw(v1)
          /\ recent' = AddJob(recent, v1, firstJob, diff)
          /\ firstJob' = [firstJob EXCEPT !.id = v1]
    /\ UNCHANGED <<bridgeVars, phase, feed, authorized, submits, behind, notifier,
                   update, minerVars, retargetVars>>

\* handle_authorize: a second request is refused.
Authorize ==
    /\ phase = "running"
    /\ ~authorized
    /\ authorized' = TRUE
    /\ UNCHANGED <<bridgeVars, phase, feed, configures, submits, behind, notifier,
                   update, jobVars, minerVars, retargetVars>>

\* validate_share: the hash, of this quality, is measured by the difficulty the job
\* was issued with.
ValidateShare(v1, quality) == quality >= recent.issued[v1].diff

\* handle_submit_request: a share of the job known as v1 is unknown, below its
\* difficulty, or accepted.
Verdict(v1, quality) ==
    CASE v1 \notin DOMAIN recent.issued   -> "unknown"
      [] ~ValidateShare(v1, quality)      -> "invalid"
      [] OTHER                            -> "accepted"

\* A mining.submit for a job the miner was sent.  handle_incoming_sv1 refuses version
\* bits exactly when no mask is configured.  A share that is accepted is forwarded to
\* the bridge and counted (save_share); any other one is answered with false.
Submit(v1, quality, bits) ==
    /\ phase = "running"
    /\ submits' = \/ submits
                  \/ /\ authorized
                     /\ bits = (configures > 0)
                     /\ Verdict(v1, quality) = "accepted"
    /\ UNCHANGED <<bridgeVars, phase, feed, configures, authorized, behind, notifier,
                   update, jobVars, minerVars, retargetVars>>

-----------------------------------------------------------------------------
(* The notifier *)

\* The bootstrap task: start_notify, unless the Downstream is closed already.
Bootstrap ==
    /\ phase = "running"
    /\ notifier.pc = "none"
    /\ notifier' = [notifier EXCEPT !.pc = "auth"]
    /\ UNCHANGED <<bridgeVars, phase, feed, configures, authorized, submits, behind,
                   update, jobVars, minerVars, retargetVars>>

\* Mutant of Seed: a job that is already there is not sent again.
SeedOnce ==
    /\ notifier.pc = "auth"
    /\ authorized
    /\ recent.jobs = <<>>
    /\ \E v1 \in FreshV1s :
          /\ Draw(v1)
          /\ recent' = AddJob(recent, v1, firstJob, diff)
          /\ notifier' = [pc |-> "seeded", held |-> Held(v1, firstJob.job, Calm)]
    /\ UNCHANGED <<bridgeVars, phase, feed, configures, authorized, submits, behind,
                   firstJob, renamed, update, minerVars, retargetVars>>

\* The initialization loop sees the miner authorized: current_or_initial_job.
Seed ==
    /\ notifier.pc = "auth"
    /\ authorized
    /\ \E v1 \in FreshV1s :
          LET job == IF recent.jobs = <<>> THEN firstJob ELSE LastJob(recent)
          IN  /\ Draw(v1)
              /\ recent' = IF recent.jobs = <<>> THEN AddJob(recent, v1, firstJob, diff)
                                                 ELSE CloneLast(recent, v1, diff)
              /\ notifier' = [pc |-> "seeded", held |-> Held(v1, job.job, Calm)]
    /\ UNCHANGED <<bridgeVars, phase, feed, configures, authorized, submits, behind,
                   firstJob, renamed, update, minerVars, retargetVars>>

\* init_difficulty_management sends the difficulty and spawns the rate-limit task.
InitDifficulty ==
    /\ notifier.pc = "seeded"
    /\ SendDifficulty(diff)
    /\ notifier' = [notifier EXCEPT !.pc = "difficulty"]
    /\ update' = [update EXCEPT !["limit"].pc = "idle"]
    /\ UNCHANGED <<bridgeVars, phase, feed, configures, authorized, submits, behind,
                   jobVars, retargetVars>>

\* The job follows, then start_update.
SendSeed ==
    /\ notifier.pc = "difficulty"
    /\ SendJob(notifier.held)
    /\ notifier' = [pc |-> "listening", held |-> NoHeld]
    /\ update' = [update EXCEPT !["update"].pc = "idle"]
    /\ UNCHANGED <<bridgeVars, phase, feed, configures, authorized, submits, behind,
                   jobVars, retargetVars>>

\* SUBSCRIBE_TIMEOUT_SECS passed without a mining.authorize: the update task is started
\* and the notifier ends; the connection stays.
AuthTimeout ==
    /\ notifier.pc = "auth"
    /\ ~authorized
    /\ notifier' = [notifier EXCEPT !.pc = "over"]
    /\ update' = [update EXCEPT !["update"].pc = "idle"]
    /\ UNCHANGED <<bridgeVars, phase, feed, configures, authorized, submits, behind,
                   jobVars, minerVars, retargetVars>>

\* A notify of the bridge becomes first_job and is issued.
ReceiveNotify ==
    /\ notifier.pc = "listening"
    /\ feed # <<>>
    /\ feed' = Tail(feed)
    /\ firstJob' = [id |-> Head(feed), job |-> Head(feed)]
    /\ \E v1 \in FreshV1s :
          /\ Draw(v1)
          /\ recent' = AddJob(recent, v1, firstJob', diff)
          /\ notifier' = [pc |-> "sending", held |-> Held(v1, Head(feed), Calm)]
    /\ behind' = IF Reissued = {} THEN behind ELSE behind \cup {"overtaken"}
    /\ UNCHANGED <<bridgeVars, phase, configures, authorized, submits, renamed, update,
                   minerVars, retargetVars>>

SendNotify ==
    /\ notifier.pc = "sending"
    /\ SendJob(notifier.held)
    /\ behind' = IF Reissued = {} THEN {} ELSE behind \ {"opened"}
    /\ notifier' = [pc |-> "listening", held |-> NoHeld]
    /\ UNCHANGED <<bridgeVars, phase, feed, configures, authorized, submits, update,
                   jobVars, retargetVars>>

-----------------------------------------------------------------------------
(* Retargets: try_update_difficulty_settings in the update task and in             *)
(* check_share_rate_limit                                                          *)

\* update_difficulty_and_hashrate: the shares of the last minute ask for another power
\* of two.  Messages already issued are no longer calm.
Decide(x) ==
    /\ update[x].pc = "idle"
    /\ updates < MaxUpdates
    /\ updates' = updates + 1
    /\ \E d \in Diffs \ {diff} :
          /\ diff' = d
          /\ update' = [y \in Updaters |->
                IF y = x THEN [pc |-> "decided", diff |-> d, held |-> NoHeld]
                         ELSE [update[y] EXCEPT !.held = Crossed(@)]]
    /\ submits' = FALSE
    /\ overlap' = \E y \in Updaters \ {x} : Busy(y)
    /\ notifier' = [notifier EXCEPT !.held = Crossed(@)]
    /\ UNCHANGED <<bridgeVars, bridgeDiff, phase, feed, configures, authorized, behind,
                   jobVars, minerVars>>

\* update_diff_setting, 1: the new difficulty.
Announce(x) ==
    /\ update[x].pc = "decided"
    /\ SendDifficulty(update[x].diff)
    /\ update' = [update EXCEPT ![x].pc = "announced"]
    /\ UNCHANGED <<bridgeVars, phase, feed, configures, authorized, submits, behind,
                   notifier, jobVars, retargetVars>>

\* 2: the last job is issued once more, under the new difficulty, and sent.
Reissue(x) ==
    /\ update[x].pc = "announced"
    /\ recent.jobs # <<>>
    /\ \E v1 \in FreshV1s :
          /\ Draw(v1)
          /\ recent' = CloneLast(recent, v1, update[x].diff)
          /\ update' = [update EXCEPT ![x] =
                [@ EXCEPT !.pc = "reissued", !.held = Held(v1, LastJob(recent).job, ~overlap)]]
    /\ UNCHANGED <<bridgeVars, phase, feed, configures, authorized, submits, behind,
                   firstJob, renamed, notifier, minerVars, retargetVars>>

\* Mutant of SetTarget: the bridge is not told.
SetTargetSkipped(x) ==
    /\ update' = [update EXCEPT ![x] = NoUpdate("idle")]
    /\ UNCHANGED <<bridgeDiff, diff, updates, overlap>>

\* 3: SetDownstreamTarget, applied by handle_update_downstream_target.  Nothing of this
\* module reads the bridge's target before the retarget is over, so this is no step of
\* its own.
SetTarget(x) ==
    /\ bridgeDiff' = update[x].diff
    /\ update' = [update EXCEPT ![x] = NoUpdate("idle")]
    /\ UNCHANGED <<diff, updates, overlap>>

Resend(x) ==
    /\ update[x].pc = "reissued"
    /\ SendJob(update[x].held)
    /\ SetTarget(x)
    /\ UNCHANGED <<bridgeVars, phase, feed, configures, authorized, submits, behind,
                   notifier, jobVars>>

SkipReissue(x) ==
    /\ update[x].pc = "announced"
    /\ recent.jobs = <<>>
    /\ SetTarget(x)
    /\ UNCHANGED <<bridgeVars, phase, feed, configures, authorized, submits, behind,
                   notifier, jobVars, minerVars>>

-----------------------------------------------------------------------------
Notifier == Seed \/ InitDifficulty \/ SendSeed \/ ReceiveNotify \/ SendNotify
Retarget(x) == Announce(x) \/ Reissue(x) \/ SkipReissue(x) \/ Resend(x)

Next ==
    \/ Broadcast \/ StoreNotify
    \/ Open \/ NewDownstream \/ Disconnect \/ Kill
    \/ Configure \/ Authorize
    \/ \E v1 \in DOMAIN told, quality \in Diffs, bits \in BOOLEAN :
          Submit(v1, quality, bits)
    \/ Bootstrap \/ AuthTimeout \/ Notifier
    \/ \E x \in Updaters : Decide(x) \/ Retarget(x)

Spec == Init /\ [][Next]_vars

\* tokio runs the notifier's task whenever it can run.  Nothing is asked of the miner, the
\* bridge or the retargets.
FairSpec ==
    /\ Spec
    /\ WF_vars(Bootstrap)
    /\ WF_vars(Notifier)

-----------------------------------------------------------------------------
(* Properties *)

\* A share never resolves to another job than the one the miner hashed, whatever was
\* evicted and issued since (MERGE_MINING.md relies on it for the binding), unless the
\* job was evicted and new_v1 has drawn its id again; and it is forwarded under the
\* pool's id of that job, unless mining.configure was handled twice while that job was
\* first_job (handle_configure).
ResolvesToItsJob ==
    \A v1 \in DOMAIN told \cap DOMAIN recent.issued :
        <<v1, told[v1].job>> \notin redrawn =>
            /\ recent.issued[v1].job = told[v1].job
            /\ told[v1].job \notin renamed => recent.issued[v1].v2 = told[v1].job

\* A share that meets the difficulty its job was announced with is accepted as long as
\* fewer than Tracked newer jobs were received (TRACKED_RECENT_JOBS), unless a retarget
\* crossed the message of the job or a job was configured twice and tracked as two.  An
\* id drawn again does not matter here: only the ids of older jobs can be.
HonestSharesAccepted ==
    renamed = {} =>
        \A v1 \in DOMAIN told :
            (told[v1].calm /\ firstJob.job - told[v1].job < Tracked) =>
                Verdict(v1, told[v1].diff) = "accepted"

\* The connection has nothing left to do.
Quiet ==
    /\ phase = "running"
    /\ lastNotify = sentJob
    /\ feed = <<>>
    /\ notifier.pc = "listening"
    /\ \A x \in Updaters : ~Busy(x)

\* When the connection is quiet, the miner works on the newest job of the bridge.
MinerIsCurrent == Quiet => told[minerJob].job = sentJob

\* The same, except for a miner whose channel was opened with an older last_notify, or
\* who got an older job from a retarget that a notify overtook.
MinerIsCurrentUnlessRaced == behind = {} => MinerIsCurrent

\* When the connection is quiet, the miner, the Downstream, the bridge and the job the
\* miner works on have one difficulty (update_diff_setting), unless two retargets
\* overlapped or the job's message was crossed by one.
DifficultiesAgree ==
    Quiet /\ ~overlap =>
        /\ minerDiff = diff
        /\ bridgeDiff = diff
        /\ (told[minerJob].calm /\ minerJob \in DOMAIN recent.issued) =>
              recent.issued[minerJob].diff = diff

\* An authorized miner gets a job (start_notify), unless it leaves or authorized only
\* after SUBSCRIBE_TIMEOUT_SECS.
AuthorizedIsServed ==
    (authorized /\ phase = "running")
        ~> (minerJob # 0 \/ phase # "running" \/ notifier.pc = "over")

=============================================================================
