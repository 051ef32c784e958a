----------------------------- MODULE ShareAccounter -----------------------------
(***************************************************************************)
(* The share accounter (src/src/share_accounter/mod.rs): the two tasks     *)
(* between the miner's side and the pool's connection.  relay_up records   *)
(* every share it sends in shares_sent_up, a map from the job to the       *)
(* channel and the sequence number; relay_down turns the pool's ShareOk,   *)
(* which names only the job, back into a SubmitSharesSuccess with the      *)
(* recorded sequence number.                                               *)
(*                                                                         *)
(* A share is known by its sequence number, its position in jobOf.  The    *)
(* pool is external: it answers every share once, in any order, and may    *)
(* send other messages.  Nothing in the code keeps the miners from having  *)
(* several shares of one job on their way: burst remembers such jobs.      *)
(***************************************************************************)
EXTENDS Integers, Sequences, SequencesExt, FiniteSets

CONSTANTS
    Jobs,       \* job ids
    MaxShares,  \* bound on the shares submitted
    MaxExtra    \* bound on the pool's other messages

ASSUME AccounterAssumption ==
    /\ Jobs # {}
    /\ MaxShares \in Nat \ {0}
    /\ MaxExtra \in Nat

VARIABLES
    jobOf,     \* the job of every share submitted so far
    receiver,  \* Receiver<Mining> of relay_up: sequence numbers
    holding,   \* the share relay_up is sending, 0 for none
    atPool,    \* shares sent up and not answered
    answers,   \* up_receiver of relay_down
    sentUp,    \* shares_sent_up: 0 where the map has no entry
    up,        \* the task of relay_up
    down,      \* the task of relay_down, or why it returned
    acking,    \* the sequence number relay_down is sending, 0 for none
    extra,     \* messages of the pool that answer no share
    accepted,  \* shares the pool accepted (history)
    acks,      \* sequence numbers of the SubmitSharesSuccess sent (history)
    refusals,  \* shares whose SubmitSharesError was relayed (history)
    burst      \* jobs that had two shares on their way at a time (history)

poolVars == <<atPool, extra, accepted>>
upVars == <<jobOf, receiver, holding, up, burst>>
downVars == <<down, acking, acks, refusals>>
accounterVars == <<upVars, poolVars, answers, sentUp, downVars>>

Shares == 1 .. Len(jobOf)

\* Shares of a job that the miners still wait for.
Unanswered(job) ==
    {n \in Shares : /\ jobOf[n] = job
                    /\ n \notin Range(acks) \cup refusals}

Init ==
    /\ jobOf = <<>>
    /\ receiver = <<>>
    /\ holding = 0
    /\ atPool = {}
    /\ answers = <<>>
    /\ sentUp = [job \in Jobs |-> 0]
    /\ up = "relaying"
    /\ down = "relaying"
    /\ acking = 0
    /\ extra = 0
    /\ accepted = {}
    /\ acks = <<>>
    /\ refusals = {}
    /\ burst = {}

-----------------------------------------------------------------------------
(* External: the miner's side and the pool *)

SubmitShare(job) ==
    /\ Len(jobOf) < MaxShares
    /\ jobOf' = Append(jobOf, job)
    /\ receiver' = Append(receiver, Len(jobOf) + 1)
    /\ burst' = IF Unanswered(job) = {} THEN burst ELSE burst \cup {job}
    /\ UNCHANGED <<holding, up, poolVars, answers, sentUp, downVars>>

PoolAnswers(n) ==
    /\ n \in atPool
    /\ atPool' = atPool \ {n}
    /\ \/ /\ answers' = Append(answers, [kind |-> "ok", share |-> n])
          /\ accepted' = accepted \cup {n}
       \/ /\ answers' = Append(answers, [kind |-> "error", share |-> n])
          /\ UNCHANGED accepted
    /\ UNCHANGED <<extra, upVars, sentUp, downVars>>

PoolSends(kind) ==
    /\ extra < MaxExtra
    /\ extra' = extra + 1
    /\ answers' = Append(answers, [kind |-> kind])
    /\ UNCHANGED <<atPool, accepted, upVars, sentUp, downVars>>

-----------------------------------------------------------------------------
(* relay_up *)

\* Mutant of Record: the share is sent up without an entry in the map.
RecordNothing ==
    /\ up = "relaying" /\ holding = 0 /\ receiver # <<>>
    /\ holding' = Head(receiver)
    /\ receiver' = Tail(receiver)
    /\ UNCHANGED <<jobOf, up, burst, poolVars, answers, sentUp, downVars>>

\* shares_sent_up.insert: an earlier share of the job is forgotten.
Record ==
    /\ up = "relaying" /\ holding = 0 /\ receiver # <<>>
    /\ holding' = Head(receiver)
    /\ receiver' = Tail(receiver)
    /\ sentUp' = [sentUp EXCEPT ![jobOf[Head(receiver)]] = Head(receiver)]
    /\ UNCHANGED <<jobOf, up, burst, poolVars, answers, downVars>>

SendUp ==
    /\ up = "relaying" /\ holding # 0
    /\ holding' = 0
    /\ atPool' = atPool \cup {holding}
    /\ UNCHANGED <<jobOf, receiver, up, burst, extra, accepted, answers, sentUp, downVars>>

\* The connection to the pool is gone: the task ends, its entry stays.
SendUpFails ==
    /\ up = "relaying" /\ holding # 0
    /\ holding' = 0
    /\ up' = "ended"
    /\ UNCHANGED <<jobOf, receiver, burst, poolVars, answers, sentUp, downVars>>

-----------------------------------------------------------------------------
(* relay_down *)

Relaying(kind) ==
    /\ down = "relaying" /\ acking = 0
    /\ answers # <<>> /\ Head(answers).kind = kind
    /\ answers' = Tail(answers)

\* The ShareOk of a job takes the entry of the job; without one the pool is
\* marked as down and the task returns.
OnShareOk ==
    /\ Relaying("ok")
    /\ LET job == jobOf[Head(answers).share]
       IN  IF sentUp[job] = 0
           THEN down' = "invalid" /\ UNCHANGED <<sentUp, acking>>
           ELSE /\ sentUp' = [sentUp EXCEPT ![job] = 0]
                /\ acking' = sentUp[job]
                /\ UNCHANGED down
    /\ UNCHANGED <<upVars, poolVars, acks, refusals>>

SendSuccess ==
    /\ down = "relaying" /\ acking # 0
    /\ acks' = Append(acks, acking)
    /\ acking' = 0
    /\ UNCHANGED <<upVars, poolVars, answers, sentUp, down, refusals>>

\* Every other mining message, SubmitSharesError too, is relayed as it is.
OnError ==
    /\ Relaying("error")
    /\ refusals' = refusals \cup {Head(answers).share}
    /\ UNCHANGED <<upVars, poolVars, sentUp, down, acking, acks>>

OnMining ==
    /\ Relaying("mining")
    /\ UNCHANGED <<upVars, poolVars, sentUp, downVars>>

\* "Pool send unexpected message on mining connection"
OnUnexpected ==
    /\ Relaying("unexpected")
    /\ down' = "unexpected"
    /\ UNCHANGED <<upVars, poolVars, sentUp, acking, acks, refusals>>

\* The miner's side is gone: ShareAccounterState::Down.
SendDownFails ==
    /\ down = "relaying"
    /\ \/ acking # 0 /\ UNCHANGED answers
       \/ Relaying("error") \/ Relaying("mining")
    /\ acking' = 0
    /\ down' = "closed"
    /\ UNCHANGED <<upVars, poolVars, sentUp, acks, refusals>>

RelayUp == Record \/ SendUp \/ SendUpFails
RelayDown ==
    \/ OnShareOk \/ SendSuccess \/ OnError \/ OnMining \/ OnUnexpected \/ SendDownFails

Next ==
    \/ \E job \in Jobs : SubmitShare(job)
    \/ \E n \in atPool : PoolAnswers(n)
    \/ \E kind \in {"mining", "unexpected"} : PoolSends(kind)
    \/ RelayUp \/ RelayDown

Spec == Init /\ [][Next]_accounterVars

-----------------------------------------------------------------------------
(* Properties *)

\* relay_down says "Pool sent invalid share success" of the pool only if the pool
\* answered a share it was not sent, which the pool here never does: the entry is
\* there before the share is sent, and a refused share's does no harm.  Only where
\* a job had two shares on their way is an honest pool blamed.
PoolNotBlamedUnlessBurst == burst = {} => down # "invalid"

=============================================================================
