----------------------------- MODULE JobDeclarator -----------------------------
(***************************************************************************)
(* The declaration of published jobs to the pool: JobDeclarator            *)
(* (src/src/jd_client/job_declarator/mod.rs) and the custom-job half of    *)
(* Upstream (src/src/jd_client/mining_upstream/upstream.rs).               *)
(*                                                                         *)
(* Four kinds of tasks meet here:                                          *)
(*   - one task per published template (on_new_template), spawned by the   *)
(*     template task and owned by nobody, so that it outlives a restart;   *)
(*   - the task that reads the pool's answers (on_upstream_message);       *)
(*   - one task per SetNewPrevHash (on_set_new_prev_hash), which spins     *)
(*     until the future job it activates has been declared;                *)
(*   - the upstream task, which handles the answers to custom jobs.        *)
(* They share the JobDeclarator behind its mutex, the Upstream behind its  *)
(* own, and the flag IS_CUSTOM_JOB_SET, which a declaration must find up   *)
(* and takes down.  Loading the flag and storing it are two steps.         *)
(*                                                                         *)
(* A template is its number and stands for its job, its declaration and    *)
(* the declaration's request id: it is declared at most once.  The pool is *)
(* external and may answer in any order.  Tokens are not modelled here.    *)
(***************************************************************************)
EXTENDS Integers, Sequences, FiniteSets, Functions, SequencesExt

CONSTANTS
    MaxTemplate,   \* bound on the templates published
    MaxTip,        \* bound on the blocks found
    MaxDeclared,   \* the limit of last_declare_mining_jobs_sent (1000)
    MaxPoolJobs    \* the capacity of downstream_to_pool_job_id (1000)

ASSUME DeclaratorAssumption ==
    /\ MaxTemplate \in Nat /\ MaxTip \in Nat
    /\ MaxDeclared \in Nat \ {0} /\ MaxPoolJobs \in Nat \ {0}

VARIABLES
    template,      \* the templates issued: whether future, on which tip
    handedOver,    \* templates on_new_template has been called for
    announced,     \* the last SetNewPrevHash handed over
    customJobSet,  \* IS_CUSTOM_JOB_SET
    waiting,       \* on_new_template tasks that wait for the flag
    passed,        \* on_new_template tasks that found it up
    orphans,       \* the ones among them that an earlier session spawned
    lost,          \* an orphan took the flag down
    declared,      \* last_declare_mining_jobs_sent, in order of request
    poolDeclares,  \* DeclareMiningJob the pool has not answered
    futureJobs,    \* future_jobs
    lastPrevHash,  \* last_set_new_prev_hash
    counter,       \* set_new_prev_hash_counter
    spawned,       \* on_set_new_prev_hash tasks that have not run yet
    looping,       \* on_set_new_prev_hash tasks in their loop
    main,          \* the task that reads the pool's answers
    calls,         \* set_custom_jobs calls that wait for the send lock
    nextRequest,   \* req_ids of the Upstream
    requests,      \* requests: custom jobs the pool has not answered
    poolJobs,      \* downstream_to_pool_job_id, oldest first
    down           \* a component asked for a restart of the proxy

gateVars == <<customJobSet, lost>>
taskVars == <<waiting, passed, orphans>>
declareVars == <<declared, poolDeclares, futureJobs>>
prevHashVars == <<lastPrevHash, counter, spawned, looping>>
customVars == <<calls, nextRequest, requests, poolJobs>>
declaratorVars == <<template, handedOver, announced, customJobSet, waiting, passed,
                    orphans, lost, declared, poolDeclares, futureJobs, lastPrevHash,
                    counter, spawned, looping, main, calls, nextRequest, requests,
                    poolJobs, down>>

None == 0
Templates == 1 .. Len(template)
Call == [t : Templates, on : Templates, by : {"main", "task"}]

Init ==
    /\ template = << >>
    /\ handedOver = {}
    /\ announced = None
    /\ customJobSet = TRUE
    /\ waiting = {} /\ passed = {} /\ orphans = {}
    /\ lost = FALSE
    /\ declared = << >>
    /\ poolDeclares = {}
    /\ futureJobs = {}
    /\ lastPrevHash = None
    /\ counter = 0
    /\ spawned = {} /\ looping = {}
    /\ main = "receive"
    /\ calls = {}
    /\ nextRequest = 1
    /\ requests = << >>
    /\ poolJobs = << >>
    /\ down = FALSE

-----------------------------------------------------------------------------
(* on_new_template *)

\* The template task spawns on_new_template for a template it published.
OnNewTemplate(t) ==
    /\ t \in Templates \ handedOver
    /\ handedOver' = handedOver \cup {t}
    /\ waiting' = waiting \cup {t}
    /\ UNCHANGED <<template, announced, gateVars, passed, orphans, declareVars,
                   prevHashVars, main, customVars, down>>

PassGate(t) ==
    /\ t \in waiting
    /\ customJobSet
    /\ waiting' = waiting \ {t}
    /\ passed' = passed \cup {t}
    /\ UNCHANGED <<template, handedOver, announced, gateVars, orphans, declareVars,
                   prevHashVars, main, customVars, down>>

\* Mutant of GateTimeout: the timeout is only logged.
GateTimeoutLogged(t) ==
    /\ t \in waiting
    /\ ~customJobSet
    /\ UNCHANGED declaratorVars

\* "Failed to set custom job after 2 minutes"
GateTimeout(t) ==
    /\ t \in waiting
    /\ ~customJobSet
    /\ waiting' = waiting \ {t}
    /\ orphans' = orphans \ {t}
    /\ down' = TRUE
    /\ UNCHANGED <<template, handedOver, announced, gateVars, passed, declareVars,
                   prevHashVars, main, customVars>>

\* update_last_declare_job_sent: at the limit the oldest request goes.
Record(t) ==
    Append(IF Len(declared) < MaxDeclared THEN declared ELSE Tail(declared), t)

Declare(t) ==
    /\ t \in passed \ orphans
    /\ passed' = passed \ {t}
    /\ customJobSet' = FALSE
    /\ declared' = Record(t)
    /\ poolDeclares' = poolDeclares \cup {t}
    /\ UNCHANGED <<template, handedOver, announced, lost, waiting, orphans, futureJobs,
                   prevHashVars, main, customVars, down>>

\* A transaction that does not deserialize, after the flag went down, or a
\* connection that is gone, after the request was recorded.
DeclareFails(t) ==
    /\ t \in passed
    /\ passed' = passed \ {t}
    /\ orphans' = orphans \ {t}
    /\ customJobSet' = FALSE
    /\ declared' \in {declared, IF t \in orphans THEN declared ELSE Record(t)}
    /\ down' = TRUE
    /\ UNCHANGED <<template, handedOver, announced, lost, waiting, poolDeclares,
                   futureJobs, prevHashVars, main, customVars>>

\* A task of an earlier session takes this session's flag down and declares to
\* the old connection, where nobody reads the answer.
OrphanDeclares(t) ==
    /\ t \in passed \cap orphans
    /\ passed' = passed \ {t}
    /\ orphans' = orphans \ {t}
    /\ customJobSet' = FALSE
    /\ lost' = TRUE
    /\ UNCHANGED <<template, handedOver, announced, waiting, declareVars, prevHashVars,
                   main, customVars, down>>

-----------------------------------------------------------------------------
(* on_upstream_message *)

Answered(t) ==
    /\ main = "receive"
    /\ t \in poolDeclares
    /\ poolDeclares' = poolDeclares \ {t}
    /\ declared' = RemoveFirst(declared, t)

\* A declared future job waits for its SetNewPrevHash.
DeclareSuccessFuture(t) ==
    /\ Answered(t)
    /\ t \in Range(declared)
    /\ template[t].future
    /\ futureJobs' = futureJobs \cup {t}
    /\ UNCHANGED <<template, handedOver, announced, gateVars, taskVars, prevHashVars,
                   main, customVars, down>>

\* Any other becomes a custom job under the last SetNewPrevHash; with none the
\* task panics and nobody reads the pool's answers any more.
DeclareSuccess(t) ==
    /\ Answered(t)
    /\ t \in Range(declared)
    /\ ~template[t].future
    /\ IF lastPrevHash # None
       THEN /\ calls' = calls \cup {[t |-> t, on |-> lastPrevHash, by |-> "main"]}
            /\ main' = "calling"
       ELSE /\ calls' = calls
            /\ main' = "panicked"
    /\ UNCHANGED <<template, handedOver, announced, gateVars, taskVars, futureJobs,
                   prevHashVars, nextRequest, requests, poolJobs, down>>

\* Mutant of DeclareError: the refused declaration keeps the flag down.
DeclareErrorKeepingFlag(t) ==
    /\ Answered(t)
    /\ t \in Range(declared)
    /\ UNCHANGED <<template, handedOver, announced, gateVars, taskVars, futureJobs,
                   prevHashVars, main, customVars, down>>

DeclareError(t) ==
    /\ Answered(t)
    /\ t \in Range(declared)
    /\ customJobSet' = TRUE
    /\ UNCHANGED <<template, handedOver, announced, lost, taskVars, futureJobs,
                   prevHashVars, main, customVars, down>>

\* "ignoring unknown or late mining-job declaration success"
DeclareUnknown(t) ==
    /\ Answered(t)
    /\ t \notin Range(declared)
    /\ UNCHANGED <<template, handedOver, announced, gateVars, taskVars, futureJobs,
                   prevHashVars, main, customVars, down>>

-----------------------------------------------------------------------------
(* on_set_new_prev_hash *)

OnSetNewPrevHash(t) ==
    /\ t \in Templates
    /\ template[t].future
    /\ t > announced
    /\ announced' = t
    /\ spawned' = spawned \cup {t}
    /\ UNCHANGED <<template, handedOver, gateVars, taskVars, declareVars, lastPrevHash,
                   counter, looping, main, customVars, down>>

StartPrevHash(t) ==
    /\ t \in spawned
    /\ spawned' = spawned \ {t}
    /\ looping' = looping \cup {t}
    /\ lastPrevHash' = t
    /\ counter' = counter + 1
    /\ UNCHANGED <<template, handedOver, announced, gateVars, taskVars, declareVars,
                   main, customVars, down>>

Superseded(t) == counter > 1 /\ lastPrevHash # t

\* Mutant of LeavePrevHash: the task that gives up is still counted.
LeaveCounted(t) ==
    /\ t \in looping
    /\ Superseded(t)
    /\ looping' = looping \ {t}
    /\ UNCHANGED <<template, handedOver, announced, gateVars, taskVars, declareVars,
                   lastPrevHash, counter, spawned, main, customVars, down>>

LeavePrevHash(t) ==
    /\ t \in looping
    /\ Superseded(t)
    /\ looping' = looping \ {t}
    /\ counter' = counter - 1
    /\ UNCHANGED <<template, handedOver, announced, gateVars, taskVars, declareVars,
                   lastPrevHash, spawned, main, customVars, down>>

\* Mutant of ActivateFutureJob: the last prev hash activates whatever is there.
ActivateAnyFutureJob(t) ==
    /\ t \in looping
    /\ ~Superseded(t)
    /\ futureJobs # {}
    /\ futureJobs' = {}
    /\ looping' = looping \ {t}
    /\ counter' = counter - 1
    /\ \E u \in futureJobs : calls' = calls \cup {[t |-> u, on |-> t, by |-> "task"]}
    /\ UNCHANGED <<template, handedOver, announced, gateVars, taskVars, declared,
                   poolDeclares, lastPrevHash, spawned, main, nextRequest, requests,
                   poolJobs, down>>

\* The task takes its own future job; the others are dropped.
ActivateFutureJob(t) ==
    /\ t \in looping
    /\ ~Superseded(t)
    /\ t \in futureJobs
    /\ futureJobs' = {}
    /\ looping' = looping \ {t}
    /\ counter' = counter - 1
    /\ calls' = calls \cup {[t |-> t, on |-> t, by |-> "task"]}
    /\ UNCHANGED <<template, handedOver, announced, gateVars, taskVars, declared,
                   poolDeclares, lastPrevHash, spawned, main, nextRequest, requests,
                   poolJobs, down>>

-----------------------------------------------------------------------------
(* Upstream::set_custom_jobs and the answers to it *)

Returned(c) == IF c.by = "main" THEN "receive" ELSE main

SetCustomJobs(c) ==
    /\ c \in calls
    /\ calls' = calls \ {c}
    /\ requests' = [r \in DOMAIN requests \cup {nextRequest} |->
                        IF r = nextRequest THEN c ELSE requests[r]]
    /\ nextRequest' = nextRequest + 1
    /\ main' = Returned(c)
    /\ UNCHANGED <<template, handedOver, announced, gateVars, taskVars, declareVars,
                   prevHashVars, poolJobs, down>>

\* The send fails: the flag is freed; the reader of the pool's answers gives up,
\* a SetNewPrevHash task only logs.
SetCustomJobsFails(c) ==
    /\ c \in calls
    /\ calls' = calls \ {c}
    /\ nextRequest' = nextRequest + 1
    /\ customJobSet' = TRUE
    /\ main' = IF c.by = "main" THEN "stopped" ELSE main
    /\ down' = (down \/ c.by = "main")
    /\ UNCHANGED <<template, handedOver, announced, lost, taskVars, declareVars,
                   prevHashVars, requests, poolJobs>>

\* CircularBuffer::insert
Insert(t) ==
    LET kept == RemoveFirst(poolJobs, t)
    IN  Append(IF Len(kept) = MaxPoolJobs THEN Tail(kept) ELSE kept, t)

\* Mutant of CustomJobSuccess: the answered request is not taken.
CustomJobSuccessKeepingRequest(r) ==
    /\ r \in DOMAIN requests
    /\ poolJobs' = Insert(requests[r].t)
    /\ customJobSet' = TRUE
    /\ UNCHANGED <<template, handedOver, announced, lost, taskVars, declareVars,
                   prevHashVars, main, calls, nextRequest, requests, down>>

CustomJobSuccess(r) ==
    /\ r \in DOMAIN requests
    /\ requests' = Restrict(requests, DOMAIN requests \ {r})
    /\ poolJobs' = Insert(requests[r].t)
    /\ customJobSet' = TRUE
    /\ UNCHANGED <<template, handedOver, announced, lost, taskVars, declareVars,
                   prevHashVars, main, calls, nextRequest, down>>

CustomJobError(r) ==
    /\ r \in DOMAIN requests
    /\ requests' = Restrict(requests, DOMAIN requests \ {r})
    /\ customJobSet' = TRUE
    /\ UNCHANGED <<template, handedOver, announced, lost, taskVars, declareVars,
                   prevHashVars, main, calls, nextRequest, poolJobs, down>>

-----------------------------------------------------------------------------
(* The rest of the client *)

\* discard_last_and_use_this of the template task.
FreeGate ==
    /\ customJobSet' = TRUE
    /\ UNCHANGED <<template, handedOver, announced, lost, taskVars, declareVars,
                   prevHashVars, main, customVars, down>>

\* Another component asks for a restart.
AskRestart ==
    /\ down' = TRUE
    /\ UNCHANGED <<template, handedOver, announced, gateVars, taskVars, declareVars,
                   prevHashVars, main, customVars>>

\* jd_client::start of the next session: a new JobDeclarator and Upstream, the
\* flag up.  The on_new_template tasks are not among the aborted ones.
Restart ==
    /\ customJobSet' = TRUE
    /\ orphans' = waiting \cup passed
    /\ lost' = FALSE
    /\ declared' = << >>
    /\ poolDeclares' = {}
    /\ futureJobs' = {}
    /\ lastPrevHash' = None
    /\ counter' = 0
    /\ spawned' = {} /\ looping' = {}
    /\ main' = "receive"
    /\ calls' = {}
    /\ nextRequest' = 1
    /\ requests' = << >>
    /\ poolJobs' = << >>
    /\ down' = FALSE
    /\ UNCHANGED <<template, handedOver, announced, waiting, passed>>

\* What the template task may do to this component: issue templates, future ones
\* on the next block and others on the block announced last.
NewTemplate ==
    /\ Len(template) < MaxTemplate
    /\ \E height \in 0 .. MaxTip, future \in BOOLEAN :
           /\ \A u \in Templates : template[u].tip <= height
           /\ template' = Append(template, [future |-> future, tip |-> height])
    /\ UNCHANGED <<handedOver, announced, gateVars, taskVars, declareVars, prevHashVars,
                   main, customVars, down>>

Client ==
    \/ NewTemplate
    \/ \E t \in Templates : OnNewTemplate(t) \/ OnSetNewPrevHash(t)
    \/ FreeGate
    \/ AskRestart
    \/ Restart

Declaration(t) ==
    \/ PassGate(t) \/ GateTimeout(t) \/ Declare(t) \/ DeclareFails(t)
    \/ OrphanDeclares(t)

PrevHashTask(t) == StartPrevHash(t) \/ LeavePrevHash(t) \/ ActivateFutureJob(t)

PoolAnswer ==
    \/ \E t \in Templates : \/ DeclareSuccessFuture(t) \/ DeclareSuccess(t)
                            \/ DeclareError(t) \/ DeclareUnknown(t)
    \/ \E r \in DOMAIN requests : CustomJobSuccess(r) \/ CustomJobError(r)

SendCustomJob == \E c \in calls : SetCustomJobs(c) \/ SetCustomJobsFails(c)

Next ==
    \/ Client
    \/ \E t \in Templates : Declaration(t) \/ PrevHashTask(t)
    \/ PoolAnswer
    \/ SendCustomJob

Spec == Init /\ [][Next]_declaratorVars

-----------------------------------------------------------------------------
(* Properties *)

TypeOK ==
    /\ template \in Seq([future : BOOLEAN, tip : Nat])
    /\ announced \in Templates \cup {None}
    /\ {customJobSet, lost, down} \subseteq BOOLEAN
    /\ handedOver \subseteq Templates
    /\ waiting \subseteq handedOver /\ passed \subseteq handedOver
    /\ orphans \subseteq waiting \cup passed
    /\ declared \in Seq(handedOver)
    /\ poolDeclares \subseteq handedOver /\ futureJobs \subseteq handedOver
    /\ lastPrevHash \in Templates \cup {None}
    /\ counter \in Nat
    /\ spawned \subseteq Templates /\ looping \subseteq Templates
    /\ main \in {"receive", "calling", "panicked", "stopped"}
    /\ calls \subseteq Call
    /\ nextRequest \in Nat \ {0}
    /\ DOMAIN requests \subseteq 1 .. (nextRequest - 1)
    /\ \A r \in DOMAIN requests : requests[r] \in Call
    /\ poolJobs \in Seq(handedOver)

\* Custom jobs on their way to the pool, sent or not.
CustomJobs == calls \cup Range(requests)

\* A future job becomes a custom job only under the SetNewPrevHash that names
\* its template, however the tasks of several prev hashes interleave.
FutureJobOnItsPrevHash ==
    \A c \in CustomJobs : template[c.t].future => c.on = c.t

\* set_new_prev_hash_counter counts the tasks in the loop, so "> 1" means that
\* another one is there, and the decrements cannot wrap.
CounterCountsTasks == counter = Cardinality(looping)

\* "one NewTemplate -> one miner-facing extended job -> one DeclareMiningJob ->
\* one SetCustomMiningJob -> one pool job mapping": a template is in one stage
\* of the declaration at a time and is never declared or set twice.
OneStage ==
    \A t \in Templates :
        Cardinality({i \in 1 .. Len(declared) : declared[i] = t})
        + Cardinality({S \in {<<"w", waiting>>, <<"p", passed>>, <<"f", futureJobs>>} :
                          t \in S[2]})
        + Cardinality({c \in calls : c.t = t})
        + Cardinality({r \in DOMAIN requests : requests[r].t = t})
        + Cardinality({i \in 1 .. Len(poolJobs) : poolJobs[i] = t}) <= 1

\* IS_CUSTOM_JOB_SET is down only while a declaration of this session is under
\* way that may put it up again, unless the session is on its way to a restart,
\* the reader of the pool's answers panicked or a task of an earlier session
\* took the flag down.
GateHasOwner ==
    \/ customJobSet
    \/ declared # << >> \/ futureJobs # {} \/ CustomJobs # {}
    \/ down \/ lost \/ main = "panicked"

=============================================================================
