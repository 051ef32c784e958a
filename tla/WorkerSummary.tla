----------------------------- MODULE WorkerSummary -----------------------------
(***************************************************************************)
(* The worker summary of src/src/monitor: which workers the proxy reports  *)
(* to the dashboard as connected.  A worker is a token and a name and may  *)
(* have several connections; connections register when they authorize or   *)
(* with a share, leave when their reader ends, and are forgotten without a *)
(* word when their session is dropped.  The dispatcher's task prunes,      *)
(* evicts and expires before each report.                                  *)
(*                                                                         *)
(* The state is a static and outlives the sessions, whose connection ids   *)
(* start anew.  An Instant is its age in ticks, capped where no comparison *)
(* tells ages apart.  Difficulties are positive; hashrates, totals and the *)
(* HTTP request, whose failure is only logged, are left out.               *)
(***************************************************************************)
EXTENDS Integers, FiniteSets, FiniteSetsExt, Functions

CONSTANTS
    Connections,  \* connection ids of a session
    Names,        \* worker names
    Blank,        \* the empty name
    Tokens,       \* pool tokens
    ConfigToken,  \* the token of the configuration
    Interval,     \* WORKER_SUMMARY_INTERVAL
    Window,       \* WORKER_HASHRATE_WINDOW
    Retention,    \* WORKER_SUMMARY_RETENTION
    Timeout       \* ZERO_HASHRATE_CONNECTED_TIMEOUT

ASSUME SummaryAssumption ==
    /\ Blank \in Names /\ ConfigToken \in Tokens
    /\ {Interval, Window, Retention, Timeout} \subseteq Nat \ {0}
    /\ Window <= Retention

VARIABLES
    open,         \* connections whose reader runs
    used,         \* connection ids given out in the session
    names,        \* authorized_names of each connection, one at most
    token,        \* the token the connections of the session share
    claim,        \* who may set the token: UPSTREAM_TOKEN_UPDATE_CLAIMED
    sessionKeys,  \* session_keys
    workers,      \* workers
    timer,        \* ticks since the interval last fired
    due,          \* it fired and the report is still to come
    quiet         \* ticks since a connection's last valid share for its worker (history)

connectionVars == <<open, used, names, token, claim>>
dispatcherVars == <<sessionKeys, workers>>
clockVars == <<timer, due>>
summaryVars == <<connectionVars, dispatcherVars, clockVars, quiet>>

NoAge == -1
LongAgo == Window + Timeout

Keys == [token : Tokens, name : Names]
Key(t, n) == [token |-> t, name |-> n]

\* timer is NoAge until the first call starts the dispatcher.
SummaryInit ==
    /\ open = {} /\ used = {}
    /\ names = [c \in Connections |-> {}]
    /\ token = ConfigToken /\ claim = {"free"}
    /\ sessionKeys = << >> /\ workers = << >>
    /\ timer = NoAge /\ due = FALSE
    /\ quiet = [c \in Connections |-> LongAgo]

-----------------------------------------------------------------------------
(* WorkerSummaryAccumulator *)

NewWorker == [count |-> 0, gone |-> NoAge, idle |-> NoAge, shares |-> {}]

MarkConnected(w) ==
    [w EXCEPT !.count = @ + 1,
              !.gone = NoAge,
              !.idle = IF w.shares = {} /\ @ = NoAge THEN 0 ELSE @]

MarkDisconnected(w) ==
    LET left == IF w.count = 0 THEN 0 ELSE w.count - 1
    IN [w EXCEPT !.count = left,
                 !.gone = IF left = 0 THEN 0 ELSE @,
                 !.idle = IF left = 0 THEN NoAge ELSE @]

\* Mutant of Prune: the time without hashrate is counted from the last share.
PruneFromShare(w) ==
    LET old == {age \in w.shares : age > Window}
        kept == w.shares \ old
    IN [w EXCEPT !.shares = kept,
                 !.idle = IF kept # {} THEN NoAge ELSE IF old # {} THEN Min(old) ELSE @]

\* prune_valid_shares: the window that is empty now has been so since its youngest
\* share was one window old.
Prune(w) ==
    LET old == {age \in w.shares : age > Window}
        kept == w.shares \ old
    IN [w EXCEPT !.shares = kept,
                 !.idle = IF kept # {} THEN NoAge
                          ELSE IF old # {} THEN Min(old) - Window ELSE @]

RecordValidShare(w) == [Prune(w) EXCEPT !.shares = @ \cup {0}, !.idle = NoAge]

ShouldEvict(w) == w.count = 0 /\ w.gone >= Retention

ShouldForceDisconnect(w) == w.count > 0 /\ w.shares = {} /\ w.idle >= Timeout

ForceDisconnected(w) == [w EXCEPT !.count = 0, !.gone = 0, !.idle = NoAge]

-----------------------------------------------------------------------------
(* WorkerSummaryDispatcherState *)

Registered(c) == c \in DOMAIN sessionKeys

\* insert into a map
Put(map, k, v) == [x \in DOMAIN map \cup {k} |-> IF x = k THEN v ELSE map[x]]

Entry(k) == IF k \in DOMAIN workers THEN workers[k] ELSE NewWorker

\* The worker the connection is registered to, if any, loses it.
Left(c) ==
    [k \in DOMAIN workers |->
        IF Registered(c) /\ k = sessionKeys[c] THEN MarkDisconnected(workers[k])
                                               ELSE workers[k]]

\* Mutant of Joined: the worker it was registered to keeps the connection.
JoinedTwice(c, k) == Put(workers, k, MarkConnected(Entry(k)))

\* The connection moves to a worker it is not registered to.
Joined(c, k) == Put(Left(c), k, MarkConnected(Entry(k)))

\* The first call of any operation spawns the dispatcher's task.
EnsureDispatcher ==
    /\ timer' = IF timer = NoAge THEN 0 ELSE timer
    /\ UNCHANGED due

\* worker_connected
WorkerConnected(c, k) ==
    /\ sessionKeys' = Put(sessionKeys, c, k)
    /\ workers' = IF Registered(c) /\ sessionKeys[c] = k THEN workers ELSE Joined(c, k)
    /\ EnsureDispatcher

\* worker_disconnected
WorkerDisconnected(c) ==
    /\ workers' = Left(c)
    /\ sessionKeys' = Restrict(sessionKeys, DOMAIN sessionKeys \ {c})
    /\ EnsureDispatcher

Stays(c, k) == Registered(c) /\ sessionKeys[c].token = k.token

\* record_share: a connection registered under the same token keeps its worker,
\* whatever name the share carries.
RecordShare(c, k, valid) ==
    LET key == IF Stays(c, k) THEN sessionKeys[c] ELSE k
        all == IF Stays(c, k) THEN workers ELSE Joined(c, k)
    IN /\ sessionKeys' = Put(sessionKeys, c, key)
       /\ workers' = [all EXCEPT ![key] = IF valid THEN RecordValidShare(@) ELSE @]
       /\ EnsureDispatcher

-----------------------------------------------------------------------------
(* The connections of a session *)

Accept(c) ==
    /\ c \notin used
    /\ used' = used \cup {c}
    /\ open' = open \cup {c}
    /\ claim' = IF claim = {"free"} THEN {c} ELSE claim
    /\ UNCHANGED <<names, token, dispatcherVars, clockVars, quiet>>

\* handle_authorize: the first connection of the process brings the token.
Authorize(c, n, t) ==
    /\ c \in open
    /\ names[c] = {}
    /\ t # token => claim = {c}
    /\ token' = t
    /\ names' = [names EXCEPT ![c] = {n}]
    /\ WorkerConnected(c, Key(t, n))
    /\ UNCHANGED <<open, used, claim, quiet>>

SubmitValid(c) ==
    /\ c \in open
    /\ \E n \in names[c] : RecordShare(c, Key(token, n), TRUE)
    /\ quiet' = [quiet EXCEPT ![c] = 0]
    /\ UNCHANGED connectionVars

\* A share that is rejected counts under the name it carries, also before the
\* connection has authorized.
SubmitInvalid(c, n) ==
    /\ c \in open
    /\ n \in names[c] \cup (Names \ {Blank})
    /\ RecordShare(c, Key(token, n), FALSE)
    /\ quiet' = IF Stays(c, Key(token, n)) THEN quiet ELSE [quiet EXCEPT ![c] = LongAgo]
    /\ UNCHANGED connectionVars

\* The end of the reader: the summary hears of it if there is a name.
Close(c) ==
    /\ c \in open
    /\ open' = open \ {c}
    /\ IF names[c] \subseteq {Blank} THEN UNCHANGED <<dispatcherVars, clockVars>>
                                     ELSE WorkerDisconnected(c)
    /\ names' = [names EXCEPT ![c] = {}]
    /\ quiet' = [quiet EXCEPT ![c] = LongAgo]
    /\ claim' = claim \ {c}
    /\ UNCHANGED <<used, token>>

\* The session is dropped: its readers are aborted.
Restart ==
    /\ used # {}
    /\ open' = {} /\ used' = {}
    /\ names' = [c \in Connections |-> {}]
    /\ token' = ConfigToken
    /\ claim' = IF claim = {"free"} THEN claim ELSE {}
    /\ quiet' = [c \in Connections |-> LongAgo]
    /\ UNCHANGED <<dispatcherVars, clockVars>>

-----------------------------------------------------------------------------
(* The dispatcher's task *)

Older(age, cap) == IF age = NoAge THEN NoAge ELSE Min({age + 1, cap})

\* The reports are late by less than an interval: sending is bounded by
\* MONITOR_REQUEST_TIMEOUT.
Tick ==
    /\ timer # NoAge
    /\ ~(due /\ timer + 1 = Interval)
    /\ timer' = (timer + 1) % Interval
    /\ due' = (due \/ timer + 1 = Interval)
    /\ workers' = [k \in DOMAIN workers |->
                     [workers[k] EXCEPT !.gone = Older(@, Retention),
                                        !.idle = Older(@, Timeout),
                                        !.shares = {Older(age, LongAgo) : age \in @}]]
    /\ quiet' = [c \in Connections |-> Older(quiet[c], LongAgo)]
    /\ UNCHANGED <<connectionVars, sessionKeys>>

\* snapshot_connected_worker_summaries: evictions, then expirations; the workers
\* with a connection left are reported.
Snapshot ==
    /\ due
    /\ due' = FALSE
    /\ LET pruned == [k \in DOMAIN workers |-> Prune(workers[k])]
           kept == {k \in DOMAIN workers : ~ShouldEvict(pruned[k])}
           expired == {k \in kept : ShouldForceDisconnect(pruned[k])}
       IN /\ workers' = [k \in kept |-> IF k \in expired THEN ForceDisconnected(pruned[k])
                                                         ELSE pruned[k]]
          /\ sessionKeys' = Restrict(sessionKeys,
                                     {c \in DOMAIN sessionKeys : sessionKeys[c] \notin expired})
    /\ UNCHANGED <<connectionVars, timer, quiet>>

-----------------------------------------------------------------------------
(* The specification *)

Readers ==
    \E c \in Connections :
        \/ Accept(c) \/ SubmitValid(c) \/ Close(c)
        \/ \E n \in Names : SubmitInvalid(c, n) \/ \E t \in Tokens : Authorize(c, n, t)

SummaryNext == Readers \/ Restart \/ Tick \/ Snapshot

SummarySpec == SummaryInit /\ [][SummaryNext]_summaryVars

-----------------------------------------------------------------------------
(* Properties *)

\* The two maps agree: the sessions counted for a worker are the connections
\* registered to it, although connections move between workers, are dropped in
\* silence, come back under the same id and are expired in one go.
SessionsAreCounted ==
    /\ Range(sessionKeys) \subseteq DOMAIN workers
    /\ \A k \in DOMAIN workers :
          workers[k].count = Cardinality({c \in DOMAIN sessionKeys : sessionKeys[c] = k})

\* A miner that submits valid shares stays in the summary: its connection is
\* registered until it has been without one for the window and the time-out
\* together, whatever is expired, evicted or registered anew around it.
HashingIsRegistered ==
    \A c \in open : quiet[c] < LongAgo => Registered(c)

=============================================================================
