------------------------------- MODULE Lifecycle -------------------------------
(***************************************************************************)
(* The sessions of the proxy: initialize_proxy and monitor                 *)
(* (src/src/lib.rs), the Router that chooses the pool                      *)
(* (src/src/router/mod.rs), the global ProxyState                          *)
(* (src/src/proxy_state.rs), the shutdown signal (src/src/shutdown.rs) and *)
(* retry_connection (src/src/jd_client/mod.rs), the task that waits for a  *)
(* template provider which could not be reached.                           *)
(*                                                                         *)
(* One task runs the sessions one after the other.  Any task, also one an  *)
(* earlier session left behind, may at any time mark a field of ProxyState *)
(* as down; the monitor of the session looks at it every 100 ms, drops the *)
(* session and marks everything up again.                                  *)
(*                                                                         *)
(* The latency of a pool is measured by opening a mining and a             *)
(* job-declaration connection to it.  The first part has a timeout; the    *)
(* second spins until the pool has granted a token, for ever if the        *)
(* connection is lost before.                                              *)
(***************************************************************************)
EXTENDS Integers, FiniteSets

CONSTANTS
    Pools,         \* pool_addresses
    Fields,        \* the fields of ProxyState
    CheckLatency,  \* Configuration::monitor()
    None,          \* Option::None for a pool
    MaxReporting   \* bound on the retry tasks about to report

ASSUME LifecycleAssumption ==
    /\ Pools # {} /\ IsFiniteSet(Pools) /\ None \notin Pools
    /\ {"pool", "tp", "translator"} \subseteq Fields
    /\ CheckLatency \in BOOLEAN
    /\ MaxReporting \in Nat \ {0}

VARIABLES
    phase,        \* where initialize_proxy is
    shutdown,     \* the shutdown signal was given
    poolAddr,     \* pool_addr of initialize_proxy
    currentPool,  \* Router::current_pool
    activePool,   \* ACTIVE_POOL_ADDRESS
    reconnect,    \* what monitor returned: the pool of NewUpstream, or None
    configured,   \* a template provider is configured
    tpAddress,    \* TP_ADDRESS is Some
    mode,         \* how the session mines
    downs,        \* the fields of ProxyState that are down
    trying,       \* retry_connection tasks that try to reach the provider
    reporting     \* retry_connection tasks between TP_ADDRESS and ProxyState

tpVars == <<configured, tpAddress, trying, reporting>>
lifecycleVars == <<phase, shutdown, poolAddr, currentPool, activePool, reconnect,
                   configured, tpAddress, mode, downs, trying, reporting>>

\* A session with its channels in place, until its tasks are dropped.
Running == {"accounting", "monitor", "probing"}
Connected == Running \cup {"starting", "jdStarting"}
SinglePool == Cardinality(Pools) = 1

\* start_internal chose a pool, or found none that answered.
Init ==
    /\ phase = "top"
    /\ shutdown = FALSE
    /\ poolAddr \in Pools \cup (IF SinglePool THEN {} ELSE {None})
    /\ currentPool = None
    /\ activePool = None
    /\ reconnect = None
    /\ configured \in BOOLEAN
    /\ tpAddress = configured
    /\ mode = "none"
    /\ downs = {}
    /\ trying = 0
    /\ reporting = 0

-----------------------------------------------------------------------------
(* initialize_proxy *)

StopAtTop ==
    /\ phase = "top"
    /\ shutdown
    /\ phase' = "stopped"
    /\ UNCHANGED <<shutdown, poolAddr, currentPool, activePool, reconnect, mode, downs,
                   tpVars>>

\* connect_pool: the pool of NewUpstream, or the best one.
BeginConnect ==
    /\ phase = "top"
    /\ ~shutdown
    /\ IF poolAddr = None
       THEN phase' = "selecting" /\ UNCHANGED currentPool
       ELSE phase' = "connecting" /\ currentPool' = poolAddr
    /\ UNCHANGED <<shutdown, poolAddr, activePool, reconnect, mode, downs, tpVars>>

\* select_pool_connect; the latency decides only if there is a choice.
SelectPool(pool) ==
    /\ phase = "selecting"
    /\ currentPool' = pool
    /\ phase' = "connecting"
    /\ UNCHANGED <<shutdown, poolAddr, activePool, reconnect, mode, downs, tpVars>>

\* "No upstream available. Retrying in 5 seconds..."
SelectNoPool ==
    /\ phase = "selecting"
    /\ ~SinglePool
    /\ phase' = "top"
    /\ UNCHANGED <<shutdown, poolAddr, currentPool, activePool, reconnect, mode, downs,
                   tpVars>>

Connect ==
    /\ phase = "connecting"
    /\ activePool' = currentPool
    /\ phase' = "starting"
    /\ UNCHANGED <<shutdown, poolAddr, currentPool, reconnect, mode, downs, tpVars>>

\* The handshake or the set-up of the connection fails.  A refused TCP
\* connection is tried again inside connect_pool and is no step.
ConnectFails ==
    /\ phase = "connecting"
    /\ phase' = "top"
    /\ UNCHANGED <<shutdown, poolAddr, currentPool, activePool, reconnect, mode, downs,
                   tpVars>>

\* Mutant of ConnectShutdown: only the top of the loop looks at the signal.
ConnectShutdownIgnored ==
    /\ phase = "connecting"
    /\ shutdown
    /\ UNCHANGED lifecycleVars

\* Every wait of connect_pool selects on the shutdown signal.
ConnectShutdown ==
    /\ phase = "connecting"
    /\ shutdown
    /\ phase' = "stopped"
    /\ UNCHANGED <<shutdown, poolAddr, currentPool, activePool, reconnect, mode, downs,
                   tpVars>>

\* "Impossible to initialize translator": initialize_proxy returns.
TranslatorFails ==
    /\ phase = "starting"
    /\ phase' = "stopped"
    /\ downs' = downs \cup {"translator", "tp"}
    /\ UNCHANGED <<shutdown, poolAddr, currentPool, activePool, reconnect, mode, tpVars>>

\* The translator is up; without a template provider the session is pool-only.
ReadTpAddress ==
    /\ phase = "starting"
    /\ IF tpAddress
       THEN phase' = "jdStarting" /\ UNCHANGED mode
       ELSE phase' = "accounting" /\ mode' = "pool"
    /\ UNCHANGED <<shutdown, poolAddr, currentPool, activePool, reconnect, downs, tpVars>>

-----------------------------------------------------------------------------
(* jd_client::start *)

JdStarted ==
    /\ phase = "jdStarting"
    /\ phase' = "accounting"
    /\ mode' = "jd"
    /\ UNCHANGED <<shutdown, poolAddr, currentPool, activePool, reconnect, downs, tpVars>>

\* Any failure but the template provider's: the session starts without a client
\* and is restarted by the monitor.
JdFails ==
    /\ phase = "jdStarting"
    /\ phase' = "accounting"
    /\ mode' = "failed"
    /\ downs' = downs \cup {"tp"}
    /\ UNCHANGED <<shutdown, poolAddr, currentPool, activePool, reconnect, tpVars>>

\* Mutant of TpUnreachable: nobody waits for the provider.
TpUnreachableForgotten ==
    /\ phase = "jdStarting"
    /\ phase' = "accounting"
    /\ mode' = "failed"
    /\ tpAddress' = FALSE
    /\ downs' = downs \cup {"tp"}
    /\ UNCHANGED <<shutdown, poolAddr, currentPool, activePool, reconnect, configured,
                   trying, reporting>>

\* "TP is unreachable, the proxy is in not in JD mode"
TpUnreachable ==
    /\ phase = "jdStarting"
    /\ phase' = "accounting"
    /\ mode' = "failed"
    /\ tpAddress' = FALSE
    /\ trying' = trying + 1
    /\ downs' = downs \cup {"tp"}
    /\ UNCHANGED <<shutdown, poolAddr, currentPool, activePool, reconnect, configured,
                   reporting>>

\* Mutant of RetryConnects: the task that succeeded does not report.
RetryConnectsSilently ==
    /\ trying > 0
    /\ reporting < MaxReporting
    /\ trying' = trying - 1
    /\ tpAddress' = TRUE
    /\ UNCHANGED <<phase, shutdown, poolAddr, currentPool, activePool, reconnect, mode,
                   downs, configured, reporting>>

\* retry_connection reaches the provider, first TP_ADDRESS ...
RetryConnects ==
    /\ trying > 0
    /\ reporting < MaxReporting
    /\ trying' = trying - 1
    /\ reporting' = reporting + 1
    /\ tpAddress' = TRUE
    /\ UNCHANGED <<phase, shutdown, poolAddr, currentPool, activePool, reconnect, mode,
                   downs, configured>>

\* ... then "This force the proxy to restart".
RetryReports ==
    /\ reporting > 0
    /\ reporting' = reporting - 1
    /\ downs' = downs \cup {"tp"}
    /\ UNCHANGED <<phase, shutdown, poolAddr, currentPool, activePool, reconnect, mode,
                   configured, tpAddress, trying>>

-----------------------------------------------------------------------------
(* monitor *)

StartMonitor ==
    /\ phase = "accounting"
    /\ phase' = "monitor"
    /\ UNCHANGED <<shutdown, poolAddr, currentPool, activePool, reconnect, mode, downs,
                   tpVars>>

\* "Failed to start share_accounter": initialize_proxy returns.
AccounterFails ==
    /\ phase = "accounting"
    /\ phase' = "stopped"
    /\ UNCHANGED <<shutdown, poolAddr, currentPool, activePool, reconnect, mode, downs,
                   tpVars>>

\* monitor returns: the handles of the session are dropped.
Leave(pool) ==
    /\ phase' = "dropped"
    /\ reconnect' = pool
    /\ UNCHANGED <<shutdown, poolAddr, currentPool, activePool, mode, downs, tpVars>>

MonitorShutdown == phase = "monitor" /\ shutdown /\ Leave(None)

MonitorTaskFinished == phase = "monitor" /\ Leave(None)

\* Mutant of MonitorDown: the template provider's field is not looked at.
MonitorDownButTp == phase = "monitor" /\ downs \ {"tp"} # {} /\ Leave(None)

MonitorDown == phase = "monitor" /\ downs # {} /\ Leave(None)

\* monitor_upstream, every 100 seconds.
BeginProbe ==
    /\ phase = "monitor"
    /\ CheckLatency
    /\ phase' = "probing"
    /\ UNCHANGED <<shutdown, poolAddr, currentPool, activePool, reconnect, mode, downs,
                   tpVars>>

ProbeFindsFaster(pool) == phase = "probing" /\ pool # currentPool /\ Leave(pool)

ProbeFindsNone ==
    /\ phase = "probing"
    /\ phase' = "monitor"
    /\ UNCHANGED <<shutdown, poolAddr, currentPool, activePool, reconnect, mode, downs,
                   tpVars>>

\* get_jd_latencies loses its connection before it has a token: the reader of the
\* connection reports the pool down, get_last_token spins.
ProbeStuck ==
    /\ phase = "probing" \/ (phase = "selecting" /\ ~SinglePool)
    /\ phase' = "stuck"
    /\ downs' = downs \cup {"pool"}
    /\ UNCHANGED <<shutdown, poolAddr, currentPool, activePool, reconnect, mode, tpVars>>

\* update_proxy_state_up, and the next round of initialize_proxy.
Reset ==
    /\ phase = "dropped"
    /\ phase' = "top"
    /\ downs' = {}
    /\ poolAddr' = reconnect
    /\ mode' = "none"
    /\ UNCHANGED <<shutdown, currentPool, activePool, reconnect, tpVars>>

-----------------------------------------------------------------------------
(* The other tasks *)

ReportDown(field) ==
    /\ downs' = downs \cup {field}
    /\ UNCHANGED <<phase, shutdown, poolAddr, currentPool, activePool, reconnect, mode,
                   tpVars>>

HandleShutdown ==
    /\ shutdown' = TRUE
    /\ UNCHANGED <<phase, poolAddr, currentPool, activePool, reconnect, mode, downs,
                   tpVars>>

ConnectStep == Connect \/ ConnectFails \/ ConnectShutdown
SelectStep == SelectNoPool \/ \E pool \in Pools : SelectPool(pool)
StartStep == TranslatorFails \/ ReadTpAddress
JdStep == JdStarted \/ JdFails \/ TpUnreachable
AccountingStep == StartMonitor \/ AccounterFails
ProbeStep == ProbeFindsNone \/ \E pool \in Pools : ProbeFindsFaster(pool)

Next ==
    \/ StopAtTop \/ BeginConnect \/ SelectStep \/ ConnectStep \/ StartStep \/ JdStep
    \/ AccountingStep \/ MonitorShutdown \/ MonitorTaskFinished \/ MonitorDown
    \/ BeginProbe \/ ProbeStep \/ ProbeStuck \/ Reset
    \/ RetryConnects \/ RetryReports
    \/ \E field \in Fields : ReportDown(field)
    \/ HandleShutdown

\* The task of initialize_proxy runs; peers answer or close their connections, so
\* that a latency is known, an error or stuck at some time.  The monitor looks at
\* the signal and at ProxyState in every round.
Fairness ==
    /\ WF_lifecycleVars(StopAtTop \/ BeginConnect \/ Reset)
    /\ WF_lifecycleVars(SelectStep \/ ProbeStep \/ ProbeStuck)
    /\ WF_lifecycleVars(ConnectShutdown)
    /\ WF_lifecycleVars(StartStep \/ JdStep \/ AccountingStep)
    /\ SF_lifecycleVars(MonitorShutdown)
    /\ SF_lifecycleVars(MonitorDown)

Spec == Init /\ [][Next]_lifecycleVars
FairSpec == Spec /\ Fairness

-----------------------------------------------------------------------------
(* Properties *)

TypeOK ==
    /\ phase \in Connected \cup {"top", "selecting", "connecting", "dropped", "stuck",
                                 "stopped"}
    /\ shutdown \in BOOLEAN
    /\ {poolAddr, currentPool, activePool, reconnect} \subseteq Pools \cup {None}
    /\ phase \in Connected \cup {"connecting"} => currentPool \in Pools
    /\ {configured, tpAddress} \subseteq BOOLEAN
    /\ mode \in {"none", "jd", "pool", "failed"}
    /\ downs \subseteq Fields
    /\ trying \in Nat
    /\ reporting \in 0 .. MaxReporting

\* TP_ADDRESS of a configured provider is None exactly while one retry_connection
\* task is waiting for it: a provider that went away is neither forgotten nor waited for twice,
\* however restarts and retries overlap.  In particular jd_client::start finds the
\* address ("Unreachable code, jdc is not instantiated when TP_ADDRESS not present").
OneRetry ==
    /\ trying = IF configured /\ ~tpAddress THEN 1 ELSE 0
    /\ tpAddress => configured
    /\ phase = "jdStarting" => tpAddress

\* A session that mines without job declaration although the provider can be
\* reached is about to be restarted: no order of the retry's two writes and the
\* session's reading and resetting loses the report.
DegradedIsTemporary ==
    phase \in Running =>
        /\ mode = "pool" /\ tpAddress => "tp" \in downs \/ reporting > 0
        /\ mode = "failed" => "tp" \in downs

\* Jobs are declared to the pool that is mined for: the address the declarator
\* connects to is the one the session's mining connection was opened to.
DeclaresToItsPool == phase \in Connected => activePool = currentPool

\* "Check if the proxy state is down, and if so, reinitialize the proxy" (monitor): a
\* report made while a session runs ends the session.  Only a measurement of
\* latencies that got stuck keeps the monitor from seeing it, in every field of
\* ProxyState and however retries, failing tasks and measurements interleave.
ReportRestartsUnlessStuck ==
    (phase = "monitor" /\ downs # {}) ~>
        (phase \in {"dropped", "top", "stopped", "stuck"})

\* After the shutdown signal initialize_proxy returns, whatever it was doing, but
\* for a measurement of latencies that got stuck.
ShutdownStops == shutdown ~> (phase \in {"stopped", "stuck"})

=============================================================================
