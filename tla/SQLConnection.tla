--------------------------- MODULE SQLConnection ---------------------------
(***************************************************************************)
(* The life of one SQL client: the pool that is current, the two           *)
(* goroutines that watch and replace it, the fx hooks that start and stop  *)
(* them, and GracefulShutdown, which any goroutine may call.               *)
(*                                                                         *)
(* Packages postgres and mariadb hold the same code here (setup.go and     *)
(* fx_module.go, the receiver apart); "map" points at one or the other.    *)
(***************************************************************************)
EXTENDS Naturals

CONSTANTS
    Callers,     \* goroutines that call GracefulShutdown, one call each
    MaxOutages   \* bound: how often the database server goes away

ASSUME MaxOutagesAssumption == MaxOutages \in Nat

VARIABLES
    \* the Postgres struct
    shutdown,      \* shutdownSignal is closed
    retryClosed,   \* retryChanSignal is closed
    pending,       \* errors buffered in retryChanSignal
    client,        \* the pool the atomic pointer refers to
    \* the pools opened so far are 1 .. pools; some have been closed
    pools,
    closed,
    \* MonitorConnection, RetryConnection, and what each keeps in a local
    mon,
    monConn,       \* pool the health check took a snapshot of
    retry,
    cause,         \* auxiliary: what woke RetryConnection: "signal", or "closed" channel
    \* the OnStop hook and the GracefulShutdown calls
    stop,
    gs,
    gsConn,
    \* the surroundings: the context OnStart received, the server, the process
    ctxDone,
    server,
    outages,
    panicked

channels   == <<shutdown, retryClosed, pending>>
poolVars   == <<client, pools, closed>>
monVars    == <<mon, monConn>>
retryVars  == <<retry, cause>>
stopVars   == <<stop, gs, gsConn>>
envVars    == <<ctxDone, server, outages>>
vars == <<channels, poolVars, monVars, retryVars, stopVars, envVars, panicked>>

ChanCap == 1   \* make(chan error, 1)

MonStates   == {"idle", "select", "ping", "signal", "return", "done"}
RetryStates == {"idle", "outer", "inner", "connect", "sleep", "store", "done"}
StopStates  == {"idle", "wait", "close", "done"}
GsStates    == {"idle", "closeRetry", "load", "close", "done"}

\* NewPostgres connected once; neither goroutine runs yet.
Init ==
    /\ shutdown = FALSE
    /\ retryClosed = FALSE
    /\ pending = 0
    /\ client = 1
    /\ pools = 1
    /\ closed = {}
    /\ mon = "idle"
    /\ monConn = 1
    /\ retry = "idle"
    /\ cause = "none"
    /\ stop = "idle"
    /\ gs = [c \in Callers |-> "idle"]
    /\ gsConn = [c \in Callers |-> 1]
    /\ ctxDone = FALSE
    /\ server = "up"
    /\ outages = 0
    /\ panicked = FALSE

-----------------------------------------------------------------------------
\* Lifecycle hooks.

OnStart ==
    /\ mon = "idle"
    /\ mon' = "select"
    /\ retry' = "outer"
    /\ UNCHANGED <<channels, poolVars, monConn, cause, stopVars, envVars, panicked>>

\* OnStop closes shutdownSignal (Once) and enters wg.Wait.
OnStop ==
    /\ stop = "idle"
    /\ mon # "idle"
    /\ shutdown' = TRUE
    /\ stop' = "wait"
    /\ UNCHANGED <<retryClosed, pending, poolVars, monVars, retryVars, gs, gsConn,
                   envVars, panicked>>

\* A mistake OnStop could contain: the channel is closed without wg.Wait.
StopWithoutWait ==
    /\ stop = "wait"
    /\ retryClosed' = TRUE
    /\ stop' = "close"
    /\ UNCHANGED <<shutdown, pending, poolVars, monVars, retryVars, gs, gsConn,
                   envVars, panicked>>

\* wg.Wait returned; the channel is closed (Once).
StopWaited ==
    /\ stop = "wait"
    /\ mon = "done"
    /\ retry = "done"
    /\ retryClosed' = TRUE
    /\ stop' = "close"
    /\ UNCHANGED <<shutdown, pending, poolVars, monVars, retryVars, gs, gsConn,
                   envVars, panicked>>

StopClosePool ==
    /\ stop = "close"
    /\ closed' = closed \cup {client}
    /\ stop' = "done"
    /\ UNCHANGED <<channels, client, pools, monVars, retryVars, gs, gsConn,
                   envVars, panicked>>

-----------------------------------------------------------------------------
\* MonitorConnection.

\* A mistake: break, which leaves the select and not the loop.
BreakLeavesSelectOnly ==
    /\ mon = "select"
    /\ shutdown
    /\ UNCHANGED vars

MonitorShutdown ==
    /\ mon = "select"
    /\ shutdown
    /\ mon' = "return"
    /\ UNCHANGED <<channels, poolVars, monConn, retryVars, stopVars, envVars, panicked>>

MonitorCtxDone ==
    /\ mon = "select"
    /\ ctxDone
    /\ mon' = "return"
    /\ UNCHANGED <<channels, poolVars, monConn, retryVars, stopVars, envVars, panicked>>

\* A mistake: the check keeps the pool it was started with.
MonitorTickStale ==
    /\ mon = "select"
    /\ mon' = "ping"
    /\ UNCHANGED <<channels, poolVars, monConn, retryVars, stopVars, envVars, panicked>>

\* The ticker fired: healthCheck loads the pointer, then pings without a lock.
MonitorTick ==
    /\ mon = "select"
    /\ mon' = "ping"
    /\ monConn' = client
    /\ UNCHANGED <<channels, poolVars, retryVars, stopVars, envVars, panicked>>

Healthy(pool) == server = "up" /\ pool \notin closed

MonitorPing ==
    /\ mon = "ping"
    /\ \/ Healthy(monConn) /\ mon' = "select"
       \/ ~Healthy(monConn) /\ mon' = "signal"
    /\ UNCHANGED <<channels, poolVars, monConn, retryVars, stopVars, envVars, panicked>>

\* select { case retryChanSignal <- err: default: }
MonitorSend ==
    /\ mon = "signal"
    /\ ~retryClosed
    /\ pending' = IF pending < ChanCap THEN pending + 1 ELSE pending
    /\ mon' = "select"
    /\ UNCHANGED <<shutdown, retryClosed, poolVars, monConn, retryVars, stopVars,
                   envVars, panicked>>

\* The same select on a closed channel: Go panics, the default does not help.
MonitorSendClosed ==
    /\ mon = "signal"
    /\ retryClosed
    /\ panicked' = TRUE
    /\ UNCHANGED <<channels, poolVars, monVars, retryVars, stopVars, envVars>>

\* The deferred closeRetryChanOnce.
MonitorReturn ==
    /\ mon = "return"
    /\ retryClosed' = TRUE
    /\ mon' = "done"
    /\ UNCHANGED <<shutdown, pending, poolVars, monConn, retryVars, stopVars,
                   envVars, panicked>>

-----------------------------------------------------------------------------
\* RetryConnection: the outer select, the inner loop.

RetryStop ==
    /\ retry \in {"outer", "inner"}
    /\ shutdown \/ ctxDone
    /\ retry' = "done"
    /\ UNCHANGED <<channels, poolVars, monVars, cause, stopVars, envVars, panicked>>

\* case <-retryChanSignal. The code does not look at "ok", so a closed and
\* drained channel wakes the loop as an error does.
RetryReceive ==
    /\ retry = "outer"
    /\ \/ pending > 0 /\ pending' = pending - 1 /\ cause' = "signal"
       \/ pending = 0 /\ retryClosed /\ cause' = "closed" /\ UNCHANGED pending
    /\ retry' = "inner"
    /\ UNCHANGED <<shutdown, retryClosed, poolVars, monVars, stopVars, envVars, panicked>>

\* default: only when neither shutdownSignal nor ctx.Done() is ready.
RetryConnect ==
    /\ retry = "inner"
    /\ ~shutdown
    /\ ~ctxDone
    /\ retry' = "connect"
    /\ UNCHANGED <<channels, poolVars, monVars, cause, stopVars, envVars, panicked>>

RetryConnected ==
    /\ retry = "connect"
    /\ server = "up"
    /\ pools' = pools + 1
    /\ retry' = "store"
    /\ UNCHANGED <<channels, client, closed, monVars, cause, stopVars, envVars, panicked>>

\* A mistake: a failed attempt goes back to waiting for another signal.
FailToOuterLoop ==
    /\ retry = "connect"
    /\ server = "down"
    /\ retry' = "outer"
    /\ UNCHANGED <<channels, poolVars, monVars, cause, stopVars, envVars, panicked>>

RetryFailed ==
    /\ retry = "connect"
    /\ server = "down"
    /\ retry' = "sleep"
    /\ UNCHANGED <<channels, poolVars, monVars, cause, stopVars, envVars, panicked>>

RetryWake ==
    /\ retry = "sleep"
    /\ retry' = "inner"
    /\ UNCHANGED <<channels, poolVars, monVars, cause, stopVars, envVars, panicked>>

\* A mistake: the pool that is replaced is closed under its users.
StoreAndCloseOld ==
    /\ retry = "store"
    /\ client' = pools
    /\ closed' = closed \cup {client}
    /\ retry' = "outer"
    /\ UNCHANGED <<channels, pools, monVars, cause, stopVars, envVars, panicked>>

\* client.Store(newConn); the pool it replaces is left as it is.
RetryStore ==
    /\ retry = "store"
    /\ client' = pools
    /\ retry' = "outer"
    /\ UNCHANGED <<channels, pools, closed, monVars, cause, stopVars, envVars, panicked>>

-----------------------------------------------------------------------------
\* GracefulShutdown, called by c. It waits for nobody.

GsUnchanged == UNCHANGED <<pending, client, pools, monVars, retryVars, stop, envVars,
                           panicked>>

GsShutdown(c) ==
    /\ gs[c] = "idle"
    /\ shutdown' = TRUE
    /\ gs' = [gs EXCEPT ![c] = "closeRetry"]
    /\ GsUnchanged /\ UNCHANGED <<retryClosed, closed, gsConn>>

GsCloseRetry(c) ==
    /\ gs[c] = "closeRetry"
    /\ retryClosed' = TRUE
    /\ gs' = [gs EXCEPT ![c] = "load"]
    /\ GsUnchanged /\ UNCHANGED <<shutdown, closed, gsConn>>

GsLoad(c) ==
    /\ gs[c] = "load"
    /\ gsConn' = [gsConn EXCEPT ![c] = client]
    /\ gs' = [gs EXCEPT ![c] = "close"]
    /\ GsUnchanged /\ UNCHANGED <<shutdown, retryClosed, closed>>

GsClose(c) ==
    /\ gs[c] = "close"
    /\ closed' = closed \cup {gsConn[c]}
    /\ gs' = [gs EXCEPT ![c] = "done"]
    /\ GsUnchanged /\ UNCHANGED <<shutdown, retryClosed, gsConn>>

-----------------------------------------------------------------------------
\* The surroundings.

ServerDown ==
    /\ server = "up"
    /\ outages < MaxOutages
    /\ server' = "down"
    /\ outages' = outages + 1
    /\ UNCHANGED <<channels, poolVars, monVars, retryVars, stopVars, ctxDone, panicked>>

ServerUp ==
    /\ server = "down"
    /\ server' = "up"
    /\ UNCHANGED <<channels, poolVars, monVars, retryVars, stopVars, ctxDone, outages,
                   panicked>>

\* fx ends the context it gave to OnStart: by its start timeout at the latest.
CtxCancel ==
    /\ mon # "idle"
    /\ ~ctxDone
    /\ ctxDone' = TRUE
    /\ UNCHANGED <<channels, poolVars, monVars, retryVars, stopVars, server, outages,
                   panicked>>

Terminated ==
    /\ panicked \/ stop = "done"
    /\ UNCHANGED vars

-----------------------------------------------------------------------------
HealthStep  == MonitorTick \/ MonitorPing \/ MonitorSend \/ MonitorSendClosed
MonitorStep == MonitorShutdown \/ MonitorCtxDone \/ HealthStep \/ MonitorReturn
RetryStep   == \/ RetryStop \/ RetryReceive \/ RetryConnect \/ RetryConnected
               \/ RetryFailed \/ RetryWake \/ RetryStore
StopStep    == StopWaited \/ StopClosePool
GsStep(c)   == GsCloseRetry(c) \/ GsLoad(c) \/ GsClose(c)
EnvStep     == ServerDown \/ ServerUp \/ CtxCancel

Next ==
    \/ /\ ~panicked
       /\ \/ OnStart
          \/ OnStop
          \/ StopStep
          \/ MonitorStep
          \/ RetryStep
          \/ \E c \in Callers : GsShutdown(c) \/ GsStep(c)
          \/ EnvStep
    \/ Terminated

\* Goroutines that can run are scheduled; the select of MonitorConnection is
\* random among its ready cases, so a case that stays ready is taken in the
\* end; the server returns from every outage. Nobody has to call OnStop or
\* GracefulShutdown, and the context need not end.
Fairness ==
    /\ WF_vars(~panicked /\ OnStart)
    /\ WF_vars(~panicked /\ MonitorStep)
    /\ SF_vars(~panicked /\ MonitorShutdown)
    /\ SF_vars(~panicked /\ MonitorCtxDone)
    /\ WF_vars(~panicked /\ RetryStep)
    /\ WF_vars(~panicked /\ StopStep)
    /\ \A c \in Callers : WF_vars(~panicked /\ GsStep(c))
    /\ WF_vars(~panicked /\ ServerUp)

Spec     == Init /\ [][Next]_vars
FairSpec == Spec /\ Fairness

-----------------------------------------------------------------------------
\* Types: in particular retryChanSignal never holds more than one error, and
\* the current pool is one that was opened.
TypeOK ==
    /\ shutdown \in BOOLEAN
    /\ retryClosed \in BOOLEAN
    /\ pending \in 0 .. ChanCap
    /\ pools \in Nat \ {0}
    /\ client \in 1 .. pools
    /\ closed \in SUBSET (1 .. pools)
    /\ mon \in MonStates
    /\ monConn \in 1 .. pools
    /\ retry \in RetryStates
    /\ cause \in {"none", "signal", "closed"}
    /\ stop \in StopStates
    /\ gs \in [Callers -> GsStates]
    /\ gsConn \in [Callers -> 1 .. pools]
    /\ ctxDone \in BOOLEAN
    /\ server \in {"up", "down"}
    /\ outages \in 0 .. MaxOutages
    /\ panicked \in BOOLEAN

\* The monitor never sends on a closed retryChanSignal, which would end the
\* process. Three places close that channel.
NoSendOnClosed == ~panicked

\* Caller c of GracefulShutdown is past the closing of retryChanSignal.
Passed(c) == gs[c] \in {"load", "close", "done"}

\* Of the three closers only GracefulShutdown, which waits for nobody, can make
\* the monitor panic; those in MonitorConnection and OnStop never do.
PanicNeedsCaller == panicked => \E c \in Callers : Passed(c)

\* RetryConnection does not look at "ok", so the closing of its channel looks
\* like a failure; still it opens a connection only for an error the monitor
\* sent, never because the channel was closed.
ReconnectOnlyOnSignal ==
    retry \in {"connect", "sleep", "store"} => cause = "signal"

\* When OnStop returned, both goroutines are gone and the pool that is current
\* is closed, whatever reconnection was under way when it was called.
StopIsClean ==
    stop = "done" => mon = "done" /\ retry = "done" /\ client \in closed

\* Users keep the *gorm.DB that DB() gave them across a reconnection: no pool
\* is closed under them before shutdown began.
SnapshotsStayUsable == closed # {} => shutdown

\* OnStop ends: wg.Wait is not held up for ever.
StopTerminates == stop = "wait" ~> stop = "done" \/ panicked

\* The client as its users see it. A failure is reported from the moment the
\* health check failed until a pool is stored for it; a wake-up by the closed
\* channel is no report.
Suspect ==
    \/ mon = "signal"
    \/ pending > 0
    \/ retry \in {"inner", "connect", "sleep", "store"} /\ cause = "signal"

Status ==
    IF stop \in {"close", "done"} THEN "stopped"
    ELSE IF shutdown \/ ctxDone THEN "stopping" ELSE "running"

Managed == INSTANCE ManagedConnection
               WITH current <- client, suspect <- Suspect, status <- Status

\* The pool is replaced only for a failed health check, and never once OnStop
\* closes it, whatever closes the channels and whoever calls GracefulShutdown.
ManagedSafely == Managed!SafeSpec

\* Moreover every failed health check leads to a new pool while the client
\* runs: no report is lost to a full channel or to a reconnection that fails.
ManagedLive == Managed!Spec

\* doc of the package: periodic health checks, so monitoring runs until the
\* client is shut down.
MonitoringUntilShutdown == mon = "done" => shutdown
=============================================================================
