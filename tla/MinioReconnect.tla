--------------------------- MODULE MinioReconnect ---------------------------
(***************************************************************************)
(* How package minio watches its connection: monitorConnection lists the   *)
(* buckets every now and then and signals a failure, retryConnection makes *)
(* a new pair of clients, validates it and swaps the two atomic pointers,  *)
(* the fx hooks start and stop both, and GracefulShutdown may be called by *)
(* any goroutine.                                                          *)
(*                                                                         *)
(* The clients are stateless HTTP clients made from one configuration, the *)
(* one NewClient validated: making one cannot fail any more, only the      *)
(* requests do.  Nothing closes reconnectSignal.                           *)
(***************************************************************************)
EXTENDS Naturals

CONSTANT MaxOutages   \* bound: how often the server goes away

ASSUME OutagesAssumption == MaxOutages \in Nat

VARIABLES
    \* the MinioClient struct
    shutdown,   \* shutdownSignal is closed
    pending,    \* errors buffered in reconnectSignal
    client,     \* which pair the pointer to the standard client is of,
    core,       \* and the pointer to the core client
    \* the goroutines, the OnStop hook, a call of GracefulShutdown
    mon, retry, stop, gs,
    \* the surroundings: the context of OnStart, the server
    ctxDone, server, outages

pointers == <<client, core>>
envVars  == <<ctxDone, server, outages>>
vars == <<shutdown, pending, pointers, mon, retry, stop, gs, envVars>>

SignalCap == 1   \* make(chan error, 1)

MonStates   == {"idle", "select", "check", "signal", "done"}
RetryStates == {"idle", "outer", "inner", "validate", "sleep", "store", "storeCore", "done"}
StopStates  == {"idle", "shutdown", "wait", "done"}

\* NewClient stored both pointers and validated the connection.
Init ==
    /\ shutdown = FALSE
    /\ pending = 0
    /\ client = 1
    /\ core = 1
    /\ mon = "idle"
    /\ retry = "idle"
    /\ stop = "idle"
    /\ gs = "idle"
    /\ ctxDone = FALSE
    /\ server = "up"
    /\ outages = 0

-----------------------------------------------------------------------------
\* Lifecycle.

OnStart ==
    /\ mon = "idle"
    /\ mon' = "select"
    /\ retry' = "outer"
    /\ UNCHANGED <<shutdown, pending, pointers, stop, gs, envVars>>

\* CleanupResources comes first; it concerns the buffer pool only.
OnStop ==
    /\ stop = "idle"
    /\ mon # "idle"
    /\ stop' = "shutdown"
    /\ UNCHANGED <<shutdown, pending, pointers, mon, retry, gs, envVars>>

\* OnStop's call of GracefulShutdown (Once), then wg.Wait.
StopShutdown ==
    /\ stop = "shutdown"
    /\ shutdown' = TRUE
    /\ stop' = "wait"
    /\ UNCHANGED <<pending, pointers, mon, retry, gs, envVars>>

\* A mistake: OnStop returns without wg.Wait.
StopWithoutWait ==
    /\ stop = "wait"
    /\ stop' = "done"
    /\ UNCHANGED <<shutdown, pending, pointers, mon, retry, gs, envVars>>

StopWaited ==
    /\ stop = "wait"
    /\ mon = "done"
    /\ retry = "done"
    /\ stop' = "done"
    /\ UNCHANGED <<shutdown, pending, pointers, mon, retry, gs, envVars>>

\* Somebody else calls GracefulShutdown.
GracefulShutdown ==
    /\ gs = "idle"
    /\ gs' = "done"
    /\ shutdown' = TRUE
    /\ UNCHANGED <<pending, pointers, mon, retry, stop, envVars>>

-----------------------------------------------------------------------------
\* monitorConnection.

MonitorTick ==
    /\ mon = "select"
    /\ mon' = "check"
    /\ UNCHANGED <<shutdown, pending, pointers, retry, stop, gs, envVars>>

\* validateConnection answers; its context derives from that of OnStart, whose
\* end makes the check fail, too.
Reachable == server = "up" /\ ~ctxDone

MonitorCheck ==
    /\ mon = "check"
    /\ \/ Reachable /\ mon' = "select"
       \/ ~Reachable /\ mon' = "signal"
    /\ UNCHANGED <<shutdown, pending, pointers, retry, stop, gs, envVars>>

MonitorSend ==
    /\ mon = "signal"
    /\ pending' = IF pending < SignalCap THEN pending + 1 ELSE pending
    /\ mon' = "select"
    /\ UNCHANGED <<shutdown, pointers, retry, stop, gs, envVars>>

\* The return in either case of the select.
MonitorStop ==
    /\ mon = "select"
    /\ shutdown \/ ctxDone
    /\ mon' = "done"
    /\ UNCHANGED <<shutdown, pending, pointers, retry, stop, gs, envVars>>

-----------------------------------------------------------------------------
\* retryConnection.

RetryStop ==
    /\ retry \in {"outer", "inner"}
    /\ shutdown \/ ctxDone
    /\ retry' = "done"
    /\ UNCHANGED <<shutdown, pending, pointers, mon, stop, gs, envVars>>

RetryReceive ==
    /\ retry = "outer"
    /\ pending > 0
    /\ pending' = pending - 1
    /\ retry' = "inner"
    /\ UNCHANGED <<shutdown, pointers, mon, stop, gs, envVars>>

\* default: connectToMinio and connectToMinioCore make the new pair.
RetryConnect ==
    /\ retry = "inner"
    /\ ~shutdown /\ ~ctxDone
    /\ retry' = "validate"
    /\ UNCHANGED <<shutdown, pending, pointers, mon, stop, gs, envVars>>

\* ListBuckets on the new client, with a context of its own.
RetryValidated ==
    /\ retry = "validate"
    /\ server = "up"
    /\ retry' = "store"
    /\ UNCHANGED <<shutdown, pending, pointers, mon, stop, gs, envVars>>

\* A mistake: the new client is stored before it is validated.
StoredThenInvalid ==
    /\ retry = "validate"
    /\ server = "down"
    /\ client' = client + 1
    /\ retry' = "sleep"
    /\ UNCHANGED <<shutdown, pending, core, mon, stop, gs, envVars>>

\* A mistake: after a failure the loop waits for another signal.
InvalidToOuterLoop ==
    /\ retry = "validate"
    /\ server = "down"
    /\ retry' = "outer"
    /\ UNCHANGED <<shutdown, pending, pointers, mon, stop, gs, envVars>>

RetryInvalid ==
    /\ retry = "validate"
    /\ server = "down"
    /\ retry' = "sleep"
    /\ UNCHANGED <<shutdown, pending, pointers, mon, stop, gs, envVars>>

RetryWake ==
    /\ retry = "sleep"
    /\ retry' = "inner"
    /\ UNCHANGED <<shutdown, pending, pointers, mon, stop, gs, envVars>>

RetryStore ==
    /\ retry = "store"
    /\ client' = client + 1
    /\ retry' = "storeCore"
    /\ UNCHANGED <<shutdown, pending, core, mon, stop, gs, envVars>>

RetryStoreCore ==
    /\ retry = "storeCore"
    /\ core' = core + 1
    /\ retry' = "outer"
    /\ UNCHANGED <<shutdown, pending, client, mon, stop, gs, envVars>>

-----------------------------------------------------------------------------
\* The surroundings.

ServerDown ==
    /\ server = "up"
    /\ outages < MaxOutages
    /\ server' = "down"
    /\ outages' = outages + 1
    /\ UNCHANGED <<shutdown, pending, pointers, mon, retry, stop, gs, ctxDone>>

ServerUp ==
    /\ server = "down"
    /\ server' = "up"
    /\ UNCHANGED <<shutdown, pending, pointers, mon, retry, stop, gs, ctxDone, outages>>

\* fx ends the context it gave to OnStart.
CtxCancel ==
    /\ mon # "idle"
    /\ ~ctxDone
    /\ ctxDone' = TRUE
    /\ UNCHANGED <<shutdown, pending, pointers, mon, retry, stop, gs, server, outages>>

Terminated ==
    /\ stop = "done"
    /\ UNCHANGED vars

-----------------------------------------------------------------------------
MonitorStep == MonitorTick \/ MonitorCheck \/ MonitorSend \/ MonitorStop
RetryStep   == \/ RetryStop \/ RetryReceive \/ RetryConnect \/ RetryValidated
               \/ RetryInvalid \/ RetryWake \/ RetryStore \/ RetryStoreCore
StopStep    == StopShutdown \/ StopWaited
EnvStep     == ServerDown \/ ServerUp \/ CtxCancel

Next ==
    \/ OnStart
    \/ OnStop
    \/ GracefulShutdown
    \/ StopStep
    \/ MonitorStep
    \/ RetryStep
    \/ EnvStep
    \/ Terminated

\* Goroutines that can run are scheduled, requests end (each has a timeout), a
\* case of a select that stays ready is taken in the end, and the server comes
\* back from every outage.
Fairness ==
    /\ WF_vars(OnStart)
    /\ WF_vars(MonitorStep)
    /\ SF_vars(MonitorStop)
    /\ WF_vars(RetryStep)
    /\ WF_vars(StopStep)
    /\ WF_vars(ServerUp)

Spec     == Init /\ [][Next]_vars
FairSpec == Spec /\ Fairness

-----------------------------------------------------------------------------
\* Types: in particular reconnectSignal holds one error at most.
TypeOK ==
    /\ shutdown \in BOOLEAN
    /\ pending \in 0 .. SignalCap
    /\ client \in Nat \ {0}
    /\ core \in Nat \ {0}
    /\ mon \in MonStates
    /\ retry \in RetryStates
    /\ stop \in StopStates
    /\ gs \in {"idle", "done"}
    /\ ctxDone \in BOOLEAN
    /\ server \in {"up", "down"}
    /\ outages \in 0 .. MaxOutages

\* The standard and the core client are of one pair, but for the moment between
\* the two stores; a failed validation or a shutdown never leaves them apart.
PairMatches == client = IF retry = "storeCore" THEN core + 1 ELSE core

\* When OnStop returned, no goroutine is left that could swap the pointers.
StopIsClean == stop = "done" => mon = "done" /\ retry = "done" /\ shutdown

\* The client as its users see it.
Suspect ==
    \/ mon = "signal"
    \/ pending > 0
    \/ retry \in {"inner", "validate", "sleep", "store"}

Status ==
    IF stop = "done" THEN "stopped"
    ELSE IF shutdown \/ ctxDone THEN "stopping" ELSE "running"

Managed == INSTANCE ManagedConnection
               WITH current <- client, suspect <- Suspect, status <- Status

\* The clients are replaced only for a failed check, and never once OnStop
\* returned.
ManagedSafely == Managed!SafeSpec

\* Moreover every failed check leads to a new pair while the client runs.
ManagedLive == Managed!Spec
=============================================================================
