-------------------------- MODULE SQLSessionProofs --------------------------
(***************************************************************************)
(* What SQLConnection guarantees for every number of GracefulShutdown      *)
(* callers and every number of outages, and what SQLSession adds to it for *)
(* every number of users.                                                  *)
(*                                                                         *)
(* The channel of errors has three closers, and the safety of the          *)
(* goroutines rests on who may have closed it when.  The invariant Ind     *)
(* records that: a closer runs only after shutdown or the end of the       *)
(* context, and while the monitor is alive only GracefulShutdown closes.   *)
(* The users change nothing of the client but the set of closed pools, so  *)
(* Ind says nothing of it beyond what a shutdown of a clone cannot undo.   *)
(***************************************************************************)
EXTENDS SQLSession, TLAPS

Ended == shutdown \/ ctxDone

Ind ==
    /\ mon \in {"return", "done"} => Ended
    /\ retryClosed => Ended
    /\ stop # "idle" => shutdown
    /\ \A c \in Callers : gs[c] # "idle" => shutdown
    /\ retry \in {"connect", "sleep", "store"} => cause = "signal"
    /\ retry = "inner" => cause = "signal" \/ (cause = "closed" /\ Ended)
    /\ stop \in {"close", "done"} => mon = "done" /\ retry = "done"
    /\ stop = "done" => client \in closed
    /\ retryClosed /\ mon # "done" => \E c \in Callers : Passed(c)
    /\ panicked => \E c \in Callers : Passed(c)
    /\ pools = IF retry = "store" THEN client + 1 ELSE client
    /\ mon = "idle" => retry = "idle"

Core == TypeOK /\ Ind

IInv == Core /\ SnapshotsStayUsable

-----------------------------------------------------------------------------
\* Every step keeps the types: the channel holds at most one error and the
\* pointer always refers to a pool that was opened.
LEMMA TypeStep == TypeOK /\ [Next]_vars => TypeOK'
<1> USE MaxOutagesAssumption
    DEF TypeOK, channels, poolVars, monVars, retryVars, stopVars, envVars,
        MonStates, RetryStates, StopStates, GsStates, ChanCap
<1> SUFFICES ASSUME TypeOK, [Next]_vars
             PROVE  TypeOK'
  OBVIOUS
<1>1. CASE OnStart
  BY <1>1 DEF OnStart
<1>2. CASE OnStop
  BY <1>2 DEF OnStop
<1>3. CASE StopStep
  <2>1. CASE StopWaited
    BY <2>1 DEF StopWaited
  <2>2. CASE StopClosePool
    BY <2>2 DEF StopClosePool
  <2> QED
    BY <1>3, <2>1, <2>2 DEF StopStep
<1>4. CASE MonitorStep
  <2>1. CASE MonitorShutdown
    BY <2>1 DEF MonitorShutdown
  <2>2. CASE MonitorCtxDone
    BY <2>2 DEF MonitorCtxDone
  <2>3. CASE MonitorTick
    BY <2>3 DEF MonitorTick
  <2>4. CASE MonitorPing
    BY <2>4 DEF MonitorPing
  <2>5. CASE MonitorSend
    BY <2>5 DEF MonitorSend
  <2>6. CASE MonitorSendClosed
    BY <2>6 DEF MonitorSendClosed
  <2>7. CASE MonitorReturn
    BY <2>7 DEF MonitorReturn
  <2> QED
    BY <1>4, <2>1, <2>2, <2>3, <2>4, <2>5, <2>6, <2>7 DEF MonitorStep, HealthStep
<1>5. CASE RetryStep
  <2>1. CASE RetryStop
    BY <2>1 DEF RetryStop
  <2>2. CASE RetryReceive
    BY <2>2 DEF RetryReceive
  <2>3. CASE RetryConnect
    BY <2>3 DEF RetryConnect
  <2>4. CASE RetryConnected
    BY <2>4 DEF RetryConnected
  <2>5. CASE RetryFailed
    BY <2>5 DEF RetryFailed
  <2>6. CASE RetryWake
    BY <2>6 DEF RetryWake
  <2>7. CASE RetryStore
    BY <2>7 DEF RetryStore
  <2> QED
    BY <1>5, <2>1, <2>2, <2>3, <2>4, <2>5, <2>6, <2>7 DEF RetryStep
<1>6. ASSUME NEW c \in Callers, GsShutdown(c) \/ GsStep(c)
      PROVE  TypeOK'
  <2>1. CASE GsShutdown(c)
    BY <2>1 DEF GsShutdown, GsUnchanged
  <2>2. CASE GsCloseRetry(c)
    BY <2>2 DEF GsCloseRetry, GsUnchanged
  <2>3. CASE GsLoad(c)
    BY <2>3 DEF GsLoad, GsUnchanged
  <2>4. CASE GsClose(c)
    <3>1. closed' \in SUBSET (1 .. pools')
      BY <2>4 DEF GsClose, GsUnchanged
    <3>2. gs' \in [Callers -> GsStates]
      BY <2>4 DEF GsClose
    <3> QED
      BY <2>4, <3>1, <3>2 DEF GsClose, GsUnchanged
  <2> QED
    BY <1>6, <2>1, <2>2, <2>3, <2>4 DEF GsStep
<1>7. CASE EnvStep
  <2>1. CASE ServerDown
    BY <2>1 DEF ServerDown
  <2>2. CASE ServerUp
    BY <2>2 DEF ServerUp
  <2>3. CASE CtxCancel
    BY <2>3 DEF CtxCancel
  <2> QED
    BY <1>7, <2>1, <2>2, <2>3 DEF EnvStep
<1>8. CASE UNCHANGED vars
  BY <1>8 DEF vars
<1> QED
  BY <1>1, <1>2, <1>3, <1>4, <1>5, <1>6, <1>7, <1>8 DEF Next, Terminated

\* Every step keeps Ind.
LEMMA IndStep == TypeOK /\ Ind /\ [Next]_vars => Ind'
<1> USE DEF Ind, Ended, Passed, TypeOK, channels, poolVars, monVars, retryVars,
            stopVars, envVars, MonStates, RetryStates, StopStates, GsStates
<1> SUFFICES ASSUME TypeOK, Ind, [Next]_vars
             PROVE  Ind'
  OBVIOUS
<1>1. CASE OnStart
  BY <1>1 DEF OnStart
<1>2. CASE OnStop
  BY <1>2 DEF OnStop
<1>3. CASE StopStep
  <2>1. CASE StopWaited
    BY <2>1 DEF StopWaited
  <2>2. CASE StopClosePool
    BY <2>2 DEF StopClosePool
  <2> QED
    BY <1>3, <2>1, <2>2 DEF StopStep
<1>4. CASE MonitorStep
  <2>1. CASE MonitorShutdown \/ MonitorCtxDone
    BY <2>1 DEF MonitorShutdown, MonitorCtxDone
  <2>2. CASE MonitorReturn
    BY <2>2 DEF MonitorReturn
  <2>3. CASE MonitorTick \/ MonitorPing
    BY <2>3 DEF MonitorTick, MonitorPing
  <2>4. CASE MonitorSend
    BY <2>4 DEF MonitorSend
  <2>5. CASE MonitorSendClosed
    BY <2>5 DEF MonitorSendClosed
  <2> QED
    BY <1>4, <2>1, <2>2, <2>3, <2>4, <2>5 DEF MonitorStep, HealthStep
<1>5. CASE RetryStep
  <2>1. CASE RetryStop \/ RetryConnect
    BY <2>1 DEF RetryStop, RetryConnect
  <2>2. CASE RetryReceive
    BY <2>2 DEF RetryReceive
  <2>3. CASE RetryConnected \/ RetryFailed \/ RetryWake
    BY <2>3 DEF RetryConnected, RetryFailed, RetryWake
  <2>4. CASE RetryStore
    BY <2>4 DEF RetryStore
  <2> QED
    BY <1>5, <2>1, <2>2, <2>3, <2>4 DEF RetryStep
<1>6. ASSUME NEW c \in Callers, GsShutdown(c)
      PROVE  Ind'
  BY <1>6 DEF GsShutdown, GsUnchanged
<1>7. ASSUME NEW c \in Callers, GsCloseRetry(c)
      PROVE  Ind'
  BY <1>7 DEF GsCloseRetry, GsUnchanged
<1>8. ASSUME NEW c \in Callers, GsLoad(c)
      PROVE  Ind'
  BY <1>8 DEF GsLoad, GsUnchanged
<1>9. ASSUME NEW c \in Callers, GsClose(c)
      PROVE  Ind'
  BY <1>9 DEF GsClose, GsUnchanged
<1>10. CASE EnvStep
  BY <1>10 DEF EnvStep, ServerDown, ServerUp, CtxCancel
<1>11. CASE UNCHANGED vars
  BY <1>11 DEF vars
<1> QED
  BY <1>1, <1>2, <1>3, <1>4, <1>5, <1>6, <1>7, <1>8, <1>9, <1>10, <1>11
  DEF Next, Terminated, GsStep

\* Only a client that is being shut down closes a pool, and shutdown is never
\* taken back.
LEMMA ClosedStep ==
    Core /\ [Next]_vars =>
        (closed' = closed \/ shutdown') /\ (shutdown => shutdown') /\ pools <= pools'
<1> USE DEF Core, TypeOK, Ind, channels, poolVars, monVars, retryVars, stopVars, envVars
<1> SUFFICES ASSUME Core, [Next]_vars
             PROVE  (closed' = closed \/ shutdown') /\ (shutdown => shutdown') /\ pools <= pools'
  OBVIOUS
<1>1. CASE OnStart \/ OnStop \/ StopStep
  BY <1>1 DEF OnStart, OnStop, StopStep, StopWaited, StopClosePool
<1>2. CASE MonitorStep
  BY <1>2 DEF MonitorStep, HealthStep, MonitorShutdown, MonitorCtxDone, MonitorTick, MonitorPing,
              MonitorSend, MonitorSendClosed, MonitorReturn
<1>3. CASE RetryStep
  BY <1>3 DEF RetryStep, RetryStop, RetryReceive, RetryConnect, RetryConnected, RetryFailed,
              RetryWake, RetryStore
<1>4. ASSUME NEW c \in Callers, GsShutdown(c) \/ GsStep(c)
      PROVE  (closed' = closed \/ shutdown') /\ (shutdown => shutdown') /\ pools <= pools'
  BY <1>4 DEF GsStep, GsShutdown, GsCloseRetry, GsLoad, GsClose, GsUnchanged
<1>5. CASE EnvStep
  BY <1>5 DEF EnvStep, ServerDown, ServerUp, CtxCancel
<1>6. CASE UNCHANGED vars
  BY <1>6 DEF vars
<1> QED
  BY <1>1, <1>2, <1>3, <1>4, <1>5, <1>6 DEF Next, Terminated

LEMMA CoreInit == Init => Core
<1> SUFFICES ASSUME Init
             PROVE  TypeOK /\ Ind
  BY DEF Core
<1>1. TypeOK
  <2>1. gs \in [Callers -> GsStates] /\ gsConn \in [Callers -> 1 .. pools]
    BY DEF Init, GsStates
  <2>2. outages \in 0 .. MaxOutages /\ pending \in 0 .. ChanCap
    BY MaxOutagesAssumption DEF Init, ChanCap
  <2>3. pools \in Nat \ {0} /\ client \in 1 .. pools /\ monConn \in 1 .. pools
    BY DEF Init
  <2>4. mon \in MonStates /\ retry \in RetryStates /\ stop \in StopStates
    BY DEF Init, MonStates, RetryStates, StopStates
  <2>5. /\ shutdown \in BOOLEAN /\ retryClosed \in BOOLEAN
        /\ ctxDone \in BOOLEAN /\ panicked \in BOOLEAN
    BY DEF Init
  <2>6. /\ closed \in SUBSET (1 .. pools)
        /\ cause \in {"none", "signal", "closed"}
        /\ server \in {"up", "down"}
    BY DEF Init
  <2> QED
    BY <2>1, <2>2, <2>3, <2>4, <2>5, <2>6 DEF TypeOK
<1>2. Ind
  BY DEF Init, Ind
<1> QED
  BY <1>1, <1>2

LEMMA CoreStep == Core /\ [Next]_vars => Core'
BY TypeStep, IndStep DEF Core

LEMMA Invariance == Spec => []IInv
<1>1. Init => IInv
  BY CoreInit DEF Init, IInv, SnapshotsStayUsable
<1>2. IInv /\ [Next]_vars => IInv'
  <2> SUFFICES ASSUME IInv, [Next]_vars
               PROVE  IInv'
    OBVIOUS
  <2>1. Core'
    BY CoreStep DEF IInv
  <2>2. (closed' = closed \/ shutdown') /\ (shutdown => shutdown')
    BY ClosedStep DEF IInv
  <2> QED
    BY <2>1, <2>2 DEF IInv, SnapshotsStayUsable
<1> QED
  BY <1>1, <1>2, PTL DEF Spec

-----------------------------------------------------------------------------
\* Types of the client's state hold for any number of callers and outages.
THEOREM TypeCorrect == Spec => []TypeOK
BY Invariance, PTL DEF IInv, Core

\* A panic is always preceded by a GracefulShutdown that closed the channel.
THEOREM PanicOnlyByCaller == Spec => []PanicNeedsCaller
<1>1. IInv => PanicNeedsCaller
  BY DEF IInv, Core, Ind, PanicNeedsCaller
<1> QED
  BY <1>1, Invariance, PTL

\* Under the fx lifecycle alone, no send ever meets a closed channel.
THEOREM SafeUnderFx == ASSUME Callers = {} PROVE Spec => []NoSendOnClosed
<1>1. IInv => NoSendOnClosed
  BY DEF IInv, Core, Ind, NoSendOnClosed
<1> QED
  BY <1>1, Invariance, PTL

\* RetryConnection connects only for an error the monitor sent, although it
\* also wakes when the channel is closed.
THEOREM ReconnectsOnlyOnSignal == Spec => []ReconnectOnlyOnSignal
<1>1. IInv => ReconnectOnlyOnSignal
  BY DEF IInv, Core, Ind, ReconnectOnlyOnSignal
<1> QED
  BY <1>1, Invariance, PTL

\* After OnStop no goroutine is left and the current pool is closed, however
\* many GracefulShutdown calls run beside it.
THEOREM StopLeavesNothing == Spec => []StopIsClean
<1>1. IInv => StopIsClean
  BY DEF IInv, Core, Ind, StopIsClean
<1> QED
  BY <1>1, Invariance, PTL

\* No pool that DB() handed out is closed before shutdown begins.
THEOREM SnapshotsSafe == Spec => []SnapshotsStayUsable
<1>1. IInv => SnapshotsStayUsable
  BY DEF IInv, Core, Ind, SnapshotsStayUsable
<1> QED
  BY <1>1, Invariance, PTL

-----------------------------------------------------------------------------
\* Every step is one of ManagedConnection, or does not concern it.
LEMMA ManagedStep == Core /\ [Next]_vars => [Managed!Next]_Managed!vars
<1> USE DEF Core, TypeOK, Ind, Ended, channels, poolVars, monVars, retryVars, stopVars,
            envVars, ChanCap, MonStates, RetryStates, StopStates, Suspect, Status,
            Managed!vars, Managed!Next
<1> SUFFICES ASSUME Core, [Next]_vars
             PROVE  Managed!Next \/ UNCHANGED Managed!vars
  OBVIOUS
<1>1. CASE OnStart
  BY <1>1 DEF OnStart
<1>2. CASE OnStop
  BY <1>2 DEF OnStop, Managed!Stop
<1>3. CASE StopWaited
  BY <1>3 DEF StopWaited, Managed!Stopped
<1>4. CASE StopClosePool
  BY <1>4 DEF StopClosePool
<1>5. CASE MonitorShutdown \/ MonitorCtxDone \/ MonitorTick
  BY <1>5 DEF MonitorShutdown, MonitorCtxDone, MonitorTick
<1>6. CASE MonitorPing
  BY <1>6 DEF MonitorPing, Managed!Report
<1>7. CASE MonitorSend
  BY <1>7 DEF MonitorSend
<1>8. CASE MonitorSendClosed
  BY <1>8 DEF MonitorSendClosed
<1>9. CASE MonitorReturn
  BY <1>9 DEF MonitorReturn
<1>10. CASE RetryStop
  BY <1>10 DEF RetryStop, Managed!Forget
<1>11. CASE RetryReceive
  BY <1>11 DEF RetryReceive
<1>12. CASE RetryConnect \/ RetryConnected \/ RetryFailed \/ RetryWake
  BY <1>12 DEF RetryConnect, RetryConnected, RetryFailed, RetryWake
<1>13. CASE RetryStore
  BY <1>13 DEF RetryStore, Managed!Replace
<1>14. ASSUME NEW c \in Callers, GsShutdown(c)
       PROVE  Managed!Next \/ UNCHANGED Managed!vars
  BY <1>14 DEF GsShutdown, GsUnchanged, Managed!Stop
<1>15. ASSUME NEW c \in Callers, GsStep(c)
       PROVE  Managed!Next \/ UNCHANGED Managed!vars
  BY <1>15 DEF GsStep, GsCloseRetry, GsLoad, GsClose, GsUnchanged
<1>16. CASE ServerDown \/ ServerUp
  BY <1>16 DEF ServerDown, ServerUp
<1>17. CASE CtxCancel
  BY <1>17 DEF CtxCancel, Managed!Stop
<1>18. CASE UNCHANGED vars
  BY <1>18 DEF vars
<1> QED
  BY <1>1, <1>2, <1>3, <1>4, <1>5, <1>6, <1>7, <1>8, <1>9, <1>10, <1>11, <1>12, <1>13,
     <1>14, <1>15, <1>16, <1>17, <1>18
  DEF Next, StopStep, MonitorStep, HealthStep, RetryStep, EnvStep, Terminated

\* The client implements ManagedConnection: the pool is replaced only for a failed
\* health check, and never once OnStop reached the closing of the pool, whoever
\* closes the channels and however many call GracefulShutdown.
THEOREM ImplementsManaged == Spec => ManagedSafely
<1>1. Init => Managed!Init
  BY DEF Init, Managed!Init, Suspect, Status
<1>2. IInv /\ [Next]_vars => [Managed!Next]_Managed!vars
  BY ManagedStep DEF IInv
<1> QED
  BY <1>1, <1>2, Invariance, PTL DEF Spec, ManagedSafely, Managed!SafeSpec

-----------------------------------------------------------------------------
\* The users' side: a pool is closed by a shutdown of the client or of a clone.
SessStates == {"idle", "loaded", "tx"}

SessionType ==
    /\ sess \in [Users -> SessStates]
    /\ snap \in [Users -> 1 .. pools]
    /\ said \in [Users -> {"none", "ok", "error", "closed"}]

SessionInd ==
    /\ closed # {} => shutdown \/ txClosed # {}
    /\ \A u \in Users : said[u] = "closed" => shutdown \/ txClosed # {}

SessionInv == Core /\ SessionType /\ SessionInd

LEMMA SessionStart == SessionInit => SessionInv
<1> SUFFICES ASSUME SessionInit
             PROVE  SessionInv
  OBVIOUS
<1>1. Core /\ closed = {} /\ pools = 1
  BY CoreInit DEF SessionInit, Init
<1> QED
  BY <1>1 DEF SessionInit, SessionInv, SessionType, SessionInd, SessStates

\* What the client does leaves the users where they are.
LEMMA ClientKeeps == SessionInv /\ ClientStep => SessionInv'
<1> SUFFICES ASSUME SessionInv, ClientStep
             PROVE  SessionInv'
  OBVIOUS
<1>1. Core /\ [Next]_vars /\ UNCHANGED <<sess, snap, said, txClosed>>
  BY DEF SessionInv, ClientStep
<1>2. Core'
  BY <1>1, CoreStep
<1>3. (closed' = closed \/ shutdown') /\ (shutdown => shutdown') /\ pools <= pools'
  BY <1>1, ClosedStep
<1>4. pools \in Nat /\ pools' \in Nat
  BY <1>1, <1>2 DEF Core, TypeOK
<1>5. snap' \in [Users -> 1 .. pools']
  BY <1>1, <1>3, <1>4 DEF SessionInv, SessionType
<1> QED
  BY <1>1, <1>2, <1>3, <1>5 DEF SessionInv, SessionType, SessionInd

\* What a user does keeps the invariant; only the shutdown of a clone touches
\* the client, and of it only the closed pools.
LEMMA UserKeeps ==
    ASSUME SessionInv, NEW u \in Users, UserStep(u)
    PROVE  SessionInv'
<1> USE DEF SessionType, SessionInd, SessStates, Ends, Return
<1>1. Core /\ SessionType /\ SessionInd
  BY DEF SessionInv
<1>t. client \in 1 .. pools /\ pools \in Nat \ {0} /\ snap[u] \in 1 .. pools
  BY <1>1 DEF Core, TypeOK
<1>2. ASSUME ~TxShutdown(u)
      PROVE  Core' /\ UNCHANGED <<pools, closed, shutdown, txClosed>>
  <2>1. UNCHANGED vars /\ UNCHANGED txClosed
    BY <1>2 DEF UserStep, Load, Execute, Begin, BeginFails, Commit, Rollback
  <2>2. UNCHANGED <<pools, closed, shutdown>>
    BY <2>1 DEF vars, poolVars, channels
  <2> QED
    BY <1>1, <2>1, <2>2, CoreStep
<1>3. CASE Load(u)
  BY <1>1, <1>2, <1>3, <1>t DEF Load, TxShutdown, SessionInv
<1>4. CASE Execute(u) \/ BeginFails(u)
  <2>1. ~TxShutdown(u) /\ sess[u] = "loaded"
    BY <1>4 DEF Execute, BeginFails, TxShutdown
  <2>2. PICK a \in {"ok", "error", "closed"} :
            said' = [said EXCEPT ![u] = a] /\ (a = "closed" => closed # {})
    BY <1>4 DEF Execute, BeginFails, Refusal
  <2>3. /\ sess' = [sess EXCEPT ![u] = "idle"] /\ snap' = [snap EXCEPT ![u] = 1]
    BY <1>4 DEF Execute, BeginFails
  <2> QED
    BY <1>1, <1>2, <1>t, <2>1, <2>2, <2>3 DEF SessionInv
<1>5. CASE Begin(u)
  BY <1>1, <1>2, <1>5 DEF Begin, TxShutdown, SessionInv
<1>6. CASE TxShutdown(u)
  <2>1. closed' = closed \cup {snap[u]} /\ u \in txClosed'
    BY <1>6 DEF TxShutdown
  <2>2. UNCHANGED <<shutdown, pools, sess, snap, said>>
    BY <1>6 DEF TxShutdown, channels
  <2>3. TypeOK'
    BY <1>1, <1>6, <1>t DEF TxShutdown, Core, TypeOK, channels, monVars, retryVars, stopVars, envVars
  <2>4. Ind'
    BY <1>1, <1>6 DEF TxShutdown, Core, Ind, Ended, Passed, channels, monVars, retryVars, stopVars,
                     envVars
  <2> QED
    BY <1>1, <2>1, <2>2, <2>3, <2>4 DEF SessionInv, Core
<1>7. CASE Commit(u) \/ Rollback(u)
  <2>1. ~TxShutdown(u)
    BY <1>1, <1>7 DEF Commit, Rollback, TxShutdown
  <2>2. PICK a \in {"ok", "error"} : Return(u, a)
    BY <1>7 DEF Commit, Rollback
  <2> QED
    BY <1>1, <1>2, <1>t, <2>1, <2>2 DEF SessionInv
<1> QED
  BY <1>3, <1>4, <1>5, <1>6, <1>7 DEF UserStep

LEMMA SessionInvariance == SessionSpec => []SessionInv
<1>1. SessionInv /\ [SessionNext]_<<vars, sessVars>> => SessionInv'
  <2> SUFFICES ASSUME SessionInv, [SessionNext]_<<vars, sessVars>>
               PROVE  SessionInv'
    OBVIOUS
  <2>1. CASE ClientStep
    BY <2>1, ClientKeeps
  <2>2. ASSUME NEW u \in Users, UserStep(u)
        PROVE  SessionInv'
    BY <2>2, UserKeeps
  <2>3. CASE UNCHANGED <<vars, sessVars>>
    <3>1. Core'
      BY <2>3, CoreStep DEF SessionInv
    <3> QED
      BY <2>3, <3>1 DEF SessionInv, SessionType, SessionInd, sessVars, vars, poolVars, channels
  <2> QED
    BY <2>1, <2>2, <2>3 DEF SessionNext
<1> QED
  BY SessionStart, <1>1, PTL DEF SessionSpec

\* No operation finds its pool closed because the client reconnected.
THEOREM ReconnectionClosesNoPool == SessionSpec => []ClosedOnlyByShutdown
<1>1. SessionInv => ClosedOnlyByShutdown
  BY DEF SessionInv, SessionInd, ClosedOnlyByShutdown
<1> QED
  BY <1>1, SessionInvariance, PTL

\* Users that shut down the clone of a transaction cannot make the monitor
\* panic either.
THEOREM SessionPanicOnlyByCaller == SessionSpec => []PanicNeedsCaller
<1>1. SessionInv => PanicNeedsCaller
  BY DEF SessionInv, Core, Ind, PanicNeedsCaller
<1> QED
  BY <1>1, SessionInvariance, PTL

\* With its users the client still implements ManagedConnection: also when a
\* callback closes the current pool, the pool is replaced only for a failed
\* health check.
THEOREM SessionImplementsManaged == SessionSpec => ManagedSafely
<1>1. SessionInit => Managed!Init
  BY DEF SessionInit, Init, Managed!Init, Suspect, Status
<1>2. SessionInv /\ [SessionNext]_<<vars, sessVars>> => [Managed!Next]_Managed!vars
  <2> SUFFICES ASSUME SessionInv, [SessionNext]_<<vars, sessVars>>
               PROVE  [Managed!Next]_Managed!vars
    OBVIOUS
  <2>1. CASE [Next]_vars
    BY <2>1, ManagedStep DEF SessionInv
  <2>2. ASSUME NEW u \in Users, TxShutdown(u)
        PROVE  [Managed!Next]_Managed!vars
    BY <2>2 DEF TxShutdown, Managed!vars, Suspect, Status, channels, monVars, retryVars, stopVars,
                envVars
  <2>3. ASSUME NEW u \in Users, UserStep(u), ~TxShutdown(u)
        PROVE  UNCHANGED vars
    BY <2>3 DEF UserStep, Load, Execute, Begin, BeginFails, Commit, Rollback,
                Return
  <2> QED
    BY <2>1, <2>2, <2>3 DEF SessionNext, ClientStep
<1> QED
  BY <1>1, <1>2, SessionInvariance, PTL DEF SessionSpec, ManagedSafely, Managed!SafeSpec
=============================================================================
