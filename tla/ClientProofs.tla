---------------------------- MODULE ClientProofs ----------------------------
(***************************************************************************)
(* Two parts of the clients that have no state in common: the connection   *)
(* of the object store client, and the errors that all four packages       *)
(* translate.                                                              *)
(*                                                                         *)
(* MinioReconnect, for every number of outages: the pointers are of one    *)
(* pair, OnStop leaves nothing behind, and the client implements           *)
(* ManagedConnection.  Ind says who is gone when: a goroutine ends only    *)
(* after shutdown or the end of the context, and OnStop is done only after *)
(* both have ended.                                                        *)
(*                                                                         *)
(* ErrorTranslation, for every number of layers: the decision on a retry   *)
(* does not depend on who translates and how often.  In each package the   *)
(* phrases that lead to a retry are apart from the others (Separates), so  *)
(* a message of the one kind never reaches a case of the other, whatever   *)
(* case comes first.  ErrInv says that an error is what the driver         *)
(* returned, perhaps with words of wrappers, or one of the package's own   *)
(* that decides as what the driver returned does.                          *)
(***************************************************************************)
EXTENDS MinioReconnect, ErrorTranslation, WellFoundedInduction, TLAPS

-----------------------------------------------------------------------------
(* The connection of the object store client. *)

Ended == shutdown \/ ctxDone

Ind ==
    /\ mon = "idle" => retry = "idle"
    /\ stop \in {"wait", "done"} => shutdown
    /\ stop = "done" => mon = "done" /\ retry = "done"
    /\ PairMatches

IInv == TypeOK /\ Ind

-----------------------------------------------------------------------------
\* Every step keeps the types and Ind.
LEMMA IndStep == IInv /\ [Next]_vars => IInv'
<1> USE OutagesAssumption
    DEF IInv, TypeOK, Ind, PairMatches, pointers, envVars, SignalCap,
        MonStates, RetryStates, StopStates
<1> SUFFICES ASSUME IInv, [Next]_vars
             PROVE  IInv'
  OBVIOUS
<1>1. CASE OnStart \/ OnStop \/ GracefulShutdown
  <2>1. CASE OnStart
    BY <2>1 DEF OnStart
  <2>2. CASE OnStop
    BY <2>2 DEF OnStop
  <2>3. CASE GracefulShutdown
    BY <2>3 DEF GracefulShutdown
  <2> QED
    BY <1>1, <2>1, <2>2, <2>3
<1>2. CASE StopStep
  BY <1>2 DEF StopStep, StopShutdown, StopWaited
<1>3. CASE MonitorStep
  <2>1. CASE MonitorTick \/ MonitorStop
    BY <2>1 DEF MonitorTick, MonitorStop
  <2>2. CASE MonitorCheck
    BY <2>2 DEF MonitorCheck
  <2>3. CASE MonitorSend
    BY <2>3 DEF MonitorSend
  <2> QED
    BY <1>3, <2>1, <2>2, <2>3 DEF MonitorStep
<1>4. CASE RetryStep
  <2>1. CASE RetryStop \/ RetryConnect \/ RetryWake
    BY <2>1 DEF RetryStop, RetryConnect, RetryWake
  <2>2. CASE RetryReceive
    BY <2>2 DEF RetryReceive
  <2>3. CASE RetryValidated \/ RetryInvalid
    BY <2>3 DEF RetryValidated, RetryInvalid
  <2>4. CASE RetryStore
    BY <2>4 DEF RetryStore
  <2>5. CASE RetryStoreCore
    BY <2>5 DEF RetryStoreCore
  <2> QED
    BY <1>4, <2>1, <2>2, <2>3, <2>4, <2>5 DEF RetryStep
<1>5. CASE EnvStep
  <2>1. CASE ServerDown
    BY <2>1 DEF ServerDown
  <2>2. CASE ServerUp
    BY <2>2 DEF ServerUp
  <2>3. CASE CtxCancel
    BY <2>3 DEF CtxCancel
  <2> QED
    BY <1>5, <2>1, <2>2, <2>3 DEF EnvStep
<1>6. CASE UNCHANGED vars
  BY <1>6 DEF vars
<1> QED
  BY <1>1, <1>2, <1>3, <1>4, <1>5, <1>6 DEF Next, Terminated

LEMMA Invariance == Spec => []IInv
<1>1. Init => IInv
  <2> SUFFICES ASSUME Init
               PROVE  TypeOK /\ Ind
    BY DEF IInv
  <2>1. pending \in 0 .. SignalCap /\ outages \in 0 .. MaxOutages
    BY OutagesAssumption DEF Init, SignalCap
  <2>2. mon \in MonStates /\ retry \in RetryStates /\ stop \in StopStates
    BY DEF Init, MonStates, RetryStates, StopStates
  <2>3. shutdown \in BOOLEAN /\ ctxDone \in BOOLEAN
    BY DEF Init
  <2>4. gs \in {"idle", "done"} /\ server \in {"up", "down"}
    BY DEF Init
  <2>5. client \in Nat \ {0} /\ core \in Nat \ {0}
    BY DEF Init
  <2>6. TypeOK
    BY <2>1, <2>2, <2>3, <2>4, <2>5 DEF TypeOK
  <2>7. Ind
    BY DEF Init, Ind, PairMatches
  <2> QED
    BY <2>6, <2>7
<1>2. IInv /\ [Next]_vars => IInv'
  BY IndStep
<1> QED
  BY <1>1, <1>2, PTL DEF Spec

-----------------------------------------------------------------------------
\* Types of the client's state hold for any number of outages.
THEOREM TypeCorrect == Spec => []TypeOK
BY Invariance, PTL DEF IInv

\* The standard and the core client are of one pair, but between two stores.
THEOREM PairsMatch == Spec => []PairMatches
<1>1. IInv => PairMatches
  BY DEF IInv, Ind
<1> QED
  BY <1>1, Invariance, PTL

\* After OnStop no goroutine is left.
THEOREM StopLeavesNothing == Spec => []StopIsClean
<1>1. IInv => StopIsClean
  BY DEF IInv, Ind, StopIsClean
<1> QED
  BY <1>1, Invariance, PTL

-----------------------------------------------------------------------------
\* Every step is one of ManagedConnection, or does not concern it.
LEMMA ManagedStep == IInv /\ [Next]_vars => [Managed!Next]_Managed!vars
<1> USE DEF IInv, TypeOK, Ind, PairMatches, pointers, envVars, SignalCap,
            MonStates, RetryStates, StopStates, Suspect, Status, Managed!vars, Managed!Next
<1> SUFFICES ASSUME IInv, [Next]_vars
             PROVE  Managed!Next \/ UNCHANGED Managed!vars
  OBVIOUS
<1>1. CASE OnStart
  BY <1>1 DEF OnStart
<1>2. CASE OnStop
  BY <1>2 DEF OnStop
<1>3. CASE GracefulShutdown
  BY <1>3 DEF GracefulShutdown, Managed!Stop
<1>4. CASE StopShutdown
  BY <1>4 DEF StopShutdown, Managed!Stop
<1>5. CASE StopWaited
  BY <1>5 DEF StopWaited, Managed!Stopped
<1>6. CASE MonitorTick \/ MonitorStop
  BY <1>6 DEF MonitorTick, MonitorStop
<1>7. CASE MonitorCheck
  BY <1>7 DEF MonitorCheck, Managed!Report
<1>8. CASE MonitorSend
  BY <1>8 DEF MonitorSend
<1>9. CASE RetryStop
  BY <1>9 DEF RetryStop, Managed!Forget
<1>10. CASE RetryReceive
  BY <1>10 DEF RetryReceive
<1>11. CASE RetryConnect \/ RetryValidated \/ RetryInvalid \/ RetryWake
  BY <1>11 DEF RetryConnect, RetryValidated, RetryInvalid, RetryWake
<1>12. CASE RetryStore
  BY <1>12 DEF RetryStore, Managed!Replace
<1>13. CASE RetryStoreCore
  BY <1>13 DEF RetryStoreCore
<1>14. CASE CtxCancel
  BY <1>14 DEF CtxCancel, Managed!Stop
<1>15. CASE ServerDown \/ ServerUp \/ UNCHANGED vars
  BY <1>15 DEF ServerDown, ServerUp, vars
<1> QED
  BY <1>1, <1>2, <1>3, <1>4, <1>5, <1>6, <1>7, <1>8, <1>9, <1>10, <1>11, <1>12,
     <1>13, <1>14, <1>15
  DEF Next, StopStep, MonitorStep, RetryStep, EnvStep, Terminated

\* The client replaces its pair of clients only for a failed check and never
\* after OnStop: it implements ManagedConnection.
THEOREM ImplementsManaged == Spec => ManagedSafely
<1>1. Init => Managed!Init
  BY DEF Init, Managed!Init, Suspect, Status
<1> QED
  BY <1>1, ManagedStep, Invariance, PTL DEF Spec, ManagedSafely, Managed!SafeSpec

-----------------------------------------------------------------------------
(* The errors of the packages. *)

Txt == INSTANCE ErrorText

\* A case of a switch leads to an error of R by phrases of T alone, and to another
\* one by phrases that are not of T, nor all of N.
Splits(c, R, T, N) ==
    \A a \in c.any :
        IF c.gives \in R THEN a # {} /\ a \subseteq T ELSE a \cap T = {} /\ ~(a \subseteq N)

Separates(C, R, T, N) == \A i \in DOMAIN C : Splits(C[i], R, T, N)

-----------------------------------------------------------------------------
\* The least number of a set.
LEMMA Least ==
    ASSUME NEW S \in SUBSET Nat, S # {}
    PROVE  Txt!Min(S) \in S /\ \A m \in S : Txt!Min(S) <= m
<1>1. \E n \in S : \A m \in S : ~ (<<m, n>> \in OpToRel(<, Nat))
  BY NatLessThanWellFounded, WFMin
<1>2. \E n \in S : \A m \in S : n <= m
  <2>1. PICK n \in S : \A m \in S : ~ (<<m, n>> \in OpToRel(<, Nat))
    BY <1>1
  <2>2. \A m \in S : ~ (m < n)
    BY <2>1 DEF OpToRel
  <2> QED
    BY <2>2
<1> QED
  BY <1>2 DEF Txt!Min

LEMMA OwnName == \A n, TX : Txt!Own(n, TX).is = n
BY DEF Txt!Own, Txt!Error

\* What the switch over a message does: the first case that applies.
LEMMA FirstMatch ==
    ASSUME NEW C, NEW TX, NEW e, DOMAIN C \subseteq Nat
    PROVE  \/ Txt!Matching(C, e.text) = {} /\ Txt!ByMessage(e, C, TX) = e
           \/ \E i \in Txt!Matching(C, e.text) :
                /\ \A j \in Txt!Matching(C, e.text) : i <= j
                /\ Txt!ByMessage(e, C, TX) = Txt!Own(C[i].gives, TX)
                /\ Txt!ByMessage(e, C, TX).is = C[i].gives
<1>1. Txt!Matching(C, e.text) \in SUBSET Nat
  BY DEF Txt!Matching
<1>2. CASE Txt!Matching(C, e.text) = {}
  BY <1>2 DEF Txt!ByMessage
<1>3. CASE Txt!Matching(C, e.text) # {}
  <2>1. /\ Txt!Min(Txt!Matching(C, e.text)) \in Txt!Matching(C, e.text)
        /\ \A j \in Txt!Matching(C, e.text) : Txt!Min(Txt!Matching(C, e.text)) <= j
    BY <1>1, <1>3, Least
  <2>2. Txt!ByMessage(e, C, TX) = Txt!Own(C[Txt!Min(Txt!Matching(C, e.text))].gives, TX)
    BY <1>3 DEF Txt!ByMessage
  <2> QED
    BY <2>1, <2>2, OwnName
<1> QED
  BY <1>2, <1>3

\* Where the phrases are separated, a message without those of T is not taken for an
\* error of R, and a message of those of T alone is.
LEMMA Decides ==
    ASSUME NEW C, NEW TX, NEW R, NEW T, NEW N, NEW e,
           DOMAIN C \subseteq Nat, Separates(C, R, T, N)
    PROVE  /\ e.text \cap T = {} /\ e.is \notin R => Txt!ByMessage(e, C, TX).is \notin R
           /\ e.text \subseteq T \cup N /\ e.is \in R => Txt!ByMessage(e, C, TX).is \in R
           /\ e.text \subseteq T /\ Txt!Matching(C, e.text) # {}
                => Txt!ByMessage(e, C, TX).is \in R
<1> DEFINE d == Txt!ByMessage(e, C, TX)
<1>1. CASE Txt!Matching(C, e.text) = {} /\ d = e
  BY <1>1
<1>2. CASE \E i \in Txt!Matching(C, e.text) : d.is = C[i].gives
  <2>1. PICK i \in Txt!Matching(C, e.text) : d.is = C[i].gives
    BY <1>2
  <2>2. i \in DOMAIN C /\ \E a \in C[i].any : a \subseteq e.text
    BY DEF Txt!Matching
  <2>3. PICK a \in C[i].any : a \subseteq e.text
    BY <2>2
  <2>4. IF C[i].gives \in R THEN a # {} /\ a \subseteq T ELSE a \cap T = {} /\ ~(a \subseteq N)
    BY <2>2 DEF Separates, Splits
  <2> QED
    BY <2>1, <2>3, <2>4
<1> QED
  BY <1>1, <1>2, FirstMatch

LEMMA DecidesAsBefore ==
    ASSUME NEW C, NEW TX, NEW R, NEW T, NEW N, NEW e,
           DOMAIN C \subseteq Nat, Separates(C, R, T, N),
           e.is \in R => e.text \subseteq T \cup N, e.is \notin R => e.text \cap T = {}
    PROVE  Txt!ByMessage(e, C, TX).is \in R <=> e.is \in R
<1> DEFINE d == Txt!ByMessage(e, C, TX)
<1>1. CASE Txt!Matching(C, e.text) = {} /\ d = e
  BY <1>1
<1>2. ASSUME NEW i \in Txt!Matching(C, e.text), d.is = C[i].gives
      PROVE  d.is \in R <=> e.is \in R
  <2>1. PICK a \in C[i].any : i \in DOMAIN C /\ a \subseteq e.text
    BY DEF Txt!Matching
  <2>2. IF C[i].gives \in R THEN a # {} /\ a \subseteq T ELSE a \cap T = {} /\ ~(a \subseteq N)
    BY <2>1 DEF Separates, Splits
  <2> QED
    BY <1>2, <2>1, <2>2
<1> QED
  BY <1>1, <1>2, FirstMatch

\* Words added to a message change nothing where neither the cases they add nor later
\* ones lead to an error of R.
LEMMA AddedWords ==
    ASSUME NEW C, NEW TX, NEW R, NEW e, NEW r,
           DOMAIN C \subseteq Nat, e.is = r.is, r.is \notin R,
           Txt!Matching(C, r.text) \subseteq Txt!Matching(C, e.text),
           \A i \in Txt!Matching(C, e.text) \ Txt!Matching(C, r.text) :
              \A j \in DOMAIN C : i <= j => C[j].gives \notin R
    PROVE  Txt!ByMessage(e, C, TX).is \in R <=> Txt!ByMessage(r, C, TX).is \in R
<1> DEFINE HE == Txt!Matching(C, e.text)
           HR == Txt!Matching(C, r.text)
<1>1. HE \subseteq DOMAIN C /\ HR \subseteq DOMAIN C
  BY DEF Txt!Matching
<1>2. \/ HE = {} /\ Txt!ByMessage(e, C, TX).is = e.is
      \/ \E i \in HE : (\A j \in HE : i <= j) /\ Txt!ByMessage(e, C, TX).is = C[i].gives
  BY FirstMatch
<1>3. \/ HR = {} /\ Txt!ByMessage(r, C, TX).is = r.is
      \/ \E i \in HR : (\A j \in HR : i <= j) /\ Txt!ByMessage(r, C, TX).is = C[i].gives
  BY FirstMatch
<1>4. /\ HR \subseteq HE
      /\ \A i \in HE \ HR, j \in DOMAIN C : i <= j => C[j].gives \notin R
  OBVIOUS
<1> HIDE DEF HE, HR
<1>5. CASE HE = {}
  BY <1>2, <1>3, <1>4, <1>5
<1>6. ASSUME NEW i \in HE, \A j \in HE : i <= j, Txt!ByMessage(e, C, TX).is = C[i].gives
      PROVE  Txt!ByMessage(e, C, TX).is \in R <=> Txt!ByMessage(r, C, TX).is \in R
  <2>1. CASE HR = {}
    BY <1>1, <1>3, <1>4, <1>6, <2>1
  <2>2. ASSUME NEW j \in HR, \A l \in HR : j <= l, Txt!ByMessage(r, C, TX).is = C[j].gives
        PROVE  Txt!ByMessage(e, C, TX).is \in R <=> Txt!ByMessage(r, C, TX).is \in R
    <3>1. i \in Nat /\ j \in Nat /\ i <= j
      BY <1>1, <1>4, <1>6
    <3>2. CASE i \in HR
      <4>1. i = j
        BY <2>2, <3>1, <3>2
      <4> QED
        BY <1>6, <2>2, <4>1
    <3>3. CASE i \notin HR
      BY <1>1, <1>4, <1>6, <2>2, <3>1, <3>3
    <3> QED
      BY <3>2, <3>3
  <2> QED
    BY <1>3, <2>1, <2>2
<1> QED
  BY <1>2, <1>5, <1>6

-----------------------------------------------------------------------------
\* By the tables of the packages: the phrases that lead to a retry, those that lead to
\* an error IsPermanentError knows, and the names of the errors TranslateError returns.

PostgresTransient ==
    {"connection_refused", "connection_reset", "too_many_clients",
     "connection_timed_out", "server_closed_the_connection", "statement_timeout",
     "canceling_statement_due_to_statement_timeout", "lock_timeout", "timeout",
     "idle_in_transaction", "deadlock", "could_not_obtain_lock", "internal_error"}

MariaDBTransient ==
    {"connection_refused", "connection_reset", "too_many_connections",
     "connection_timed_out", "server_has_gone_away", "broken_pipe", "deadlock",
     "lock_wait_timeout", "try_restarting_transaction"}

MinioTransient ==
    {"connection_refused", "connection_reset", "connection_timeout", "connection_failed",
     "network_is_unreachable", "no_route_to_host", "host_is_down", "timeout",
     "deadline_exceeded", "request_timeout", "client_timeout", "internal_server_error",
     "service_unavailable", "server_error", "bad_gateway", "gateway_timeout",
     "too_many_requests", "rate_limit", "slow_down"}

KafkaTransient ==
    {"connection_refused", "connection_reset", "connection_closed",
     "broker_not_available", "replica_not_available", "leader_not_available",
     "not_leader_for_partition", "request_timed_out", "timeout", "network", "dial",
     "io_timeout", "group_coordinator_not_available", "not_coordinator_for_group",
     "not_group_coordinator", "rebalance_in_progress"}

MinioLasting ==
    {"key_does_not_exist", "object_not_found", "no_such_key", "bucket_does_not_exist",
     "bucket_not_found", "no_such_bucket", "unauthorized", "invalid_credentials",
     "signature_mismatch", "invalid_access_key", "access_denied", "forbidden",
     "invalid_bucket_name", "invalid_object_name", "invalid_key_name",
     "invalid_argument", "invalid_request", "bad_request", "invalid_range",
     "invalid_checksum", "bad_digest", "malformed_xml", "invalid_xml", "canceled",
     "cancelled", "context_canceled", "context_cancelled"}

KafkaLasting ==
    {"authentication_failed", "sasl_authentication_failed", "authorization_failed",
     "invalid_credentials", "topic_not_found", "unknown_topic", "topic_already_exists",
     "partition_not_found", "unknown_partition", "invalid_partition", "invalid_group_id",
     "invalid_message", "invalid_request", "invalid_config", "unsupported_version",
     "context_canceled", "context_cancelled"}

SQLNames ==
    {"ErrBackupFailed", "ErrCheckConstraintViolation", "ErrColumnNotFound",
     "ErrConfigurationError", "ErrConnectionFailed", "ErrConnectionLost",
     "ErrConstraintViolation", "ErrCursorNotFound", "ErrDataTooLong",
     "ErrDatabaseNotFound", "ErrDeadlock", "ErrDiskFull", "ErrDivisionByZero",
     "ErrDuplicateKey", "ErrForeignKey", "ErrFunctionNotFound", "ErrIdleInTransaction",
     "ErrIndexCorruption", "ErrIndexNotFound", "ErrInsufficientPrivileges",
     "ErrInternalError", "ErrInvalidCursor", "ErrInvalidData", "ErrInvalidDataType",
     "ErrInvalidJSON", "ErrInvalidPassword", "ErrInvalidQuery", "ErrLockTimeout",
     "ErrMigrationFailed", "ErrNotNullViolation", "ErrNumericOverflow",
     "ErrPermissionDenied", "ErrProtocolViolation", "ErrQueryTimeout",
     "ErrRecordNotFound", "ErrRestoreFailed", "ErrSchemaNotFound", "ErrSchemaValidation",
     "ErrSequenceNotFound", "ErrSerializationFailure", "ErrStatementTimeout",
     "ErrSystemError", "ErrTableNotFound", "ErrTooManyConnections",
     "ErrTransactionFailed", "ErrTriggerNotFound", "ErrUnsupportedOperation",
     "ErrViewNotFound"}

MinioNames ==
    {"ErrAccessDenied", "ErrBucketAlreadyExists", "ErrBucketNotEmpty",
     "ErrBucketNotFound", "ErrCORSError", "ErrCancelled", "ErrConfigurationError",
     "ErrConnectionFailed", "ErrConnectionLost", "ErrCredentialsExpired",
     "ErrInvalidArgument", "ErrInvalidBucketName", "ErrInvalidChecksum",
     "ErrInvalidContentType", "ErrInvalidCredentials", "ErrInvalidEncryption",
     "ErrInvalidMetadata", "ErrInvalidObjectName", "ErrInvalidPart", "ErrInvalidRange",
     "ErrInvalidStorageClass", "ErrInvalidUploadID", "ErrInvalidVersion",
     "ErrLifecycleError", "ErrLockConfigurationError", "ErrLoggingError",
     "ErrMalformedXML", "ErrNetworkError", "ErrNotImplemented", "ErrNotificationError",
     "ErrObjectLocked", "ErrObjectNotFound", "ErrObjectTooLarge", "ErrPartTooSmall",
     "ErrPolicyError", "ErrPreconditionFailed", "ErrQuotaExceeded",
     "ErrReplicationError", "ErrRetentionPolicyError", "ErrServerError",
     "ErrServiceUnavailable", "ErrTaggingError", "ErrTimeout", "ErrTooManyRequests",
     "ErrUnknownError", "ErrVersioningNotEnabled", "ErrWebsiteError"}

KafkaNames ==
    {"ErrAuthenticationFailed", "ErrAuthorizationFailed", "ErrBrokerNotAvailable",
     "ErrConnectionFailed", "ErrConnectionLost", "ErrContextCanceled",
     "ErrContextDeadlineExceeded", "ErrDuplicateSequence",
     "ErrGroupCoordinatorNotAvailable", "ErrInvalidCommitOffset", "ErrInvalidConfig",
     "ErrInvalidCredentials", "ErrInvalidGroupID", "ErrInvalidMessage",
     "ErrInvalidMessageSize", "ErrInvalidPartition", "ErrInvalidProducerEpoch",
     "ErrInvalidReplicationFactor", "ErrInvalidRequest", "ErrInvalidSessionTimeout",
     "ErrInvalidTransactionState", "ErrInvalidTxnState", "ErrLeaderNotAvailable",
     "ErrMessageTooLarge", "ErrNetworkError", "ErrNotGroupCoordinator",
     "ErrNotLeaderForPartition", "ErrOffsetOutOfRange", "ErrOutOfOrderSequence",
     "ErrPartitionNotFound", "ErrProducerFenced", "ErrRebalanceInProgress",
     "ErrReplicaNotAvailable", "ErrRequestTimedOut", "ErrTopicAlreadyExists",
     "ErrTopicNotFound", "ErrTransactionCoordinatorFenced", "ErrUnknownMemberID",
     "ErrUnsupportedForMessageFormat", "ErrUnsupportedVersion"}

GormCodes ==
    {"gorm.ErrDryRunModeUnsupported", "gorm.ErrDuplicatedKey", "gorm.ErrEmptySlice",
     "gorm.ErrForeignKeyViolated", "gorm.ErrInvalidDB", "gorm.ErrInvalidData",
     "gorm.ErrInvalidField", "gorm.ErrInvalidTransaction", "gorm.ErrInvalidValue",
     "gorm.ErrInvalidValueOfLength", "gorm.ErrMissingWhereClause",
     "gorm.ErrModelValueRequired", "gorm.ErrNotImplemented",
     "gorm.ErrPrimaryKeyRequired", "gorm.ErrRecordNotFound",
     "gorm.ErrUnsupportedRelation"}

UrlPhrases ==
    {"url_connection_refused", "url_connection_reset", "url_dial", "url_other",
     "url_read", "url_timeout", "url_write"}

\* A case that lists single phrases, and one that asks for two.
LEMMA PostgresSays ==
    ASSUME NEW n, NEW S, NEW R, NEW T, NEW N
    PROVE  IF n \in R THEN S \subseteq T => Splits(PG!Says(n, S), R, T, N)
                      ELSE S \cap (T \cup N) = {} => Splits(PG!Says(n, S), R, T, N)
BY DEF PG!Says, Splits

LEMMA PostgresBoth ==
    ASSUME NEW n, NEW p, NEW q, NEW R, NEW T, NEW N
    PROVE  n \notin R /\ p \notin T /\ q \notin T \cup N
               => Splits(PG!Both(n, p, q), R, T, N)
BY DEF PG!Both, Splits

LEMMA MariaDBSays ==
    ASSUME NEW n, NEW S, NEW R, NEW T, NEW N
    PROVE  IF n \in R THEN S \subseteq T => Splits(MY!Says(n, S), R, T, N)
                      ELSE S \cap (T \cup N) = {} => Splits(MY!Says(n, S), R, T, N)
BY DEF MY!Says, Splits

LEMMA MariaDBBoth ==
    ASSUME NEW n, NEW p, NEW q, NEW R, NEW T, NEW N
    PROVE  n \notin R /\ p \notin T /\ q \notin T \cup N
               => Splits(MY!Both(n, p, q), R, T, N)
BY DEF MY!Both, Splits

LEMMA MinioSays ==
    ASSUME NEW n, NEW S, NEW R, NEW T
    PROVE  IF n \in R THEN S \subseteq T => Splits(S3!Says(n, S), R, T, {})
                      ELSE S \cap T = {} => Splits(S3!Says(n, S), R, T, {})
BY DEF S3!Says, Splits

LEMMA KafkaSays ==
    ASSUME NEW n, NEW S, NEW R, NEW T
    PROVE  IF n \in R THEN S \subseteq T => Splits(KA!Says(n, S), R, T, {})
                      ELSE S \cap T = {} => Splits(KA!Says(n, S), R, T, {})
BY DEF KA!Says, Splits

\* The switch of each package keeps what may pass apart from the rest, and what lasts.
LEMMA PostgresSwitch ==
    /\ DOMAIN PG!Cases = 1 .. 44
    /\ Separates(PG!Cases, PG!Retryable, PostgresTransient, {"database"})
    /\ Separates(PG!Cases, {}, {}, {})
<1>1. DOMAIN PG!Cases = 1 .. 44
  BY DEF PG!Cases
<1>2. Separates(PG!Cases, PG!Retryable, PostgresTransient, {"database"})
  BY <1>1, PostgresSays, PostgresBoth DEF PG!Cases, PG!Retryable, PostgresTransient, Separates
<1>3. Separates(PG!Cases, {}, {}, {})
  BY <1>1, PostgresSays, PostgresBoth DEF PG!Cases, Separates
<1> QED
  BY <1>1, <1>2, <1>3

LEMMA MariaDBSwitch ==
    /\ DOMAIN MY!Cases = 1 .. 25
    /\ Separates(MY!Cases, MY!Retryable, MariaDBTransient, {})
    /\ Separates(MY!Cases, {}, {}, {})
<1>1. DOMAIN MY!Cases = 1 .. 25
  BY DEF MY!Cases
<1>2. Separates(MY!Cases, MY!Retryable, MariaDBTransient, {})
  BY <1>1, MariaDBSays, MariaDBBoth DEF MY!Cases, MY!Retryable, MariaDBTransient, Separates
<1>3. Separates(MY!Cases, {}, {}, {})
  BY <1>1, MariaDBSays, MariaDBBoth DEF MY!Cases, Separates
<1> QED
  BY <1>1, <1>2, <1>3

LEMMA MinioSwitch ==
    /\ DOMAIN S3!Cases = 1 .. 37
    /\ Separates(S3!Cases, S3!Retryable, MinioTransient, {})
    /\ Separates(S3!Cases, S3!Permanent, MinioLasting, {})
<1>1. DOMAIN S3!Cases = 1 .. 37
  BY DEF S3!Cases
<1>2. Separates(S3!Cases, S3!Retryable, MinioTransient, {})
  BY <1>1, MinioSays DEF S3!Cases, S3!Retryable, MinioTransient, Separates
<1>3. Separates(S3!Cases, S3!Permanent, MinioLasting, {})
  BY <1>1, MinioSays DEF S3!Cases, S3!Permanent, MinioLasting, Separates
<1> QED
  BY <1>1, <1>2, <1>3

LEMMA KafkaSwitch ==
    /\ DOMAIN KA!Cases = 1 .. 40
    /\ Separates(KA!Cases, KA!Retryable, KafkaTransient, {})
    /\ Separates(KA!Cases, KA!Permanent, KafkaLasting, {})
<1>1. DOMAIN KA!Cases = 1 .. 40
  BY DEF KA!Cases
<1>2. Separates(KA!Cases, KA!Retryable, KafkaTransient, {})
  BY <1>1, KafkaSays DEF KA!Cases, KA!Retryable, KafkaTransient, Separates
<1>3. Separates(KA!Cases, KA!Permanent, KafkaLasting, {})
  BY <1>1, KafkaSays DEF KA!Cases, KA!Permanent, KafkaLasting, Separates
<1> QED
  BY <1>1, <1>2, <1>3

\* The packages' own messages, translated once more, lead to a retry or not as before.
\* KafkaOdd are the exceptions.
KafkaOdd == {"ErrInvalidSessionTimeout", "ErrInvalidMessageSize", "ErrReplicaNotAvailableError"}

LEMMA PostgresTexts ==
    \A n \in DOMAIN PG!Texts :
        IF n \in PG!Retryable THEN PG!Texts[n] \subseteq PostgresTransient \cup {"database"}
                              ELSE PG!Texts[n] \cap PostgresTransient = {}
BY DEF PG!Texts, PG!Retryable, PostgresTransient

LEMMA MariaDBTexts ==
    \A n \in DOMAIN MY!Texts :
        IF n \in MY!Retryable THEN MY!Texts[n] \subseteq MariaDBTransient
                              ELSE MY!Texts[n] \cap MariaDBTransient = {}
BY DEF MY!Texts, MY!Retryable, MariaDBTransient

LEMMA MinioTexts ==
    \A n \in DOMAIN S3!Texts :
        /\ IF n \in S3!Retryable THEN S3!Texts[n] \subseteq MinioTransient
                                 ELSE S3!Texts[n] \cap MinioTransient = {}
        /\ IF n \in S3!Permanent THEN S3!Texts[n] \subseteq MinioLasting
                                 ELSE S3!Texts[n] \cap MinioLasting = {}
BY DEF S3!Texts, S3!Retryable, S3!Permanent, MinioTransient, MinioLasting

LEMMA KafkaTexts ==
    \A n \in DOMAIN KA!Texts \ KafkaOdd :
        /\ IF n \in KA!Retryable THEN KA!Texts[n] \subseteq KafkaTransient
                                 ELSE KA!Texts[n] \cap KafkaTransient = {}
        /\ IF n \in KA!Permanent THEN KA!Texts[n] \subseteq KafkaLasting
                                 ELSE KA!Texts[n] \cap KafkaLasting = {}
BY DEF KA!Texts, KA!Retryable, KA!Permanent, KafkaTransient, KafkaLasting, KafkaOdd

-----------------------------------------------------------------------------
\* What a code is listed under is a name of the tables.
LEMMA ListedUnder ==
    ASSUME NEW c, NEW tables, NEW default
    PROVE  /\ \/ Txt!ByCode(c, tables, default) = default
              \/ \E i \in DOMAIN tables : Txt!ByCode(c, tables, default) \in DOMAIN tables[i]
           /\ c \in Txt!CodesOf(tables) =>
                \E i \in DOMAIN tables : Txt!ByCode(c, tables, default) \in DOMAIN tables[i]
<1> DEFINE hits == UNION {{e \in DOMAIN tables[i] : c \in tables[i][e]} : i \in DOMAIN tables}
<1>1. CASE hits = {}
  <2>1. Txt!ByCode(c, tables, default) = default
    BY <1>1 DEF Txt!ByCode
  <2>2. c \notin Txt!CodesOf(tables)
    BY <1>1 DEF Txt!CodesOf
  <2> QED
    BY <2>1, <2>2
<1>2. CASE hits # {}
  <2>1. Txt!ByCode(c, tables, default) = CHOOSE e \in hits : TRUE
    BY <1>2 DEF Txt!ByCode
  <2>2. Txt!ByCode(c, tables, default) \in hits
    BY <1>2, <2>1
  <2> QED
    BY <2>2
<1> QED
  BY <1>1, <1>2

\* A set of names that no table uses as a code.
LEMMA NoCode ==
    ASSUME NEW tables, NEW Names,
           \A i \in DOMAIN tables : \A e \in DOMAIN tables[i] : tables[i][e] \cap Names = {}
    PROVE  Txt!CodesOf(tables) \cap Names = {}
BY DEF Txt!CodesOf

\* What the codes of a driver are kept apart from.
SQLReserved   == SQLNames \cup GormCodes \cup {PG!Plain}
MinioReserved == MinioNames \cup UrlPhrases \cup {PG!Plain}

\* The tables of the SQL packages and of the object store use other names than codes.
LEMMA PostgresTables ==
    /\ \A i \in DOMAIN PG!Codes : /\ DOMAIN PG!Codes[i] \subseteq SQLNames
                                  /\ \A e \in DOMAIN PG!Codes[i] :
                                        PG!Codes[i][e] \cap SQLReserved = {}
    /\ DOMAIN PG!GormErrors \subseteq SQLNames
    /\ \A e \in DOMAIN PG!GormErrors :
            /\ PG!GormErrors[e] \subseteq GormCodes
            /\ PG!GormErrors[e] \cap (SQLNames \cup {PG!Plain}) = {}
<1>1. /\ DOMAIN PG!Class0 \subseteq SQLNames
      /\ \A e \in DOMAIN PG!Class0 : PG!Class0[e] \cap SQLReserved = {}
  BY DEF PG!Class0, SQLReserved, SQLNames, GormCodes, PG!Plain
<1>2. /\ DOMAIN PG!Class22 \subseteq SQLNames
      /\ \A e \in DOMAIN PG!Class22 : PG!Class22[e] \cap SQLReserved = {}
  BY DEF PG!Class22, SQLReserved, SQLNames, GormCodes, PG!Plain
<1>3. /\ DOMAIN PG!Class24 \subseteq SQLNames
      /\ \A e \in DOMAIN PG!Class24 : PG!Class24[e] \cap SQLReserved = {}
  BY DEF PG!Class24, SQLReserved, SQLNames, GormCodes, PG!Plain
<1>4. /\ DOMAIN PG!Class42 \subseteq SQLNames
      /\ \A e \in DOMAIN PG!Class42 : PG!Class42[e] \cap SQLReserved = {}
  BY DEF PG!Class42, SQLReserved, SQLNames, GormCodes, PG!Plain
<1>5. /\ DOMAIN PG!Class54 \subseteq SQLNames
      /\ \A e \in DOMAIN PG!Class54 : PG!Class54[e] \cap SQLReserved = {}
  BY DEF PG!Class54, SQLReserved, SQLNames, GormCodes, PG!Plain
<1>6. /\ DOMAIN PG!GormErrors \subseteq SQLNames
      /\ \A e \in DOMAIN PG!GormErrors :
            /\ PG!GormErrors[e] \subseteq GormCodes
            /\ PG!GormErrors[e] \cap (SQLNames \cup {PG!Plain}) = {}
  BY DEF PG!GormErrors, SQLNames, GormCodes, PG!Plain
<1> QED
  BY <1>1, <1>2, <1>3, <1>4, <1>5, <1>6 DEF PG!Codes

LEMMA MariaDBTables ==
    /\ \A i \in DOMAIN MY!Codes : /\ DOMAIN MY!Codes[i] \subseteq SQLNames
                                  /\ \A e \in DOMAIN MY!Codes[i] :
                                        MY!Codes[i][e] \cap SQLReserved = {}
    /\ DOMAIN MY!GormErrors \subseteq SQLNames
    /\ \A e \in DOMAIN MY!GormErrors :
            /\ MY!GormErrors[e] \subseteq GormCodes
            /\ MY!GormErrors[e] \cap (SQLNames \cup {PG!Plain}) = {}
<1>1. /\ DOMAIN MY!Numbers \subseteq SQLNames
      /\ \A e \in DOMAIN MY!Numbers : MY!Numbers[e] \cap SQLReserved = {}
  BY DEF MY!Numbers, SQLReserved, SQLNames, GormCodes, PG!Plain
<1>2. /\ DOMAIN MY!MoreNumbers \subseteq SQLNames
      /\ \A e \in DOMAIN MY!MoreNumbers : MY!MoreNumbers[e] \cap SQLReserved = {}
  BY DEF MY!MoreNumbers, SQLReserved, SQLNames, GormCodes, PG!Plain
<1>3. /\ DOMAIN MY!GormErrors \subseteq SQLNames
      /\ \A e \in DOMAIN MY!GormErrors :
            /\ MY!GormErrors[e] \subseteq GormCodes
            /\ MY!GormErrors[e] \cap (SQLNames \cup {PG!Plain}) = {}
  BY DEF MY!GormErrors, SQLNames, GormCodes, PG!Plain
<1> QED
  BY <1>1, <1>2, <1>3 DEF MY!Codes

LEMMA MinioTables ==
    /\ \A i \in DOMAIN S3!ServerErrors :
            /\ DOMAIN S3!ServerErrors[i] \subseteq MinioNames
            /\ \A e \in DOMAIN S3!ServerErrors[i] :
                    S3!ServerErrors[i][e] \cap MinioReserved = {}
    /\ DOMAIN S3!UrlErrors \subseteq MinioNames
    /\ \A e \in DOMAIN S3!UrlErrors :
            /\ S3!UrlErrors[e] \subseteq UrlPhrases
            /\ S3!UrlErrors[e] \cap (MinioNames \cup {PG!Plain}) = {}
<1>1. /\ DOMAIN S3!ResponseCodes \subseteq MinioNames
      /\ \A e \in DOMAIN S3!ResponseCodes :
            S3!ResponseCodes[e] \cap MinioReserved = {}
  BY DEF S3!ResponseCodes, MinioReserved, MinioNames, UrlPhrases, PG!Plain
<1>2. /\ DOMAIN S3!Statuses \subseteq MinioNames
      /\ \A e \in DOMAIN S3!Statuses : S3!Statuses[e] \cap MinioReserved = {}
  BY DEF S3!Statuses, MinioReserved, MinioNames, UrlPhrases, PG!Plain
<1>3. /\ DOMAIN S3!UrlErrors \subseteq MinioNames
      /\ \A e \in DOMAIN S3!UrlErrors :
            /\ S3!UrlErrors[e] \subseteq UrlPhrases
            /\ S3!UrlErrors[e] \cap (MinioNames \cup {PG!Plain}) = {}
  BY DEF S3!UrlErrors, MinioNames, UrlPhrases, PG!Plain
<1> QED
  BY <1>1, <1>2, <1>3 DEF S3!ServerErrors

\* The names that the switches over messages give.
LEMMA PostgresGives == \A i \in DOMAIN PG!Cases : PG!Cases[i].gives \in SQLNames
<1>1. /\ \A n, S : PG!Says(n, S).gives = n
      /\ \A n, p, q : PG!Both(n, p, q).gives = n
  BY DEF PG!Says, PG!Both
<1> QED
  BY <1>1, PostgresSwitch DEF PG!Cases, SQLNames

LEMMA MariaDBGives == \A i \in DOMAIN MY!Cases : MY!Cases[i].gives \in SQLNames
<1>1. /\ \A n, S : MY!Says(n, S).gives = n
      /\ \A n, p, q : MY!Both(n, p, q).gives = n
  BY DEF MY!Says, MY!Both
<1> QED
  BY <1>1, MariaDBSwitch DEF MY!Cases, SQLNames

LEMMA MinioGives == \A i \in DOMAIN S3!Cases : S3!Cases[i].gives \in MinioNames
<1>1. \A n, S : S3!Says(n, S).gives = n
  BY DEF S3!Says
<1> QED
  BY <1>1, MinioSwitch DEF S3!Cases, MinioNames

LEMMA KafkaGives == \A i \in DOMAIN KA!Cases : KA!Cases[i].gives \in KafkaNames
<1>1. \A n, S : KA!Says(n, S).gives = n
  BY DEF KA!Says
<1> QED
  BY <1>1, KafkaSwitch DEF KA!Cases, KafkaNames

\* A package's codes are none of its names, and those of one kind none of the other.
LEMMA PostgresCodes ==
    /\ PG!Sentinels \cap PG!DriverCodes = {}
    /\ (PG!Sentinels \cup PG!DriverCodes) \cap (SQLNames \cup {PG!Plain}) = {}
<1>1. /\ PG!Sentinels = Txt!CodesOf(<<PG!GormErrors>>)
      /\ PG!DriverCodes = Txt!CodesOf(PG!Codes) \cup {"another_SQLSTATE"}
  BY DEF PG!Sentinels, PG!DriverCodes, PG!CodesOf, Txt!CodesOf
<1>2. "another_SQLSTATE" \notin SQLReserved
  BY DEF SQLReserved, SQLNames, GormCodes, PG!Plain
<1>3. Txt!CodesOf(PG!Codes) \cap SQLReserved = {}
  BY PostgresTables, NoCode
<1>4. /\ Txt!CodesOf(<<PG!GormErrors>>) \cap (SQLNames \cup {PG!Plain}) = {}
      /\ Txt!CodesOf(<<PG!GormErrors>>) \subseteq GormCodes
  BY PostgresTables DEF Txt!CodesOf
<1> QED
  BY <1>1, <1>2, <1>3, <1>4 DEF SQLReserved

LEMMA MariaDBCodes ==
    /\ MY!Sentinels \cap MY!DriverCodes = {}
    /\ (MY!Sentinels \cup MY!DriverCodes) \cap (SQLNames \cup {PG!Plain}) = {}
<1>1. /\ MY!Sentinels = Txt!CodesOf(<<MY!GormErrors>>)
      /\ MY!DriverCodes = Txt!CodesOf(MY!Codes) \cup {"another_number"}
  BY DEF MY!Sentinels, MY!DriverCodes, MY!CodesOf, Txt!CodesOf
<1>2. "another_number" \notin SQLReserved
  BY DEF SQLReserved, SQLNames, GormCodes, PG!Plain
<1>3. Txt!CodesOf(MY!Codes) \cap SQLReserved = {}
  BY MariaDBTables, NoCode
<1>4. /\ Txt!CodesOf(<<MY!GormErrors>>) \cap (SQLNames \cup {PG!Plain}) = {}
      /\ Txt!CodesOf(<<MY!GormErrors>>) \subseteq GormCodes
  BY MariaDBTables DEF Txt!CodesOf
<1> QED
  BY <1>1, <1>2, <1>3, <1>4 DEF SQLReserved

LEMMA MinioCodes ==
    /\ S3!ServerCodes \cap S3!UrlCodes = {}
    /\ (S3!ServerCodes \cup S3!UrlCodes) \cap (MinioNames \cup {PG!Plain}) = {}
<1>1. /\ S3!ServerCodes = Txt!CodesOf(S3!ServerErrors) \cup {"HTTP_other"}
      /\ S3!UrlCodes = Txt!CodesOf(<<S3!UrlErrors>>)
  BY DEF S3!ServerCodes, S3!UrlCodes, S3!CodesOf, Txt!CodesOf
<1>2. "HTTP_other" \notin MinioReserved
  BY DEF MinioReserved, MinioNames, UrlPhrases, PG!Plain
<1>3. Txt!CodesOf(S3!ServerErrors) \cap MinioReserved = {}
  BY MinioTables, NoCode
<1>4. /\ Txt!CodesOf(<<S3!UrlErrors>>) \cap (MinioNames \cup {PG!Plain}) = {}
      /\ Txt!CodesOf(<<S3!UrlErrors>>) \subseteq UrlPhrases
  BY MinioTables DEF Txt!CodesOf
<1> QED
  BY <1>1, <1>2, <1>3, <1>4 DEF MinioReserved

-----------------------------------------------------------------------------
\* The four packages alike.
CasesOf(p) ==
    CASE p = "postgres" -> PG!Cases
      [] p = "mariadb"  -> MY!Cases
      [] p = "minio"    -> S3!Cases
      [] p = "kafka"    -> KA!Cases

TextsOf(p) ==
    CASE p = "postgres" -> PG!Texts
      [] p = "mariadb"  -> MY!Texts
      [] p = "minio"    -> S3!Texts
      [] p = "kafka"    -> KA!Texts

CodesOf(p) ==
    CASE p = "postgres" -> PG!Sentinels \cup PG!DriverCodes
      [] p = "mariadb"  -> MY!Sentinels \cup MY!DriverCodes
      [] p = "minio"    -> S3!ServerCodes \cup S3!UrlCodes
      [] p = "kafka"    -> {}

NameOf(p, c) ==
    CASE p = "postgres" -> IF c \in PG!Sentinels THEN PG!ByCode(c, <<PG!GormErrors>>, "")
                           ELSE PG!ByCode(c, PG!Codes, "ErrSystemError")
      [] p = "mariadb"  -> IF c \in MY!Sentinels THEN MY!ByCode(c, <<MY!GormErrors>>, "")
                           ELSE MY!ByCode(c, MY!Codes, "ErrSystemError")
      [] p = "minio"    -> IF c \in S3!ServerCodes
                           THEN S3!ByCode(c, S3!ServerErrors, "ErrUnknownError")
                           ELSE S3!ByCode(c, <<S3!UrlErrors>>, "")
      [] p = "kafka"    -> c

NamesOf(p) ==
    CASE p \in SQLPackages -> SQLNames
      [] p = "minio"       -> MinioNames
      [] p = "kafka"       -> KafkaNames

RetrySet(p) ==
    CASE p = "postgres" -> PG!Retryable
      [] p = "mariadb"  -> MY!Retryable
      [] p = "minio"    -> S3!Retryable
      [] p = "kafka"    -> KA!Retryable

PermanentSet(p) ==
    CASE p \in SQLPackages -> {}
      [] p = "minio"       -> S3!Permanent
      [] p = "kafka"       -> KA!Permanent

TransientOf(p) ==
    CASE p = "postgres" -> PostgresTransient
      [] p = "mariadb"  -> MariaDBTransient
      [] p = "minio"    -> MinioTransient
      [] p = "kafka"    -> KafkaTransient

LastingOf(p) ==
    CASE p \in SQLPackages -> {}
      [] p = "minio"       -> MinioLasting
      [] p = "kafka"       -> KafkaLasting

\* A word of no case of its own that the message of some retryable error has.
NeutralOf(p) == IF p = "postgres" THEN {"database"} ELSE {}

\* The words that the package's wrappers add.
WordsOf(p) ==
    CASE p = "postgres" -> {"database", "migration"}
      [] p = "mariadb"  -> {"table"}
      [] p = "minio"    -> {}
      [] p = "kafka"    -> {}

OddOf(p) == IF p = "kafka" THEN KafkaOdd ELSE {}

\* TranslateError: by the code, or by the message.
LEMMA Translates ==
    ASSUME NEW p \in Packages, NEW e
    PROVE  Translated(p, e) =
              IF e.is \in CodesOf(p) THEN Txt!Own(NameOf(p, e.is), TextsOf(p))
              ELSE Txt!ByMessage(e, CasesOf(p), TextsOf(p))
<1>1. CASE p = "postgres"
  <2>1. /\ Translated(p, e) = PG!TranslateError(e)
        /\ CodesOf(p) = PG!Sentinels \cup PG!DriverCodes
        /\ CasesOf(p) = PG!Cases /\ TextsOf(p) = PG!Texts
        /\ NameOf(p, e.is) = IF e.is \in PG!Sentinels
                             THEN PG!ByCode(e.is, <<PG!GormErrors>>, "")
                             ELSE PG!ByCode(e.is, PG!Codes, "ErrSystemError")
    BY <1>1 DEF Translated, CodesOf, CasesOf, TextsOf, NameOf
  <2>2. /\ PG!ByMessage(e, PG!Cases, PG!Texts) = Txt!ByMessage(e, PG!Cases, PG!Texts)
        /\ \A n : PG!Own(n, PG!Texts) = Txt!Own(n, PG!Texts)
    BY DEF PG!ByMessage, PG!Matching, PG!Own, PG!Error, PG!Min,
           Txt!ByMessage, Txt!Matching, Txt!Own, Txt!Error, Txt!Min
  <2> QED
    BY <2>1, <2>2, PostgresCodes DEF PG!TranslateError
<1>2. CASE p = "mariadb"
  <2>1. /\ Translated(p, e) = MY!TranslateError(e)
        /\ CodesOf(p) = MY!Sentinels \cup MY!DriverCodes
        /\ CasesOf(p) = MY!Cases /\ TextsOf(p) = MY!Texts
        /\ NameOf(p, e.is) = IF e.is \in MY!Sentinels
                             THEN MY!ByCode(e.is, <<MY!GormErrors>>, "")
                             ELSE MY!ByCode(e.is, MY!Codes, "ErrSystemError")
    BY <1>2 DEF Translated, CodesOf, CasesOf, TextsOf, NameOf
  <2>2. /\ MY!ByMessage(e, MY!Cases, MY!Texts) = Txt!ByMessage(e, MY!Cases, MY!Texts)
        /\ \A n : MY!Own(n, MY!Texts) = Txt!Own(n, MY!Texts)
    BY DEF MY!ByMessage, MY!Matching, MY!Own, MY!Error, MY!Min,
           Txt!ByMessage, Txt!Matching, Txt!Own, Txt!Error, Txt!Min
  <2> QED
    BY <2>1, <2>2, MariaDBCodes DEF MY!TranslateError
<1>3. CASE p = "minio"
  <2>1. /\ Translated(p, e) = S3!TranslateError(e)
        /\ CodesOf(p) = S3!ServerCodes \cup S3!UrlCodes
        /\ CasesOf(p) = S3!Cases /\ TextsOf(p) = S3!Texts
        /\ NameOf(p, e.is) = IF e.is \in S3!ServerCodes
                             THEN S3!ByCode(e.is, S3!ServerErrors, "ErrUnknownError")
                             ELSE S3!ByCode(e.is, <<S3!UrlErrors>>, "")
    BY <1>3 DEF Translated, CodesOf, CasesOf, TextsOf, NameOf
  <2>2. /\ S3!ByMessage(e, S3!Cases, S3!Texts) = Txt!ByMessage(e, S3!Cases, S3!Texts)
        /\ \A n : S3!Own(n, S3!Texts) = Txt!Own(n, S3!Texts)
    BY DEF S3!ByMessage, S3!Matching, S3!Own, S3!Error, S3!Min,
           Txt!ByMessage, Txt!Matching, Txt!Own, Txt!Error, Txt!Min
  <2> QED
    BY <2>1, <2>2, MinioCodes DEF S3!TranslateError
<1>4. CASE p = "kafka"
  <2>1. /\ Translated(p, e) = KA!TranslateError(e)
        /\ CodesOf(p) = {} /\ CasesOf(p) = KA!Cases /\ TextsOf(p) = KA!Texts
    BY <1>4 DEF Translated, CodesOf, CasesOf, TextsOf
  <2>2. KA!ByMessage(e, KA!Cases, KA!Texts) = Txt!ByMessage(e, KA!Cases, KA!Texts)
    BY DEF KA!ByMessage, KA!Matching, KA!Own, KA!Error, KA!Min,
           Txt!ByMessage, Txt!Matching, Txt!Own, Txt!Error, Txt!Min
  <2> QED
    BY <2>1, <2>2 DEF KA!TranslateError
<1> QED
  BY <1>1, <1>2, <1>3, <1>4 DEF Packages

LEMMA Decisions ==
    ASSUME NEW p \in Packages, NEW e
    PROVE  /\ Retryable(p, e) <=> e.is \in RetrySet(p)
           /\ Permanent(p, e) <=> e.is \in PermanentSet(p)
<1> USE DEF Packages, SQLPackages
<1>1. Retryable(p, e) <=> e.is \in RetrySet(p)
  BY DEF Retryable, RetrySet, PG!IsRetryable, MY!IsRetryable, S3!IsRetryableError,
         KA!IsRetryableError
<1>2. Permanent(p, e) <=> e.is \in PermanentSet(p)
  BY DEF Permanent, PermanentSet, S3!IsPermanentError, KA!IsPermanentError
<1> QED
  BY <1>1, <1>2

\* The switch of each package separates its phrases.
LEMMA EverySwitch ==
    ASSUME NEW p \in Packages
    PROVE  /\ DOMAIN CasesOf(p) \subseteq Nat
           /\ Separates(CasesOf(p), RetrySet(p), TransientOf(p), NeutralOf(p))
           /\ Separates(CasesOf(p), PermanentSet(p), LastingOf(p), {})
           /\ \A i \in DOMAIN CasesOf(p) : CasesOf(p)[i].gives \in NamesOf(p)
<1>1. CASE p = "postgres"
  BY <1>1, PostgresSwitch, PostgresGives
  DEF CasesOf, RetrySet, TransientOf, NeutralOf, PermanentSet, LastingOf, NamesOf, SQLPackages
<1>2. CASE p = "mariadb"
  BY <1>2, MariaDBSwitch, MariaDBGives
  DEF CasesOf, RetrySet, TransientOf, NeutralOf, PermanentSet, LastingOf, NamesOf, SQLPackages
<1>3. CASE p = "minio"
  BY <1>3, MinioSwitch, MinioGives
  DEF CasesOf, RetrySet, TransientOf, NeutralOf, PermanentSet, LastingOf, NamesOf, SQLPackages
<1>4. CASE p = "kafka"
  BY <1>4, KafkaSwitch, KafkaGives
  DEF CasesOf, RetrySet, TransientOf, NeutralOf, PermanentSet, LastingOf, NamesOf, SQLPackages
<1> QED
  BY <1>1, <1>2, <1>3, <1>4 DEF Packages

\* Codes are no names, every code has a name, and no error is plainly retryable.
LEMMA EveryCode ==
    ASSUME NEW p \in Packages
    PROVE  /\ CodesOf(p) \cap (NamesOf(p) \cup {PG!Plain}) = {}
           /\ \A c \in CodesOf(p) : NameOf(p, c) \in NamesOf(p)
           /\ PG!Plain \notin NamesOf(p) \cup RetrySet(p) \cup PermanentSet(p)
<1>1. CASE p = "postgres"
  <2>1. /\ CodesOf(p) = PG!Sentinels \cup PG!DriverCodes /\ NamesOf(p) = SQLNames
        /\ \A c : NameOf(p, c) = IF c \in PG!Sentinels
                                 THEN Txt!ByCode(c, <<PG!GormErrors>>, "")
                                 ELSE Txt!ByCode(c, PG!Codes, "ErrSystemError")
    BY <1>1 DEF CodesOf, NamesOf, NameOf, SQLPackages, PG!ByCode, Txt!ByCode
  <2>2. ASSUME NEW c \in PG!Sentinels
        PROVE  Txt!ByCode(c, <<PG!GormErrors>>, "") \in SQLNames
    <3>1. c \in Txt!CodesOf(<<PG!GormErrors>>)
      BY DEF PG!Sentinels, PG!CodesOf, Txt!CodesOf
    <3>2. PICK i \in DOMAIN <<PG!GormErrors>> :
                Txt!ByCode(c, <<PG!GormErrors>>, "") \in DOMAIN <<PG!GormErrors>>[i]
      BY <3>1, ListedUnder
    <3>3. <<PG!GormErrors>>[i] = PG!GormErrors
      OBVIOUS
    <3> QED
      BY <3>2, <3>3, PostgresTables
  <2>3. "ErrSystemError" \in SQLNames
    BY DEF SQLNames
  <2>4. \A c : Txt!ByCode(c, PG!Codes, "ErrSystemError") \in SQLNames
    BY <2>3, ListedUnder, PostgresTables
  <2>5. PG!Plain \notin SQLNames \cup RetrySet(p) \cup PermanentSet(p)
    BY <1>1 DEF SQLNames, RetrySet, PermanentSet, PG!Retryable, PG!Plain, SQLPackages
  <2>6. CodesOf(p) \cap (NamesOf(p) \cup {PG!Plain}) = {}
    BY <2>1, PostgresCodes
  <2>7. ASSUME NEW c \in CodesOf(p) PROVE NameOf(p, c) \in NamesOf(p)
    <3>1. CASE c \in PG!Sentinels
      BY <2>1, <2>2, <3>1
    <3>2. CASE c \notin PG!Sentinels
      BY <2>1, <2>4, <3>2
    <3> QED
      BY <3>1, <3>2
  <2> QED
    BY <2>1, <2>5, <2>6, <2>7
<1>2. CASE p = "mariadb"
  <2>1. /\ CodesOf(p) = MY!Sentinels \cup MY!DriverCodes /\ NamesOf(p) = SQLNames
        /\ \A c : NameOf(p, c) = IF c \in MY!Sentinels
                                 THEN Txt!ByCode(c, <<MY!GormErrors>>, "")
                                 ELSE Txt!ByCode(c, MY!Codes, "ErrSystemError")
    BY <1>2 DEF CodesOf, NamesOf, NameOf, SQLPackages, MY!ByCode, Txt!ByCode
  <2>2. ASSUME NEW c \in MY!Sentinels
        PROVE  Txt!ByCode(c, <<MY!GormErrors>>, "") \in SQLNames
    <3>1. c \in Txt!CodesOf(<<MY!GormErrors>>)
      BY DEF MY!Sentinels, MY!CodesOf, Txt!CodesOf
    <3>2. PICK i \in DOMAIN <<MY!GormErrors>> :
                Txt!ByCode(c, <<MY!GormErrors>>, "") \in DOMAIN <<MY!GormErrors>>[i]
      BY <3>1, ListedUnder
    <3>3. <<MY!GormErrors>>[i] = MY!GormErrors
      OBVIOUS
    <3> QED
      BY <3>2, <3>3, MariaDBTables
  <2>3. "ErrSystemError" \in SQLNames
    BY DEF SQLNames
  <2>4. \A c : Txt!ByCode(c, MY!Codes, "ErrSystemError") \in SQLNames
    BY <2>3, ListedUnder, MariaDBTables
  <2>5. PG!Plain \notin SQLNames \cup RetrySet(p) \cup PermanentSet(p)
    BY <1>2 DEF SQLNames, RetrySet, PermanentSet, MY!Retryable, PG!Plain, SQLPackages
  <2>6. CodesOf(p) \cap (NamesOf(p) \cup {PG!Plain}) = {}
    BY <2>1, MariaDBCodes
  <2>7. ASSUME NEW c \in CodesOf(p) PROVE NameOf(p, c) \in NamesOf(p)
    <3>1. CASE c \in MY!Sentinels
      BY <2>1, <2>2, <3>1
    <3>2. CASE c \notin MY!Sentinels
      BY <2>1, <2>4, <3>2
    <3> QED
      BY <3>1, <3>2
  <2> QED
    BY <2>1, <2>5, <2>6, <2>7
<1>3. CASE p = "minio"
  <2>1. /\ CodesOf(p) = S3!ServerCodes \cup S3!UrlCodes /\ NamesOf(p) = MinioNames
        /\ \A c : NameOf(p, c) = IF c \in S3!ServerCodes
                                 THEN Txt!ByCode(c, S3!ServerErrors, "ErrUnknownError")
                                 ELSE Txt!ByCode(c, <<S3!UrlErrors>>, "")
    BY <1>3 DEF CodesOf, NamesOf, NameOf, SQLPackages, S3!ByCode, Txt!ByCode
  <2>2. ASSUME NEW c \in S3!UrlCodes
        PROVE  Txt!ByCode(c, <<S3!UrlErrors>>, "") \in MinioNames
    <3>1. c \in Txt!CodesOf(<<S3!UrlErrors>>)
      BY DEF S3!UrlCodes, S3!CodesOf, Txt!CodesOf
    <3>2. PICK i \in DOMAIN <<S3!UrlErrors>> :
                Txt!ByCode(c, <<S3!UrlErrors>>, "") \in DOMAIN <<S3!UrlErrors>>[i]
      BY <3>1, ListedUnder
    <3>3. <<S3!UrlErrors>>[i] = S3!UrlErrors
      OBVIOUS
    <3> QED
      BY <3>2, <3>3, MinioTables
  <2>3. "ErrUnknownError" \in MinioNames
    BY DEF MinioNames
  <2>4. \A c : Txt!ByCode(c, S3!ServerErrors, "ErrUnknownError") \in MinioNames
    BY <2>3, ListedUnder, MinioTables
  <2>5. PG!Plain \notin MinioNames \cup RetrySet(p) \cup PermanentSet(p)
    BY <1>3
    DEF MinioNames, RetrySet, PermanentSet, S3!Retryable, S3!Permanent, PG!Plain, SQLPackages
  <2>6. CodesOf(p) \cap (NamesOf(p) \cup {PG!Plain}) = {}
    BY <2>1, MinioCodes
  <2>7. ASSUME NEW c \in CodesOf(p) PROVE NameOf(p, c) \in NamesOf(p)
    <3>1. CASE c \in S3!ServerCodes
      BY <2>1, <2>4, <3>1
    <3>2. CASE c \in S3!UrlCodes /\ c \notin S3!ServerCodes
      BY <2>1, <2>2, <3>2
    <3> QED
      BY <2>1, <3>1, <3>2
  <2> QED
    BY <2>1, <2>5, <2>6, <2>7
<1>4. CASE p = "kafka"
  <2>1. CodesOf(p) = {} /\ NamesOf(p) = KafkaNames
    BY <1>4 DEF CodesOf, NamesOf, SQLPackages
  <2>2. PG!Plain \notin KafkaNames \cup RetrySet(p) \cup PermanentSet(p)
    BY <1>4
    DEF KafkaNames, RetrySet, PermanentSet, KA!Retryable, KA!Permanent, PG!Plain, SQLPackages
  <2> QED
    BY <2>1, <2>2
<1> QED
  BY <1>1, <1>2, <1>3, <1>4 DEF Packages

\* The package's own messages decide as the errors they are of.
LEMMA EveryText ==
    ASSUME NEW p \in Packages, NEW n \in DOMAIN TextsOf(p) \ OddOf(p)
    PROVE  /\ IF n \in RetrySet(p) THEN TextsOf(p)[n] \subseteq TransientOf(p) \cup NeutralOf(p)
                                   ELSE TextsOf(p)[n] \cap TransientOf(p) = {}
           /\ IF n \in PermanentSet(p) THEN TextsOf(p)[n] \subseteq LastingOf(p)
                                       ELSE TextsOf(p)[n] \cap LastingOf(p) = {}
<1> USE DEF TextsOf, OddOf, RetrySet, TransientOf, NeutralOf, PermanentSet, LastingOf, SQLPackages
<1>1. CASE p = "postgres"
  BY <1>1, PostgresTexts
<1>2. CASE p = "mariadb"
  BY <1>2, MariaDBTexts
<1>3. CASE p = "minio"
  BY <1>3, MinioTexts
<1>4. CASE p = "kafka"
  BY <1>4, KafkaTexts
<1> QED
  BY <1>1, <1>2, <1>3, <1>4 DEF Packages

-----------------------------------------------------------------------------
\* An invalid session timeout in Kafka, whose message contains "timeout", is found
\* before the timeouts are looked for.
LEMMA KafkaSessionTimeout ==
    ASSUME NEW e, e.text = {"invalid_session_timeout", "timeout"}
    PROVE  /\ Txt!ByMessage(e, KA!Cases, KA!Texts).is \notin KA!Retryable
           /\ Txt!ByMessage(e, KA!Cases, KA!Texts).is \notin KA!Permanent
<1>1. \A n, S : KA!Says(n, S).any = {{q} : q \in S}
  BY DEF KA!Says
<1>2. DOMAIN KA!Cases = 1 .. 40 /\ DOMAIN KA!Cases \subseteq Nat
  BY KafkaSwitch
<1>3. KA!Cases[16].any = {{"invalid_session_timeout"}}
  <2>1. KA!Cases[16] = KA!Says("ErrInvalidSessionTimeout", {"invalid_session_timeout"})
    BY DEF KA!Cases
  <2> QED
    BY <1>1, <2>1
<1>4. \A i \in 1 .. 16 : \A a \in KA!Cases[i].any : "timeout" \notin a
  <2>1. \A n, S : "timeout" \notin S => \A a \in KA!Says(n, S).any : "timeout" \notin a
    BY <1>1
  <2> QED
    BY <2>1 DEF KA!Cases
<1>5. 16 \in Txt!Matching(KA!Cases, e.text)
  <2>1. 16 \in DOMAIN KA!Cases
    BY <1>2
  <2>2. {"invalid_session_timeout"} \in KA!Cases[16].any
    BY <1>3
  <2> QED
    BY <2>1, <2>2 DEF Txt!Matching
<1>6. PICK i \in Txt!Matching(KA!Cases, e.text) :
            /\ i <= 16
            /\ Txt!ByMessage(e, KA!Cases, KA!Texts).is = KA!Cases[i].gives
  BY <1>2, <1>5, FirstMatch
<1>7. i \in 1 .. 16 /\ i \in DOMAIN KA!Cases
  BY <1>2, <1>6 DEF Txt!Matching
<1>8. PICK a \in KA!Cases[i].any : a \subseteq {"invalid_session_timeout", "timeout"}
  BY DEF Txt!Matching
<1>9. a \subseteq {"invalid_session_timeout"}
  BY <1>4, <1>7, <1>8
<1>10. "invalid_session_timeout" \notin KafkaTransient \cup KafkaLasting
  BY DEF KafkaTransient, KafkaLasting
<1>11. /\ Splits(KA!Cases[i], KA!Retryable, KafkaTransient, {})
       /\ Splits(KA!Cases[i], KA!Permanent, KafkaLasting, {})
  BY <1>7, KafkaSwitch DEF Separates
<1>12. /\ KA!Cases[i].gives \in KA!Retryable => a # {} /\ a \subseteq KafkaTransient
       /\ KA!Cases[i].gives \in KA!Permanent => a # {} /\ a \subseteq KafkaLasting
  BY <1>8, <1>11 DEF Splits
<1>13. KA!Cases[i].gives \notin KA!Retryable /\ KA!Cases[i].gives \notin KA!Permanent
  BY <1>9, <1>10, <1>12
<1> QED
  BY <1>6, <1>13

\* An invalid message size in Kafka is taken for an invalid message.
LEMMA KafkaMessageSize ==
    ASSUME NEW e, "invalid_message_size" \in e.text => "invalid_message" \in e.text
    PROVE  \/ Txt!ByMessage(e, KA!Cases, KA!Texts) = e
           \/ \E n \in KafkaNames \ {"ErrInvalidMessageSize"} :
                    Txt!ByMessage(e, KA!Cases, KA!Texts) = Txt!Own(n, KA!Texts)
<1>1. \A n, S : /\ KA!Says(n, S).any = {{q} : q \in S}
                /\ KA!Says(n, S).gives = n
  BY DEF KA!Says
<1>2. DOMAIN KA!Cases = 1 .. 40 /\ DOMAIN KA!Cases \subseteq Nat
  BY KafkaSwitch
<1>3. KA!Cases[21].any = {{"invalid_message"}} /\ KA!Cases[22].any = {{"invalid_message_size"}}
  <2>1. /\ KA!Cases[21] = KA!Says("ErrInvalidMessage", {"invalid_message"})
        /\ KA!Cases[22] = KA!Says("ErrInvalidMessageSize", {"invalid_message_size"})
    BY DEF KA!Cases
  <2> QED
    BY <1>1, <2>1
<1>4. \A i \in 1 .. 40 : i # 22 => KA!Cases[i].gives # "ErrInvalidMessageSize"
  BY <1>1 DEF KA!Cases
<1>5. 22 \in Txt!Matching(KA!Cases, e.text) => 21 \in Txt!Matching(KA!Cases, e.text)
  <2>1. 21 \in DOMAIN KA!Cases
    BY <1>2
  <2>2. {"invalid_message"} \in KA!Cases[21].any
    BY <1>3
  <2>3. 22 \in Txt!Matching(KA!Cases, e.text) => "invalid_message_size" \in e.text
    BY <1>3 DEF Txt!Matching
  <2> QED
    BY <2>1, <2>2, <2>3 DEF Txt!Matching
<1>6. CASE Txt!ByMessage(e, KA!Cases, KA!Texts) = e
  BY <1>6
<1>7. ASSUME NEW i \in Txt!Matching(KA!Cases, e.text),
             \A j \in Txt!Matching(KA!Cases, e.text) : i <= j,
             Txt!ByMessage(e, KA!Cases, KA!Texts) = Txt!Own(KA!Cases[i].gives, KA!Texts)
      PROVE  \E n \in KafkaNames \ {"ErrInvalidMessageSize"} :
                    Txt!ByMessage(e, KA!Cases, KA!Texts) = Txt!Own(n, KA!Texts)
  <2>1. i # 22
    BY <1>5, <1>7
  <2>2. i \in 1 .. 40
    BY <1>2 DEF Txt!Matching
  <2> QED
    BY <1>2, <1>4, <1>7, <2>1, <2>2, KafkaGives
<1> QED
  BY <1>2, <1>6, <1>7, FirstMatch

-----------------------------------------------------------------------------
\* What drivers return: an error with a code and no message, or a message that
\* contains the phrases within its phrases.
LEMMA KafkaClosed ==
    \A t \in KA!CaseTexts(KA!Cases, KA!Inside) :
        "invalid_message_size" \in t => "invalid_message" \in t
<1>1. /\ "invalid_message_size" \in DOMAIN KA!Inside
      /\ "invalid_message" \in KA!Inside["invalid_message_size"]
      /\ \A q \in DOMAIN KA!Inside : "invalid_message_size" \notin KA!Inside[q]
  BY DEF KA!Inside
<1>2. \A a : "invalid_message_size" \in KA!WithInside(a, KA!Inside)
                => "invalid_message" \in KA!WithInside(a, KA!Inside)
  BY <1>1 DEF KA!WithInside
<1> DEFINE alone == UNION {{KA!WithInside(a, KA!Inside) : a \in KA!Cases[i].any} :
                              i \in DOMAIN KA!Cases}
<1>3. \A s \in alone : "invalid_message_size" \in s => "invalid_message" \in s
  BY <1>2
<1>4. KA!CaseTexts(KA!Cases, KA!Inside) = {s \cup t : s \in alone, t \in alone} \cup {{}}
  BY DEF KA!CaseTexts
<1> HIDE DEF alone
<1> QED
  BY <1>3, <1>4

LEMMA EveryRaw ==
    ASSUME NEW p \in Packages, NEW r \in Raw(p)
    PROVE  /\ r = Txt!Error(r.is, r.text)
           /\ r.is \in CodesOf(p) \cup {PG!Plain}
           /\ p = "kafka" /\ "invalid_message_size" \in r.text => "invalid_message" \in r.text
<1>1. CASE p = "postgres"
  <2>1. /\ Raw(p) = PG!RawErrors
        /\ CodesOf(p) = PG!Sentinels \cup PG!DriverCodes
    BY <1>1 DEF Raw, CodesOf
  <2> QED
    BY <1>1, <2>1 DEF PG!RawErrors, PG!Error, Txt!Error
<1>2. CASE p = "mariadb"
  <2>1. /\ Raw(p) = MY!RawErrors
        /\ CodesOf(p) = MY!Sentinels \cup MY!DriverCodes
    BY <1>2 DEF Raw, CodesOf
  <2> QED
    BY <1>2, <2>1 DEF MY!RawErrors, MY!Error, MY!Plain, PG!Plain, Txt!Error
<1>3. CASE p = "minio"
  <2>1. /\ Raw(p) = S3!RawErrors
        /\ CodesOf(p) = S3!ServerCodes \cup S3!UrlCodes
    BY <1>3 DEF Raw, CodesOf
  <2> QED
    BY <1>3, <2>1 DEF S3!RawErrors, S3!Error, S3!Plain, PG!Plain, Txt!Error
<1>4. CASE p = "kafka"
  <2>1. Raw(p) = KA!RawErrors
    BY <1>4 DEF Raw
  <2>2. PICK t \in KA!CaseTexts(KA!Cases, KA!Inside) : r = KA!Error(KA!Plain, t)
    BY <2>1 DEF KA!RawErrors
  <2>3. r.is = PG!Plain /\ r.text = t /\ r = Txt!Error(r.is, r.text)
    BY <2>2 DEF KA!Error, KA!Plain, PG!Plain, Txt!Error
  <2> QED
    BY <2>3, KafkaClosed
<1> QED
  BY <1>1, <1>2, <1>3, <1>4 DEF Packages

\* What wrappers add: words that no retry depends on, where nothing is said not to exist.
LEMMA EveryContext ==
    ASSUME NEW p \in Packages, NEW context \in Contexts(p)
    PROVE  context \subseteq WordsOf(p)
<1>1. CASE p = "postgres"
  BY <1>1 DEF Contexts, PG!Contexts, WordsOf
<1>2. CASE p = "mariadb"
  BY <1>2 DEF Contexts, MY!Contexts, WordsOf
<1>3. CASE p = "minio"
  BY <1>3 DEF Contexts, S3!Contexts, WordsOf
<1>4. CASE p = "kafka"
  BY <1>4 DEF Contexts, KA!Contexts, WordsOf
<1> QED
  BY <1>1, <1>2, <1>3, <1>4 DEF Packages

NotThere == {"does_not_exist", "doesnt_exist"}

\* The cases in which a word that a wrapper adds plays a part.
LEMMA PostgresWords ==
    \A i \in DOMAIN PG!Cases :
        /\ \A a \in PG!Cases[i].any :
                a \cap {"database", "migration"} # {} => "does_not_exist" \in a \/ i >= 42
        /\ i >= 42 => PG!Cases[i].gives \notin PG!Retryable
<1>1. /\ \A n, S : PG!Says(n, S).gives = n
      /\ \A n, q, s : PG!Both(n, q, s).gives = n
  BY DEF PG!Says, PG!Both
<1>2. \A n, S : S \cap {"database", "migration"} = {} =>
            \A a \in PG!Says(n, S).any : a \cap {"database", "migration"} = {}
  BY DEF PG!Says
<1>3. \A n, q, s : \A a \in PG!Both(n, q, s).any : s \in a
  BY DEF PG!Both
<1>4. \A i \in DOMAIN PG!Cases : \A a \in PG!Cases[i].any :
            a \cap {"database", "migration"} # {} => "does_not_exist" \in a \/ i >= 42
  BY <1>2, <1>3, PostgresSwitch DEF PG!Cases
<1>5. \A i \in DOMAIN PG!Cases : i >= 42 => PG!Cases[i].gives \notin PG!Retryable
  BY <1>1, PostgresSwitch DEF PG!Cases, PG!Retryable
<1> QED
  BY <1>4, <1>5

LEMMA MariaDBWords ==
    \A i \in DOMAIN MY!Cases : \A a \in MY!Cases[i].any : "table" \in a => "doesnt_exist" \in a
<1>1. \A n, S : "table" \notin S => \A a \in MY!Says(n, S).any : "table" \notin a
  BY DEF MY!Says
<1>2. \A n, q, s : \A a \in MY!Both(n, q, s).any : s \in a
  BY DEF MY!Both
<1> QED
  BY <1>1, <1>2, MariaDBSwitch DEF MY!Cases

LEMMA EveryWord ==
    ASSUME NEW p \in Packages, NEW t, NEW u, t \subseteq u, u \subseteq t \cup WordsOf(p),
           t \cap NotThere = {}
    PROVE  /\ Txt!Matching(CasesOf(p), t) \subseteq Txt!Matching(CasesOf(p), u)
           /\ \A i \in Txt!Matching(CasesOf(p), u) \ Txt!Matching(CasesOf(p), t) :
                \A j \in DOMAIN CasesOf(p) :
                    i <= j => CasesOf(p)[j].gives \notin RetrySet(p) \cup PermanentSet(p)
<1>1. Txt!Matching(CasesOf(p), t) \subseteq Txt!Matching(CasesOf(p), u)
  BY DEF Txt!Matching
<1>2. ASSUME NEW i \in Txt!Matching(CasesOf(p), u) \ Txt!Matching(CasesOf(p), t)
      PROVE  i \in DOMAIN CasesOf(p) /\ \E a \in CasesOf(p)[i].any :
                a \subseteq t \cup WordsOf(p) /\ ~(a \subseteq t)
  BY DEF Txt!Matching
<1>3. CASE WordsOf(p) = {}
  BY <1>1, <1>2, <1>3
<1>4. CASE p = "postgres"
  <2>1. /\ WordsOf(p) = {"database", "migration"} /\ CasesOf(p) = PG!Cases
        /\ RetrySet(p) = PG!Retryable /\ PermanentSet(p) = {}
    BY <1>4 DEF WordsOf, CasesOf, RetrySet, PermanentSet, SQLPackages
  <2>2. ASSUME NEW i \in Txt!Matching(CasesOf(p), u) \ Txt!Matching(CasesOf(p), t)
        PROVE  i >= 42
    <3>1. PICK a \in PG!Cases[i].any : a \subseteq t \cup WordsOf(p) /\ ~(a \subseteq t)
      BY <1>2, <2>1
    <3>2. a \cap {"database", "migration"} # {}
      BY <2>1, <3>1
    <3>3. "does_not_exist" \notin a
      BY <2>1, <3>1 DEF NotThere
    <3> QED
      BY <1>2, <2>1, <3>2, <3>3, PostgresWords
  <2>3. \A i, j \in DOMAIN CasesOf(p) : i >= 42 /\ i <= j => j >= 42
    BY <2>1, PostgresSwitch
  <2> QED
    BY <1>1, <1>2, <2>1, <2>2, <2>3, PostgresWords
<1>5. CASE p = "mariadb"
  <2>1. WordsOf(p) = {"table"} /\ CasesOf(p) = MY!Cases
    BY <1>5 DEF WordsOf, CasesOf
  <2>2. Txt!Matching(CasesOf(p), u) \subseteq Txt!Matching(CasesOf(p), t)
    <3>1. SUFFICES ASSUME NEW i \in Txt!Matching(CasesOf(p), u) \ Txt!Matching(CasesOf(p), t)
                   PROVE  FALSE
      OBVIOUS
    <3>2. PICK a \in MY!Cases[i].any : a \subseteq t \cup WordsOf(p) /\ ~(a \subseteq t)
      BY <1>2, <2>1
    <3>3. "table" \in a /\ "doesnt_exist" \notin a
      BY <2>1, <3>2 DEF NotThere
    <3> QED
      BY <1>2, <2>1, <3>3, MariaDBWords
  <2> QED
    BY <1>1, <2>2
<1> QED
  BY <1>3, <1>4, <1>5 DEF Packages, WordsOf

-----------------------------------------------------------------------------
\* The errors that TranslateError returns: one of the package's own. An invalid message
\* size is none of them (see KafkaMessageSize).
GivenBy(p) == NamesOf(p) \ {"ErrInvalidMessageSize"}

DecideAlike(p, d, e) ==
    /\ d.is \in RetrySet(p) <=> e.is \in RetrySet(p)
    /\ d.is \in PermanentSet(p) <=> e.is \in PermanentSet(p)

\* TranslateError changes nothing, or returns an error of the package's own.
LEMMA GivesOwn ==
    ASSUME NEW p \in Packages, NEW e,
           p = "kafka" /\ "invalid_message_size" \in e.text => "invalid_message" \in e.text
    PROVE  \/ Translated(p, e) = e
           \/ \E n \in GivenBy(p) : Translated(p, e) = Txt!Own(n, TextsOf(p))
<1>1. CASE p = "kafka"
  <2>1. /\ CodesOf(p) = {} /\ CasesOf(p) = KA!Cases /\ TextsOf(p) = KA!Texts
        /\ GivenBy(p) = KafkaNames \ {"ErrInvalidMessageSize"}
    BY <1>1 DEF CodesOf, CasesOf, TextsOf, GivenBy, NamesOf, SQLPackages
  <2>2. Translated(p, e) = Txt!ByMessage(e, KA!Cases, KA!Texts)
    BY <2>1, Translates
  <2> QED
    BY <1>1, <2>1, <2>2, KafkaMessageSize
<1>2. CASE p # "kafka"
  <2>1. GivenBy(p) = NamesOf(p)
    BY <1>2 DEF GivenBy, NamesOf, SQLNames, MinioNames, Packages, SQLPackages
  <2>2. CASE e.is \in CodesOf(p)
    <3>1. Translated(p, e) = Txt!Own(NameOf(p, e.is), TextsOf(p))
      BY <2>2, Translates
    <3> QED
      BY <2>1, <2>2, <3>1, EveryCode
  <2>3. CASE e.is \notin CodesOf(p)
    <3>1. Translated(p, e) = Txt!ByMessage(e, CasesOf(p), TextsOf(p))
      BY <2>3, Translates
    <3>2. \/ Txt!ByMessage(e, CasesOf(p), TextsOf(p)) = e
          \/ \E i \in Txt!Matching(CasesOf(p), e.text) :
                Txt!ByMessage(e, CasesOf(p), TextsOf(p)) = Txt!Own(CasesOf(p)[i].gives, TextsOf(p))
      BY EverySwitch, FirstMatch
    <3>3. \A i \in Txt!Matching(CasesOf(p), e.text) : CasesOf(p)[i].gives \in NamesOf(p)
      BY EverySwitch DEF Txt!Matching
    <3> QED
      BY <2>1, <3>1, <3>2, <3>3
  <2> QED
    BY <2>2, <2>3
<1> QED
  BY <1>1, <1>2

\* Translated once more, an error of the package's own decides as before.
LEMMA OwnStays ==
    ASSUME NEW p \in Packages, NEW n \in GivenBy(p)
    PROVE  /\ \E m \in GivenBy(p) : Translated(p, Txt!Own(n, TextsOf(p))) = Txt!Own(m, TextsOf(p))
           /\ DecideAlike(p, Translated(p, Txt!Own(n, TextsOf(p))), Txt!Own(n, TextsOf(p)))
<1> DEFINE o == Txt!Own(n, TextsOf(p))
           d == Txt!ByMessage(o, CasesOf(p), TextsOf(p))
<1>1. o.is = n /\ o.text = IF n \in DOMAIN TextsOf(p) THEN TextsOf(p)[n] ELSE {}
  BY DEF Txt!Own, Txt!Error
<1>2. n \notin CodesOf(p)
  BY EveryCode DEF GivenBy
<1>3. Translated(p, o) = d
  BY <1>1, <1>2, Translates
<1>4. p = "kafka" /\ "invalid_message_size" \in o.text => "invalid_message" \in o.text
  <2>1. \A m \in DOMAIN KA!Texts :
            "invalid_message_size" \in KA!Texts[m] => "invalid_message" \in KA!Texts[m]
    BY DEF KA!Texts
  <2>2. p = "kafka" => TextsOf(p) = KA!Texts
    BY DEF TextsOf
  <2> QED
    BY <1>1, <2>1, <2>2
<1>5. \E m \in GivenBy(p) : Translated(p, o) = Txt!Own(m, TextsOf(p))
  BY <1>4, GivesOwn
<1>6. DecideAlike(p, d, o)
  <2>1. CASE n \notin DOMAIN TextsOf(p) \/ n \notin OddOf(p)
    <3>1. /\ IF n \in RetrySet(p) THEN o.text \subseteq TransientOf(p) \cup NeutralOf(p)
                                  ELSE o.text \cap TransientOf(p) = {}
          /\ IF n \in PermanentSet(p) THEN o.text \subseteq LastingOf(p)
                                      ELSE o.text \cap LastingOf(p) = {}
      <4>1. CASE n \in DOMAIN TextsOf(p)
        BY <1>1, <2>1, <4>1, EveryText
      <4>2. CASE n \notin DOMAIN TextsOf(p)
        BY <1>1, <4>2
      <4> QED
        BY <4>1, <4>2
    <3> HIDE DEF o
    <3>2. d.is \in RetrySet(p) <=> o.is \in RetrySet(p)
      BY <1>1, <3>1, EverySwitch, DecidesAsBefore
    <3>3. d.is \in PermanentSet(p) <=> o.is \in PermanentSet(p)
      <4>1. IF o.is \in PermanentSet(p) THEN o.text \subseteq LastingOf(p) \cup {}
                                         ELSE o.text \cap LastingOf(p) = {}
        BY <1>1, <3>1
      <4>2. DOMAIN CasesOf(p) \subseteq Nat /\ Separates(CasesOf(p), PermanentSet(p), LastingOf(p), {})
        BY EverySwitch
      <4> QED
        BY <4>1, <4>2, DecidesAsBefore
    <3> QED
      BY <3>2, <3>3 DEF DecideAlike
  <2>2. CASE n \in DOMAIN TextsOf(p) /\ n \in OddOf(p)
    <3>1. p = "kafka"
      BY <2>2 DEF OddOf
    <3>2. n = "ErrInvalidSessionTimeout"
      BY <2>2, <3>1 DEF OddOf, KafkaOdd, GivenBy, NamesOf, KafkaNames, SQLPackages
    <3>3. /\ CasesOf(p) = KA!Cases /\ TextsOf(p) = KA!Texts
          /\ RetrySet(p) = KA!Retryable /\ PermanentSet(p) = KA!Permanent
      BY <3>1 DEF CasesOf, TextsOf, RetrySet, PermanentSet, SQLPackages
    <3>4. o.text = {"invalid_session_timeout", "timeout"}
      BY <1>1, <2>2, <3>2, <3>3 DEF KA!Texts
    <3>5. n \notin KA!Retryable /\ n \notin KA!Permanent
      BY <3>2 DEF KA!Retryable, KA!Permanent
    <3>6. d.is \notin KA!Retryable /\ d.is \notin KA!Permanent
      BY <3>3, <3>4, KafkaSessionTimeout
    <3> QED
      BY <1>1, <3>3, <3>5, <3>6 DEF DecideAlike
  <2> QED
    BY <2>1, <2>2
<1> QED
  BY <1>3, <1>5, <1>6

\* What wrappers add to what the driver returned decides nothing.
LEMMA WordsDecideNothing ==
    ASSUME NEW p \in Packages, NEW r \in Raw(p), NEW e, e.is = r.is,
           r.text \subseteq e.text, e.text \subseteq r.text \cup WordsOf(p),
           r.text \cap NotThere = {}
    PROVE  DecideAlike(p, Translated(p, e), Translated(p, r))
<1>1. CASE r.is \in CodesOf(p)
  BY <1>1, Translates, OwnName DEF DecideAlike
<1>2. CASE r.is \notin CodesOf(p)
  <2>1. r.is \notin RetrySet(p) /\ r.is \notin PermanentSet(p)
    BY <1>2, EveryRaw, EveryCode
  <2>2. /\ Translated(p, e) = Txt!ByMessage(e, CasesOf(p), TextsOf(p))
        /\ Translated(p, r) = Txt!ByMessage(r, CasesOf(p), TextsOf(p))
    BY <1>2, Translates
  <2>3. /\ Txt!Matching(CasesOf(p), r.text) \subseteq Txt!Matching(CasesOf(p), e.text)
        /\ \A i \in Txt!Matching(CasesOf(p), e.text) \ Txt!Matching(CasesOf(p), r.text) :
             \A j \in DOMAIN CasesOf(p) :
                i <= j => CasesOf(p)[j].gives \notin RetrySet(p) \cup PermanentSet(p)
    BY EveryWord
  <2>4. DOMAIN CasesOf(p) \subseteq Nat
    BY EverySwitch
  <2>5. Txt!ByMessage(e, CasesOf(p), TextsOf(p)).is \in RetrySet(p)
            <=> Txt!ByMessage(r, CasesOf(p), TextsOf(p)).is \in RetrySet(p)
    BY <2>1, <2>3, <2>4, AddedWords
  <2>6. Txt!ByMessage(e, CasesOf(p), TextsOf(p)).is \in PermanentSet(p)
            <=> Txt!ByMessage(r, CasesOf(p), TextsOf(p)).is \in PermanentSet(p)
    BY <2>1, <2>3, <2>4, AddedWords
  <2> QED
    BY <2>2, <2>5, <2>6 DEF DecideAlike
<1> QED
  BY <1>1, <1>2

-----------------------------------------------------------------------------
\* An error is what the driver returned, perhaps with words of wrappers, or an error
\* of the package's own that decides as what the driver returned does.
Untranslated ==
    /\ err = Txt!Error(raw.is, err.text)
    /\ raw.text \subseteq err.text
    /\ err.text \subseteq raw.text \cup WordsOf(pkg)

Settled ==
    \E n \in GivenBy(pkg) :
        /\ err = Txt!Own(n, TextsOf(pkg))
        /\ raw.text \cap NotThere = {} => DecideAlike(pkg, err, Translated(pkg, raw))

ErrInv ==
    /\ pkg \in Packages
    /\ raw \in Raw(pkg)
    /\ Untranslated \/ Settled

LEMMA ErrInitially == ErrorInit => ErrInv
<1>1. ASSUME ErrorInit PROVE ErrInv
  <2>1. pkg \in Packages /\ raw \in Raw(pkg) /\ err = raw
    BY <1>1 DEF ErrorInit
  <2>2. raw = Txt!Error(raw.is, raw.text)
    BY <2>1, EveryRaw
  <2> QED
    BY <2>1, <2>2 DEF ErrInv, Untranslated
<1> QED
  BY <1>1

LEMMA ErrStep == ErrInv /\ [ErrorNext]_errorVars => ErrInv'
<1> SUFFICES ASSUME ErrInv, [ErrorNext]_errorVars PROVE ErrInv'
  OBVIOUS
<1>0. pkg \in Packages /\ raw \in Raw(pkg) /\ (Untranslated \/ Settled)
  BY DEF ErrInv
<1>1. CASE UNCHANGED errorVars
  BY <1>0, <1>1 DEF ErrInv, Untranslated, Settled, errorVars
<1>2. CASE Wrap
  <2>1. pkg' = pkg /\ raw' = raw
    BY <1>2 DEF Wrap
  <2>2. CASE err' = err
    BY <1>0, <2>1, <2>2 DEF ErrInv, Untranslated, Settled
  <2>3. ASSUME err.is = raw.is, NEW context \in Contexts(pkg), err' = PG!Wrapped(err, context)
        PROVE  ErrInv'
    <3>1. Untranslated
      <4>1. raw.is \in CodesOf(pkg) \cup {PG!Plain}
        BY <1>0, EveryRaw
      <4>2. raw.is \notin NamesOf(pkg)
        BY <1>0, <4>1, EveryCode
      <4>3. ~Settled
        BY <2>3, <4>2, OwnName DEF Settled, GivenBy
      <4> QED
        BY <1>0, <4>3
    <3>2. context \subseteq WordsOf(pkg)
      BY <1>0, EveryContext
    <3>3. err' = Txt!Error(raw.is, err.text \cup context)
      BY <2>3, <3>1 DEF Untranslated, PG!Wrapped, Txt!Error
    <3>4. err'.text = err.text \cup context
      BY <3>3 DEF Txt!Error
    <3>5. Untranslated'
      BY <2>1, <3>1, <3>2, <3>3, <3>4 DEF Untranslated
    <3> QED
      BY <1>0, <2>1, <3>5 DEF ErrInv
  <2> QED
    BY <1>2, <2>2, <2>3 DEF Wrap
<1>3. CASE TranslateError
  <2>1. pkg' = pkg /\ raw' = raw /\ err' = Translated(pkg, err)
    BY <1>3 DEF TranslateError
  <2>2. CASE Untranslated
    <3>1. pkg = "kafka" /\ "invalid_message_size" \in err.text
                        => "invalid_message" \in err.text
      BY <1>0, <2>2, EveryRaw DEF Untranslated, WordsOf
    <3>2. CASE err' = err
      BY <1>0, <2>1, <2>2, <3>2 DEF ErrInv, Untranslated
    <3>3. ASSUME NEW n \in GivenBy(pkg), Translated(pkg, err) = Txt!Own(n, TextsOf(pkg))
          PROVE  ErrInv'
      <4>1. raw.text \cap NotThere = {}
                => DecideAlike(pkg, Translated(pkg, err), Translated(pkg, raw))
        <5>1. err.is = raw.is
          BY <2>2 DEF Untranslated, Txt!Error
        <5> QED
          BY <1>0, <2>2, <5>1, WordsDecideNothing DEF Untranslated
      <4>2. Settled'
        BY <2>1, <3>3, <4>1 DEF Settled
      <4> QED
        BY <1>0, <2>1, <4>2 DEF ErrInv
    <3> QED
      BY <1>0, <2>1, <3>1, <3>2, <3>3, GivesOwn
  <2>3. CASE Settled
    <3>1. PICK n \in GivenBy(pkg) :
                /\ err = Txt!Own(n, TextsOf(pkg))
                /\ raw.text \cap NotThere = {} => DecideAlike(pkg, err, Translated(pkg, raw))
      BY <2>3 DEF Settled
    <3>2. PICK m \in GivenBy(pkg) : Translated(pkg, err) = Txt!Own(m, TextsOf(pkg))
      BY <1>0, <3>1, OwnStays
    <3>3. DecideAlike(pkg, Translated(pkg, err), err)
      BY <1>0, <3>1, OwnStays
    <3>4. raw.text \cap NotThere = {}
                => DecideAlike(pkg, Translated(pkg, err), Translated(pkg, raw))
      BY <3>1, <3>3 DEF DecideAlike
    <3>5. Settled'
      BY <2>1, <3>2, <3>4 DEF Settled
    <3> QED
      BY <1>0, <2>1, <3>5 DEF ErrInv
  <2> QED
    BY <1>0, <2>2, <2>3
<1> QED
  BY <1>1, <1>2, <1>3 DEF ErrorNext

LEMMA ErrStable == ErrInv => RetryDecisionStable
<1> SUFFICES ASSUME ErrInv, raw.text \cap NotThere = {}
             PROVE  RetryDecisionStable
  BY DEF RetryDecisionStable, NotThere
<1>0. pkg \in Packages /\ raw \in Raw(pkg) /\ (Untranslated \/ Settled)
  BY DEF ErrInv
<1>1. CASE Untranslated
  <2>1. err.is = raw.is
    BY <1>1 DEF Untranslated, Txt!Error
  <2>2. DecideAlike(pkg, Translated(pkg, err), Translated(pkg, raw))
    BY <1>0, <1>1, <2>1, WordsDecideNothing DEF Untranslated
  <2> QED
    BY <1>0, <2>2, Decisions DEF DecideAlike, RetryDecisionStable
<1>2. CASE Settled
  <2>1. PICK n \in GivenBy(pkg) : /\ err = Txt!Own(n, TextsOf(pkg))
                                  /\ DecideAlike(pkg, err, Translated(pkg, raw))
    BY <1>2 DEF Settled
  <2>2. DecideAlike(pkg, Translated(pkg, err), err)
    BY <1>0, <2>1, OwnStays
  <2>3. DecideAlike(pkg, Translated(pkg, err), Translated(pkg, raw))
    BY <2>1, <2>2 DEF DecideAlike
  <2> QED
    BY <1>0, <2>3, Decisions DEF DecideAlike, RetryDecisionStable
<1> QED
  BY <1>0, <1>1, <1>2

THEOREM RetryStable == ErrorSpec => []RetryDecisionStable
<1>1. ErrorSpec => []ErrInv
  BY ErrInitially, ErrStep, PTL DEF ErrorSpec
<1> QED
  BY <1>1, ErrStable, PTL

-----------------------------------------------------------------------------
\* The classification of errors by the tables of the packages.

\* The categories that put an error down to the caller's data, schema or rights.
CallersCategories ==
    {"CategoryData", "CategoryConstraint", "CategoryPermission", "CategorySchema",
     "CategoryNotFound", "CategoryConflict", "CategoryValidation", "CategoryOperation"}

LEMMA Categorised ==
    ASSUME NEW e, NEW categories, Txt!CategoryOf(e, categories) \in CallersCategories
    PROVE  /\ Txt!CategoryOf(e, categories) \in DOMAIN categories
           /\ e.is \in categories[Txt!CategoryOf(e, categories)]
<1> DEFINE hits == {c \in DOMAIN categories : e.is \in categories[c]}
<1>1. "CategoryUnknown" \notin CallersCategories
  BY DEF CallersCategories
<1>2. hits # {} /\ Txt!CategoryOf(e, categories) = CHOOSE c \in hits : TRUE
  BY <1>1 DEF Txt!CategoryOf
<1>3. Txt!CategoryOf(e, categories) \in hits
  BY <1>2
<1> QED
  BY <1>3

LEMMA CategoryTables ==
    \A c \in CallersCategories :
        /\ c \in DOMAIN PG!Categories =>
              PG!Categories[c] \cap (PG!Retryable \cup PG!Temporary) = {}
        /\ c \in DOMAIN MY!Categories =>
              MY!Categories[c] \cap (MY!Retryable \cup MY!Temporary) = {}
        /\ c \in DOMAIN S3!Categories =>
              S3!Categories[c] \cap (S3!Retryable \cup {"ErrCredentialsExpired"}) = {}
<1>1. \A c \in CallersCategories : c \in DOMAIN PG!Categories =>
              PG!Categories[c] \cap (PG!Retryable \cup PG!Temporary) = {}
  BY DEF CallersCategories, PG!Categories, PG!Retryable, PG!Temporary
<1>2. \A c \in CallersCategories : c \in DOMAIN MY!Categories =>
              MY!Categories[c] \cap (MY!Retryable \cup MY!Temporary) = {}
  BY DEF CallersCategories, MY!Categories, MY!Retryable, MY!Temporary
<1>3. \A c \in CallersCategories : c \in DOMAIN S3!Categories =>
              S3!Categories[c] \cap (S3!Retryable \cup {"ErrCredentialsExpired"}) = {}
  BY DEF CallersCategories, S3!Categories, S3!Retryable
<1> QED
  BY <1>1, <1>2, <1>3

LEMMA EveryClass ==
    ASSUME NEW p \in Packages, NEW e
    PROVE  /\ ~(Retryable(p, e) /\ Permanent(p, e))
           /\ ~(Temporary(p, e) /\ Permanent(p, e))
           /\ Category(p, e) \in CallersCategories => ~Retryable(p, e) /\ ~Temporary(p, e)
           /\ p = "kafka" /\ KA!IsAuthenticationError(e) => Permanent(p, e)
<1>1. CASE p = "postgres"
  <2>1. /\ ~Permanent(p, e)
        /\ Retryable(p, e) <=> e.is \in PG!Retryable
        /\ Temporary(p, e) <=> e.is \in PG!Temporary
        /\ Category(p, e) = Txt!CategoryOf(e, PG!Categories)
    BY <1>1 DEF Permanent, Retryable, Temporary, Category, PG!IsRetryable, PG!IsTemporary,
                PG!GetErrorCategory, PG!CategoryOf, Txt!CategoryOf
  <2> QED
    BY <1>1, <2>1, Categorised, CategoryTables
<1>2. CASE p = "mariadb"
  <2>1. /\ ~Permanent(p, e)
        /\ Retryable(p, e) <=> e.is \in MY!Retryable
        /\ Temporary(p, e) <=> e.is \in MY!Temporary
        /\ Category(p, e) = Txt!CategoryOf(e, MY!Categories)
    BY <1>2 DEF Permanent, Retryable, Temporary, Category, MY!IsRetryable, MY!IsTemporary,
                MY!GetErrorCategory, MY!CategoryOf, Txt!CategoryOf
  <2> QED
    BY <1>2, <2>1, Categorised, CategoryTables
<1>3. CASE p = "minio"
  <2>1. /\ Permanent(p, e) <=> e.is \in S3!Permanent
        /\ Retryable(p, e) <=> e.is \in S3!Retryable
        /\ Temporary(p, e) <=> e.is \in S3!Retryable \cup {"ErrCredentialsExpired"}
        /\ Category(p, e) = Txt!CategoryOf(e, S3!Categories)
    BY <1>3 DEF Permanent, Retryable, Temporary, Category, S3!IsRetryableError,
                S3!IsTemporaryError, S3!IsPermanentError,
                S3!GetErrorCategory, S3!CategoryOf, Txt!CategoryOf
  <2>2. S3!Permanent \cap (S3!Retryable \cup {"ErrCredentialsExpired"}) = {}
    BY DEF S3!Permanent, S3!Retryable
  <2> QED
    BY <1>3, <2>1, <2>2, Categorised, CategoryTables
<1>4. CASE p = "kafka"
  <2>1. /\ Permanent(p, e) <=> e.is \in KA!Permanent
        /\ Retryable(p, e) <=> e.is \in KA!Retryable
        /\ Temporary(p, e) <=>
              e.is \in KA!Retryable \cup {"ErrRebalanceInProgress", "ErrLeaderNotAvailable"}
        /\ Category(p, e) = "none"
        /\ KA!IsAuthenticationError(e) <=> e.is \in KA!Authentication
    BY <1>4 DEF Permanent, Retryable, Temporary, Category, KA!IsRetryableError,
                KA!IsTemporaryError, KA!IsPermanentError, KA!IsAuthenticationError
  <2>2. /\ KA!Permanent \cap
              (KA!Retryable \cup {"ErrRebalanceInProgress", "ErrLeaderNotAvailable"}) = {}
        /\ KA!Authentication \subseteq KA!Permanent
    BY DEF KA!Permanent, KA!Retryable, KA!Authentication
  <2>3. "none" \notin CallersCategories
    BY DEF CallersCategories
  <2> QED
    BY <2>1, <2>2, <2>3
<1> QED
  BY <1>1, <1>2, <1>3, <1>4 DEF Packages

LEMMA AgreeAlways == ErrInv => ClassificationsAgree
<1> SUFFICES ASSUME ErrInv PROVE ClassificationsAgree
  OBVIOUS
<1>1. pkg \in Packages
  BY DEF ErrInv
<1> QED
  BY <1>1, EveryClass DEF ClassificationsAgree, CallersCategories

THEOREM Agree == ErrorSpec => []ClassificationsAgree
<1>1. ErrorSpec => []ErrInv
  BY ErrInitially, ErrStep, PTL DEF ErrorSpec
<1> QED
  BY <1>1, AgreeAlways, PTL

-----------------------------------------------------------------------------
\* Phrases within phrases.
InsideOf(p) ==
    CASE p = "postgres" -> PG!Inside
      [] p = "mariadb"  -> MY!Inside
      [] p = "minio"    -> S3!Inside
      [] p = "kafka"    -> KA!Inside

LEMMA SwitchOf ==
    ASSUME NEW p \in Packages
    PROVE  Switch(p).cases = CasesOf(p) /\ Switch(p).inside = InsideOf(p)
BY DEF Packages, Switch, CasesOf, InsideOf

\* The phrases within one are of its kind, but for the timeout in the message of an
\* invalid session timeout in Kafka.
LEMMA InsideKinds ==
    ASSUME NEW p \in Packages, NEW q \in DOMAIN InsideOf(p),
           p = "kafka" => q # "invalid_session_timeout"
    PROVE  IF q \in TransientOf(p) THEN InsideOf(p)[q] \subseteq TransientOf(p)
                                   ELSE InsideOf(p)[q] \cap TransientOf(p) = {}
<1>1. CASE p = "postgres"
  <2>1. InsideOf(p) = PG!Inside /\ TransientOf(p) = PostgresTransient
    BY <1>1 DEF InsideOf, TransientOf
  <2> QED
    BY <2>1 DEF PG!Inside, PostgresTransient
<1>2. CASE p = "mariadb"
  <2>1. InsideOf(p) = MY!Inside /\ TransientOf(p) = MariaDBTransient
    BY <1>2 DEF InsideOf, TransientOf
  <2> QED
    BY <2>1 DEF MY!Inside, MariaDBTransient
<1>3. CASE p = "minio"
  <2>1. InsideOf(p) = S3!Inside /\ TransientOf(p) = MinioTransient
    BY <1>3 DEF InsideOf, TransientOf
  <2> QED
    BY <2>1 DEF S3!Inside, MinioTransient
<1>4. CASE p = "kafka"
  <2>1. InsideOf(p) = KA!Inside /\ TransientOf(p) = KafkaTransient
    BY <1>4 DEF InsideOf, TransientOf
  <2> QED
    BY <1>4, <2>1 DEF KA!Inside, KafkaTransient
<1> QED
  BY <1>1, <1>2, <1>3, <1>4 DEF Packages

LEMMA HiddenAlike ==
    ASSUME NEW p \in Packages, NEW i \in DOMAIN CasesOf(p), NEW a \in CasesOf(p)[i].any, NEW e,
           e.is = PG!Plain, e.text = PG!WithInside(a, InsideOf(p))
    PROVE  Translated(p, e).is \in RetrySet(p) <=> CasesOf(p)[i].gives \in RetrySet(p)
<1> DEFINE C == CasesOf(p)
           d == Txt!ByMessage(e, C, TextsOf(p))
<1>1. Translated(p, e) = d
  <2>1. PG!Plain \notin CodesOf(p)
    BY EveryCode
  <2> QED
    BY <2>1, Translates
<1>2. /\ DOMAIN C \subseteq Nat
      /\ Separates(C, RetrySet(p), TransientOf(p), NeutralOf(p))
      /\ PG!Plain \notin RetrySet(p)
  BY EverySwitch, EveryCode
<1>3. /\ a \subseteq e.text
      /\ \A w \in e.text : w \in a \/ \E q \in a \cap DOMAIN InsideOf(p) : w \in InsideOf(p)[q]
  BY DEF PG!WithInside
<1>4. i \in Txt!Matching(C, e.text)
  BY <1>3 DEF Txt!Matching
<1>5. IF C[i].gives \in RetrySet(p) THEN a \subseteq TransientOf(p) ELSE a \cap TransientOf(p) = {}
  BY <1>2 DEF Separates, Splits
<1>6. CASE p = "kafka" => "invalid_session_timeout" \notin a
  <2>1. IF C[i].gives \in RetrySet(p) THEN e.text \subseteq TransientOf(p)
                                      ELSE e.text \cap TransientOf(p) = {}
    <3>1. \A q \in a \cap DOMAIN InsideOf(p) :
            IF q \in TransientOf(p) THEN InsideOf(p)[q] \subseteq TransientOf(p)
                                    ELSE InsideOf(p)[q] \cap TransientOf(p) = {}
      BY <1>6, InsideKinds
    <3> QED
      BY <1>3, <1>5, <3>1
  <2>2. /\ e.text \cap TransientOf(p) = {} /\ e.is \notin RetrySet(p) => d.is \notin RetrySet(p)
        /\ e.text \subseteq TransientOf(p) /\ Txt!Matching(C, e.text) # {}
              => d.is \in RetrySet(p)
    <3> HIDE DEF C
    <3> QED
      BY <1>2, Decides
  <2>3. e.is \notin RetrySet(p) /\ Txt!Matching(C, e.text) # {}
    BY <1>2, <1>4
  <2> HIDE DEF d
  <2>4. CASE C[i].gives \in RetrySet(p)
    BY <1>1, <2>1, <2>2, <2>3, <2>4
  <2>5. CASE C[i].gives \notin RetrySet(p)
    BY <1>1, <2>1, <2>2, <2>3, <2>5
  <2> QED
    BY <2>4, <2>5
<1>7. CASE p = "kafka" /\ "invalid_session_timeout" \in a
  <2>1. /\ C = KA!Cases /\ TextsOf(p) = KA!Texts /\ RetrySet(p) = KA!Retryable
        /\ TransientOf(p) = KafkaTransient /\ InsideOf(p) = KA!Inside
    BY <1>7 DEF CasesOf, TextsOf, RetrySet, TransientOf, InsideOf
  <2>2. C[i].gives \notin RetrySet(p)
    BY <1>5, <1>7, <2>1 DEF KafkaTransient
  <2>3. a = {"invalid_session_timeout"}
    <3>1. \A n, S : \A b \in KA!Says(n, S).any : \A q, w \in b : q = w
      BY DEF KA!Says
    <3>2. \A j \in DOMAIN KA!Cases : \A b \in KA!Cases[j].any : \A q, w \in b : q = w
      BY <3>1, KafkaSwitch DEF KA!Cases
    <3>3. i \in DOMAIN KA!Cases /\ a \in KA!Cases[i].any
      BY <2>1
    <3>4. \A q, w \in a : q = w
      BY <3>2, <3>3
    <3> QED
      BY <1>7, <3>4
  <2>4. e.text = {"invalid_session_timeout", "timeout"}
    <3>1. /\ "invalid_session_timeout" \in DOMAIN KA!Inside
          /\ KA!Inside["invalid_session_timeout"] = {"timeout"}
      BY DEF KA!Inside
    <3> QED
      BY <2>1, <2>3, <3>1 DEF PG!WithInside
  <2> QED
    BY <1>1, <2>1, <2>2, <2>4, KafkaSessionTimeout
<1> QED
  BY <1>6, <1>7

LEMMA HiddenAlways == ErrInv => HiddenCasesDecideAlike
<1> SUFFICES ASSUME ErrInv,
                    NEW i \in DOMAIN Switch(pkg).cases, NEW a \in Switch(pkg).cases[i].any,
                    raw = PG!Error(PG!Plain, PG!WithInside(a, Switch(pkg).inside))
             PROVE  Retryable(pkg, Translated(pkg, raw))
                        <=> Retryable(pkg, PG!Error(Switch(pkg).cases[i].gives, {}))
  BY DEF HiddenCasesDecideAlike
<1>1. pkg \in Packages
  BY DEF ErrInv
<1>2. Switch(pkg).cases = CasesOf(pkg) /\ Switch(pkg).inside = InsideOf(pkg)
  BY <1>1, SwitchOf
<1>3. raw.is = PG!Plain /\ raw.text = PG!WithInside(a, InsideOf(pkg))
  BY <1>2 DEF PG!Error
<1>4. Translated(pkg, raw).is \in RetrySet(pkg) <=> CasesOf(pkg)[i].gives \in RetrySet(pkg)
  BY <1>1, <1>2, <1>3, HiddenAlike
<1>5. PG!Error(CasesOf(pkg)[i].gives, {}).is = CasesOf(pkg)[i].gives
  BY DEF PG!Error
<1> QED
  BY <1>1, <1>2, <1>4, <1>5, Decisions

THEOREM HiddenCases == ErrorSpec => []HiddenCasesDecideAlike
<1>1. ErrorSpec => []ErrInv
  BY ErrInitially, ErrStep, PTL DEF ErrorSpec
<1> QED
  BY <1>1, HiddenAlways, PTL
=============================================================================
