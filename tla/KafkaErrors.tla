----------------------------- MODULE KafkaErrors -----------------------------
(***************************************************************************)
(* errors.go of package kafka: errors are told apart by their messages     *)
(* alone, and there is no GetErrorCategory.                                *)
(***************************************************************************)
EXTENDS ErrorText

\* Phrases within phrases.
Inside ==
    [ sasl_authentication_failed |-> {"authentication_failed"},
      invalid_session_timeout    |-> {"timeout"},
      invalid_message_size       |-> {"invalid_message"},
      io_timeout                 |-> {"timeout"} ]

\* translateByErrorMessage
Cases ==
    <<Says("ErrConnectionFailed", {"connection_refused"}),
      Says("ErrConnectionLost", {"connection_reset", "connection_closed"}),
      Says("ErrBrokerNotAvailable", {"broker_not_available"}),
      Says("ErrReplicaNotAvailable", {"replica_not_available"}),
      Says("ErrAuthenticationFailed", {"authentication_failed",
                                       "sasl_authentication_failed"}),
      Says("ErrAuthorizationFailed", {"authorization_failed"}),
      Says("ErrInvalidCredentials", {"invalid_credentials"}),
      Says("ErrTopicNotFound", {"topic_not_found", "unknown_topic"}),
      Says("ErrTopicAlreadyExists", {"topic_already_exists"}),
      Says("ErrPartitionNotFound", {"partition_not_found", "unknown_partition"}),
      Says("ErrInvalidPartition", {"invalid_partition"}),
      Says("ErrGroupCoordinatorNotAvailable", {"group_coordinator_not_available"}),
      Says("ErrNotGroupCoordinator", {"not_coordinator_for_group", "not_group_coordinator"}),
      Says("ErrInvalidGroupID", {"invalid_group_id"}),
      Says("ErrUnknownMemberID", {"unknown_member_id"}),
      Says("ErrInvalidSessionTimeout", {"invalid_session_timeout"}),
      Says("ErrRebalanceInProgress", {"rebalance_in_progress"}),
      Says("ErrOffsetOutOfRange", {"offset_out_of_range"}),
      Says("ErrInvalidCommitOffset", {"invalid_commit_offset"}),
      Says("ErrMessageTooLarge", {"message_too_large", "record_too_large"}),
      Says("ErrInvalidMessage", {"invalid_message"}),
      Says("ErrInvalidMessageSize", {"invalid_message_size"}),
      Says("ErrLeaderNotAvailable", {"leader_not_available"}),
      Says("ErrNotLeaderForPartition", {"not_leader_for_partition"}),
      Says("ErrRequestTimedOut", {"request_timed_out", "timeout"}),
      Says("ErrContextDeadlineExceeded", {"deadline_exceeded"}),
      Says("ErrNetworkError", {"network", "dial", "io_timeout"}),
      Says("ErrProducerFenced", {"producer_fenced"}),
      Says("ErrInvalidProducerEpoch", {"invalid_producer_epoch"}),
      Says("ErrTransactionCoordinatorFenced", {"transaction_coordinator_fenced"}),
      Says("ErrInvalidTransactionState", {"invalid_transaction_state"}),
      Says("ErrInvalidTxnState", {"invalid_txn_state"}),
      Says("ErrUnsupportedVersion", {"unsupported_version"}),
      Says("ErrUnsupportedForMessageFormat", {"unsupported_for_message_format"}),
      Says("ErrInvalidRequest", {"invalid_request"}),
      Says("ErrInvalidConfig", {"invalid_config"}),
      Says("ErrInvalidReplicationFactor", {"invalid_replication_factor"}),
      Says("ErrOutOfOrderSequence", {"out_of_order_sequence"}),
      Says("ErrDuplicateSequence", {"duplicate_sequence"}),
      Says("ErrContextCanceled", {"context_canceled", "context_cancelled"})>>

\* The phrases in the messages of the package's own errors.
Texts ==
    [ ErrBrokerNotAvailable           |-> {"broker_not_available"},
      ErrReplicaNotAvailable          |-> {"replica_not_available"},
      ErrAuthenticationFailed         |-> {"authentication_failed"},
      ErrAuthorizationFailed          |-> {"authorization_failed"},
      ErrInvalidCredentials           |-> {"invalid_credentials"},
      ErrTopicNotFound                |-> {"topic_not_found"},
      ErrTopicAlreadyExists           |-> {"topic_already_exists"},
      ErrPartitionNotFound            |-> {"partition_not_found"},
      ErrInvalidPartition             |-> {"invalid_partition"},
      ErrGroupCoordinatorNotAvailable |-> {"group_coordinator_not_available"},
      ErrNotGroupCoordinator          |-> {"not_group_coordinator"},
      ErrInvalidGroupID               |-> {"invalid_group_id"},
      ErrUnknownMemberID              |-> {"unknown_member_id"},
      ErrInvalidSessionTimeout        |-> {"invalid_session_timeout", "timeout"},
      ErrRebalanceInProgress          |-> {"rebalance_in_progress"},
      ErrInvalidCommitOffset          |-> {"invalid_commit_offset"},
      ErrMessageTooLarge              |-> {"message_too_large"},
      ErrInvalidMessage               |-> {"invalid_message"},
      ErrInvalidMessageSize           |-> {"invalid_message", "invalid_message_size"},
      ErrOffsetOutOfRange             |-> {"offset_out_of_range"},
      ErrLeaderNotAvailable           |-> {"leader_not_available"},
      ErrNotLeaderForPartition        |-> {"not_leader_for_partition"},
      ErrRequestTimedOut              |-> {"request_timed_out"},
      ErrNetworkError                 |-> {"network"},
      ErrProducerFenced               |-> {"producer_fenced"},
      ErrTransactionCoordinatorFenced |-> {"transaction_coordinator_fenced"},
      ErrInvalidTransactionState      |-> {"invalid_transaction_state"},
      ErrInvalidProducerEpoch         |-> {"invalid_producer_epoch"},
      ErrInvalidTxnState              |-> {"invalid_transaction_state"},
      ErrUnsupportedVersion           |-> {"unsupported_version"},
      ErrUnsupportedForMessageFormat  |-> {"unsupported_for_message_format"},
      ErrInvalidRequest               |-> {"invalid_request"},
      ErrInvalidConfig                |-> {"invalid_config"},
      ErrInvalidReplicationFactor     |-> {"invalid_replication_factor"},
      ErrReplicaNotAvailableError     |-> {"replica_not_available"},
      ErrOutOfOrderSequence           |-> {"out_of_order_sequence"},
      ErrDuplicateSequence            |-> {"duplicate_sequence"},
      ErrContextCanceled              |-> {"context_canceled"},
      ErrContextDeadlineExceeded      |-> {"deadline_exceeded"} ]

TranslateError(err) == ByMessage(err, Cases, Texts)

\* A mistake: timeouts are not in the list.
RetryableButTimeouts == {"ErrConnectionFailed", "ErrConnectionLost",
                         "ErrBrokerNotAvailable", "ErrReplicaNotAvailable",
                         "ErrLeaderNotAvailable", "ErrNotLeaderForPartition",
                         "ErrNetworkError", "ErrGroupCoordinatorNotAvailable",
                         "ErrNotGroupCoordinator", "ErrRebalanceInProgress"}

\* IsRetryableError
Retryable == {"ErrConnectionFailed", "ErrConnectionLost", "ErrBrokerNotAvailable",
              "ErrReplicaNotAvailable", "ErrLeaderNotAvailable", "ErrNotLeaderForPartition",
              "ErrRequestTimedOut", "ErrNetworkError", "ErrGroupCoordinatorNotAvailable",
              "ErrNotGroupCoordinator", "ErrRebalanceInProgress"}

\* IsPermanentError
Permanent == {"ErrAuthenticationFailed", "ErrAuthorizationFailed", "ErrInvalidCredentials",
              "ErrTopicNotFound", "ErrTopicAlreadyExists", "ErrPartitionNotFound",
              "ErrInvalidPartition", "ErrInvalidGroupID", "ErrInvalidMessage",
              "ErrInvalidRequest", "ErrInvalidConfig", "ErrUnsupportedVersion",
              "ErrContextCanceled"}

\* IsAuthenticationError
Authentication == {"ErrAuthenticationFailed", "ErrAuthorizationFailed",
                   "ErrInvalidCredentials"}

IsRetryableError(err) == err.is \in Retryable
IsTemporaryError(err) ==
    IsRetryableError(err) \/ err.is \in {"ErrRebalanceInProgress", "ErrLeaderNotAvailable"}
IsPermanentError(err) == err.is \in Permanent
IsAuthenticationError(err) == err.is \in Authentication

\* The package's own wrappers (fmt.Errorf) add none of the phrases.
Contexts == {{}}

RawErrors == {Error(Plain, t) : t \in CaseTexts(Cases, Inside)}
=============================================================================
