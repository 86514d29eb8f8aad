----------------------------- MODULE MinioErrors -----------------------------
(***************************************************************************)
(* errors.go of package minio.  The code of an ErrorResponse is the error  *)
(* found in the chain; a code the switch does not list stands as its HTTP  *)
(* status.  A url.Error stands as its Op, or as the phrase that its own    *)
(* message (not the one around it) is searched for.                        *)
(***************************************************************************)
EXTENDS ErrorText

\* translateMinIOError: by Code,
ResponseCodes ==
    [ ErrBucketNotFound         |-> {"NoSuchBucket"},
      ErrObjectNotFound         |-> {"NoSuchKey"},
      ErrBucketAlreadyExists    |-> {"BucketAlreadyExists", "BucketAlreadyOwnedByYou"},
      ErrInvalidBucketName      |-> {"InvalidBucketName"},
      ErrInvalidObjectName      |-> {"InvalidObjectName", "KeyTooLong"},
      ErrAccessDenied           |-> {"AccessDenied"},
      ErrInvalidCredentials     |-> {"InvalidAccessKeyId", "SignatureDoesNotMatch"},
      ErrCredentialsExpired     |-> {"TokenRefreshRequired", "ExpiredToken"},
      ErrInvalidRange           |-> {"InvalidRange"},
      ErrObjectTooLarge         |-> {"EntityTooLarge"},
      ErrInvalidChecksum        |-> {"InvalidDigest", "BadDigest"},
      ErrInvalidArgument        |-> {"InvalidArgument", "InvalidRequest", "BadRequest",
                                     "IncompleteBody", "MissingContentLength",
                                     "MissingRequestBodyError", "RequestTimeTooSkewed",
                                     "RequestHeaderSectionTooLarge"},
      ErrMalformedXML           |-> {"MalformedXML"},
      ErrInvalidStorageClass    |-> {"InvalidStorageClass"},
      ErrInvalidPart            |-> {"InvalidPart", "InvalidPartOrder"},
      ErrInvalidUploadID        |-> {"NoSuchUpload"},
      ErrPreconditionFailed     |-> {"PreconditionFailed"},
      ErrBucketNotEmpty         |-> {"BucketNotEmpty"},
      ErrQuotaExceeded          |-> {"TooManyBuckets", "InsufficientStorage"},
      ErrInvalidMetadata        |-> {"MetadataTooLarge"},
      ErrInvalidEncryption      |-> {"InvalidEncryptionAlgorithm"},
      ErrObjectLocked           |-> {"InvalidObjectState"},
      ErrLockConfigurationError |-> {"ObjectLockConfigurationNotFoundError"},
      ErrRetentionPolicyError   |-> {"InvalidRetentionDate"},
      ErrInvalidVersion         |-> {"InvalidVersionId", "NoSuchVersion"},
      ErrConfigurationError     |-> {"InvalidLocationConstraint"},
      ErrLoggingError           |-> {"CrossLocationLoggingProhibited",
                                     "InvalidTargetBucketForLogging"},
      ErrPolicyError            |-> {"InvalidPolicyDocument", "MalformedPolicy"},
      ErrWebsiteError           |-> {"InvalidWebsiteConfiguration"},
      ErrCORSError              |-> {"InvalidCORSConfiguration"},
      ErrNotificationError      |-> {"InvalidNotificationConfiguration"},
      ErrLifecycleError         |-> {"InvalidLifecycleConfiguration"},
      ErrReplicationError       |-> {"InvalidReplicationConfiguration",
                                     "ReplicationConfigurationNotFoundError"},
      ErrTaggingError           |-> {"InvalidTagError"},
      ErrTimeout                |-> {"RequestTimeout"},
      ErrPartTooSmall           |-> {"EntityTooSmall"},
      ErrInvalidContentType     |-> {"InvalidContentType"},
      ErrTooManyRequests        |-> {"SlowDown", "TooManyRequests",
                                     "BandwidthLimitExceeded"},
      ErrNetworkError           |-> {"TemporaryRedirect"},
      ErrServerError            |-> {"InternalError", "ReducedRedundancyLostFraction"},
      ErrServiceUnavailable     |-> {"ServiceUnavailable"},
      ErrNotImplemented         |-> {"NotImplemented", "XNotImplemented"} ]

\* by StatusCode otherwise.
Statuses ==
    [ ErrInvalidArgument     |-> {"HTTP_400"},
      ErrInvalidCredentials  |-> {"HTTP_401"},
      ErrAccessDenied        |-> {"HTTP_403"},
      ErrObjectNotFound      |-> {"HTTP_404"},
      ErrBucketAlreadyExists |-> {"HTTP_409"},
      ErrPreconditionFailed  |-> {"HTTP_412"},
      ErrObjectTooLarge      |-> {"HTTP_413"},
      ErrInvalidRange        |-> {"HTTP_416"},
      ErrTooManyRequests     |-> {"HTTP_429"},
      ErrServerError         |-> {"HTTP_500"},
      ErrNotImplemented      |-> {"HTTP_501"},
      ErrServiceUnavailable  |-> {"HTTP_503"} ]

\* translateURLError
UrlErrors ==
    [ ErrConnectionFailed |-> {"url_dial", "url_connection_refused"},
      ErrConnectionLost   |-> {"url_read", "url_write", "url_connection_reset"},
      ErrTimeout          |-> {"url_timeout"},
      ErrNetworkError     |-> {"url_other"} ]

\* Phrases within phrases.
Inside ==
    [ connection_timeout    |-> {"timeout"},
      request_timeout       |-> {"timeout"},
      client_timeout        |-> {"timeout"},
      internal_server_error |-> {"server_error"},
      gateway_timeout       |-> {"timeout"},
      context_canceled      |-> {"canceled"},
      context_cancelled     |-> {"cancelled"} ]

\* translateByErrorMessage
Cases ==
    <<Says("ErrConnectionFailed", {"connection_refused"}),
      Says("ErrConnectionLost", {"connection_reset"}),
      Says("ErrTimeout", {"connection_timeout"}),
      Says("ErrConnectionFailed", {"connection_failed"}),
      Says("ErrNetworkError", {"network_is_unreachable", "no_route_to_host", "host_is_down"}),
      Says("ErrTimeout", {"timeout", "deadline_exceeded", "request_timeout",
                          "client_timeout"}),
      Says("ErrBucketNotFound", {"bucket_does_not_exist", "bucket_not_found"}),
      Says("ErrObjectNotFound", {"key_does_not_exist", "object_not_found"}),
      Says("ErrBucketNotFound", {"no_such_bucket"}),
      Says("ErrObjectNotFound", {"no_such_key"}),
      Says("ErrBucketAlreadyExists", {"bucket_already_exists"}),
      Says("ErrBucketNotEmpty", {"bucket_not_empty"}),
      Says("ErrAccessDenied", {"access_denied", "forbidden"}),
      Says("ErrInvalidCredentials", {"unauthorized", "invalid_credentials",
                                     "signature_mismatch", "invalid_access_key"}),
      Says("ErrCredentialsExpired", {"expired_token", "token_expired"}),
      Says("ErrInvalidChecksum", {"invalid_checksum", "bad_digest"}),
      Says("ErrObjectTooLarge", {"entity_too_large", "file_too_large"}),
      Says("ErrInvalidRange", {"invalid_range"}),
      Says("ErrInvalidPart", {"invalid_part"}),
      Says("ErrPartTooSmall", {"part_too_small"}),
      Says("ErrInvalidUploadID", {"invalid_upload_id"}),
      Says("ErrMalformedXML", {"malformed_xml", "invalid_xml"}),
      Says("ErrServerError", {"internal_server_error"}),
      Says("ErrServiceUnavailable", {"service_unavailable"}),
      Says("ErrServerError", {"server_error", "bad_gateway"}),
      Says("ErrTimeout", {"gateway_timeout"}),
      Says("ErrTooManyRequests", {"too_many_requests", "rate_limit", "slow_down"}),
      Says("ErrInvalidBucketName", {"invalid_bucket_name"}),
      Says("ErrInvalidObjectName", {"invalid_object_name", "invalid_key_name"}),
      Says("ErrInvalidArgument", {"invalid_argument", "invalid_request", "bad_request"}),
      Says("ErrQuotaExceeded", {"quota_exceeded", "insufficient_storage", "storage_quota"}),
      Says("ErrCancelled", {"canceled", "cancelled", "context_canceled",
                            "context_cancelled"}),
      Says("ErrInvalidVersion", {"invalid_version", "no_such_version"}),
      Says("ErrVersioningNotEnabled", {"versioning_not_enabled"}),
      Says("ErrObjectLocked", {"object_locked"}),
      Says("ErrRetentionPolicyError", {"retention_policy"}),
      Says("ErrLockConfigurationError", {"lock_configuration"})>>

\* The phrases in the messages of the package's own errors.
Texts ==
    [ ErrObjectNotFound         |-> {"object_not_found"},
      ErrBucketNotFound         |-> {"bucket_not_found"},
      ErrBucketAlreadyExists    |-> {"bucket_already_exists"},
      ErrInvalidBucketName      |-> {"invalid_bucket_name"},
      ErrInvalidObjectName      |-> {"invalid_object_name"},
      ErrAccessDenied           |-> {"access_denied"},
      ErrInvalidCredentials     |-> {"invalid_credentials"},
      ErrConnectionFailed       |-> {"connection_failed"},
      ErrTimeout                |-> {"timeout"},
      ErrInvalidRange           |-> {"invalid_range"},
      ErrInvalidChecksum        |-> {"invalid_checksum"},
      ErrServerError            |-> {"server_error"},
      ErrServiceUnavailable     |-> {"service_unavailable"},
      ErrTooManyRequests        |-> {"too_many_requests"},
      ErrQuotaExceeded          |-> {"quota_exceeded"},
      ErrBucketNotEmpty         |-> {"bucket_not_empty"},
      ErrInvalidPart            |-> {"invalid_part"},
      ErrInvalidUploadID        |-> {"invalid_upload_id"},
      ErrPartTooSmall           |-> {"part_too_small"},
      ErrInvalidArgument        |-> {"invalid_argument"},
      ErrCancelled              |-> {"cancelled"},
      ErrVersioningNotEnabled   |-> {"versioning_not_enabled"},
      ErrInvalidVersion         |-> {"invalid_version"},
      ErrLockConfigurationError |-> {"lock_configuration"},
      ErrObjectLocked           |-> {"object_locked"},
      ErrRetentionPolicyError   |-> {"retention_policy"},
      ErrMalformedXML           |-> {"malformed_xml"} ]

ServerErrors == <<ResponseCodes, Statuses>>
ServerCodes  == CodesOf(ServerErrors) \cup {"HTTP_other"}
UrlCodes     == CodesOf(<<UrlErrors>>)

TranslateError(err) ==
    CASE err.is \in ServerCodes -> Own(ByCode(err.is, ServerErrors, "ErrUnknownError"), Texts)
      [] err.is \in UrlCodes    -> Own(ByCode(err.is, <<UrlErrors>>, ""), Texts)
      [] OTHER -> ByMessage(err, Cases, Texts)

\* GetErrorCategory
Categories ==
    [ CategoryConnection     |-> {"ErrConnectionFailed", "ErrConnectionLost"},
      CategoryAuthentication |-> {"ErrInvalidCredentials", "ErrCredentialsExpired"},
      CategoryPermission     |-> {"ErrAccessDenied", "ErrInsufficientPermissions"},
      CategoryNotFound       |-> {"ErrObjectNotFound", "ErrBucketNotFound"},
      CategoryConflict       |-> {"ErrBucketAlreadyExists", "ErrBucketNotEmpty"},
      CategoryValidation     |-> {"ErrInvalidBucketName", "ErrInvalidObjectName",
                                  "ErrInvalidArgument", "ErrInvalidRange",
                                  "ErrInvalidChecksum", "ErrInvalidMetadata",
                                  "ErrInvalidContentType", "ErrMalformedXML"},
      CategoryServer         |-> {"ErrServerError", "ErrServiceUnavailable",
                                  "ErrInvalidResponse"},
      CategoryNetwork        |-> {"ErrNetworkError", "ErrInvalidURL"},
      CategoryTimeout        |-> {"ErrTimeout"},
      CategoryQuota          |-> {"ErrQuotaExceeded", "ErrObjectTooLarge"},
      CategoryConfiguration  |-> {"ErrConfigurationError", "ErrInvalidStorageClass"},
      CategoryVersioning     |-> {"ErrVersioningNotEnabled", "ErrInvalidVersion"},
      CategoryLocking        |-> {"ErrObjectLocked", "ErrLockConfigurationError",
                                  "ErrRetentionPolicyError"},
      CategoryOperation      |-> {"ErrNotImplemented", "ErrCancelled"} ]

GetErrorCategory(err) == CategoryOf(err, Categories)

\* IsRetryableError
Retryable == {"ErrConnectionFailed", "ErrConnectionLost", "ErrTimeout", "ErrNetworkError",
              "ErrServerError", "ErrServiceUnavailable", "ErrTooManyRequests",
              "ErrInvalidResponse"}

\* IsPermanentError
Permanent == {"ErrObjectNotFound", "ErrBucketNotFound", "ErrInvalidCredentials",
              "ErrAccessDenied", "ErrInvalidBucketName", "ErrInvalidObjectName",
              "ErrInvalidArgument", "ErrInvalidRange", "ErrInvalidChecksum",
              "ErrInvalidMetadata", "ErrInvalidContentType", "ErrMalformedXML",
              "ErrNotImplemented", "ErrCancelled"}

IsRetryableError(err) == err.is \in Retryable
IsPermanentError(err) == err.is \in Permanent

\* A mistake: what is not permanent is taken for temporary.
NotPermanent(err) == ~IsPermanentError(err)

IsTemporaryError(err) == IsRetryableError(err) \/ err.is = "ErrCredentialsExpired"

\* The package's own wrappers (fmt.Errorf) add none of the phrases.
Contexts == {{}}

RawErrors ==
    {Error(c, {}) : c \in ServerCodes \cup UrlCodes}
        \cup {Error(Plain, t) : t \in CaseTexts(Cases, Inside)}
=============================================================================
