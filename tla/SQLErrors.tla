----------------------------- MODULE SQLErrors -----------------------------
(***************************************************************************)
(* The part of errors.go that is the same in packages postgres and         *)
(* mariadb: the sentinels of gorm and the classification of errors.        *)
(***************************************************************************)
EXTENDS ErrorText

\* TranslateError, first switch: by sentinels of gorm.
GormErrors ==
    [ ErrRecordNotFound       |-> {"gorm.ErrRecordNotFound"},
      ErrDuplicateKey         |-> {"gorm.ErrDuplicatedKey"},
      ErrForeignKey           |-> {"gorm.ErrForeignKeyViolated"},
      ErrInvalidData          |-> {"gorm.ErrInvalidData", "gorm.ErrModelValueRequired",
                                   "gorm.ErrEmptySlice", "gorm.ErrInvalidValue"},
      ErrTransactionFailed    |-> {"gorm.ErrInvalidTransaction"},
      ErrUnsupportedOperation |-> {"gorm.ErrNotImplemented", "gorm.ErrUnsupportedRelation",
                                   "gorm.ErrDryRunModeUnsupported"},
      ErrInvalidQuery         |-> {"gorm.ErrMissingWhereClause"},
      ErrConstraintViolation  |-> {"gorm.ErrPrimaryKeyRequired"},
      ErrColumnNotFound       |-> {"gorm.ErrInvalidField"},
      ErrConfigurationError   |-> {"gorm.ErrInvalidDB"},
      ErrDataTooLong          |-> {"gorm.ErrInvalidValueOfLength"} ]

Sentinels == CodesOf(<<GormErrors>>)

\* GetErrorCategory
Categories ==
    [ CategoryConnection  |-> {"ErrConnectionFailed", "ErrConnectionLost",
                               "ErrTooManyConnections"},
      CategoryQuery       |-> {"ErrInvalidQuery", "ErrQueryTimeout", "ErrStatementTimeout",
                               "ErrInvalidCursor", "ErrCursorNotFound"},
      CategoryData        |-> {"ErrInvalidData", "ErrDataTooLong", "ErrInvalidDataType",
                               "ErrInvalidJSON", "ErrDivisionByZero", "ErrNumericOverflow"},
      CategoryConstraint  |-> {"ErrDuplicateKey", "ErrForeignKey", "ErrConstraintViolation",
                               "ErrCheckConstraintViolation", "ErrNotNullViolation"},
      CategoryPermission  |-> {"ErrPermissionDenied", "ErrInsufficientPrivileges",
                               "ErrInvalidPassword", "ErrAccountLocked"},
      CategoryTransaction |-> {"ErrTransactionFailed", "ErrDeadlock",
                               "ErrSerializationFailure", "ErrIdleInTransaction"},
      CategoryResource    |-> {"ErrDiskFull", "ErrLockTimeout"},
      CategorySystem      |-> {"ErrInternalError", "ErrSystemError", "ErrIndexCorruption",
                               "ErrProtocolViolation", "ErrConfigurationError"},
      CategorySchema      |-> {"ErrTableNotFound", "ErrColumnNotFound",
                               "ErrDatabaseNotFound", "ErrSchemaNotFound",
                               "ErrFunctionNotFound", "ErrTriggerNotFound",
                               "ErrIndexNotFound", "ErrViewNotFound", "ErrSequenceNotFound"},
      CategoryOperation   |-> {"ErrUnsupportedOperation", "ErrMigrationFailed",
                               "ErrBackupFailed", "ErrRestoreFailed", "ErrSchemaValidation",
                               "ErrRecordNotFound"} ]

GetErrorCategory(err) == CategoryOf(err, Categories)

\* A mistake: what makes a transaction fail, without the connection and the locks.
RetryableTransactions == {"ErrDeadlock", "ErrSerializationFailure", "ErrIdleInTransaction"}

\* IsRetryable
Retryable == {"ErrConnectionFailed", "ErrConnectionLost", "ErrQueryTimeout",
              "ErrStatementTimeout", "ErrDeadlock", "ErrLockTimeout",
              "ErrSerializationFailure", "ErrTooManyConnections", "ErrIdleInTransaction",
              "ErrProtocolViolation", "ErrInternalError"}

\* IsTemporary
Temporary == {"ErrConnectionLost", "ErrQueryTimeout", "ErrStatementTimeout",
              "ErrLockTimeout", "ErrTooManyConnections", "ErrDiskFull",
              "ErrIdleInTransaction", "ErrSerializationFailure"}

\* IsCritical
Critical == {"ErrIndexCorruption", "ErrSystemError", "ErrConfigurationError",
             "ErrProtocolViolation", "ErrDiskFull", "ErrInternalError"}

IsRetryable(err) == err.is \in Retryable
IsTemporary(err) == err.is \in Temporary
IsCritical(err)  == err.is \in Critical
=============================================================================
