----------------------------- MODULE PostgresErrors -----------------------------
(***************************************************************************)
(* errors.go of package postgres: TranslateError.  A SQLSTATE is its code; *)
(* the codes of a class are listed by the error they become.               *)
(***************************************************************************)
EXTENDS SQLErrors

\* translatePostgreSQLError, classes 00 to 21
Class0 ==
    [ ErrInvalidData            |-> {"01000"},
      ErrRecordNotFound         |-> {"02000", "02001", "20000"},
      ErrInvalidQuery           |-> {"03000"},
      ErrConnectionFailed       |-> {"08000", "08001", "08004"},
      ErrConnectionLost         |-> {"08003", "08006"},
      ErrTransactionFailed      |-> {"08007", "0B000"},
      ErrProtocolViolation      |-> {"08P01"},
      ErrTriggerNotFound        |-> {"09000"},
      ErrUnsupportedOperation   |-> {"0A000"},
      ErrInvalidCursor          |-> {"0F000", "0F001"},
      ErrPermissionDenied       |-> {"0L000", "0P000"},
      ErrInsufficientPrivileges |-> {"0LP01"},
      ErrSystemError            |-> {"0Z000", "0Z002"},
      ErrConstraintViolation    |-> {"21000"} ]

\* classes 22 and 23
Class22 ==
    [ ErrInvalidData              |-> {"22000", "22009", "22019", "22023", "22024", "22025",
                                       "22027", "2202E", "2202F", "22P04", "22P06"},
      ErrDataTooLong              |-> {"22001", "22026"},
      ErrNotNullViolation         |-> {"22002", "22004", "23502"},
      ErrNumericOverflow          |-> {"22003", "22008", "22015", "22022", "22P01"},
      ErrInvalidDataType          |-> {"22005", "22007", "22018", "22021", "22P02", "22P03",
                                       "22P05"},
      ErrDivisionByZero           |-> {"22012"},
      ErrInvalidJSON              |-> {"22030", "22032", "22033", "22034", "22035", "22036",
                                       "22037", "22038", "22039", "2203A", "2203B", "2203C",
                                       "2203D", "2203E", "2203F"},
      ErrConstraintViolation      |-> {"23000", "23P01"},
      ErrForeignKey               |-> {"23001", "23503"},
      ErrDuplicateKey             |-> {"23505"},
      ErrCheckConstraintViolation |-> {"23514"} ]

\* classes 24 to 40
Class24 ==
    [ ErrInvalidCursor        |-> {"24000"},
      ErrTransactionFailed    |-> {"25000", "25001", "25002", "25003", "25004", "25005",
                                   "25006", "25007", "25008", "25P01", "25P02", "2D000",
                                   "3B000", "3B001", "40000", "40003"},
      ErrIdleInTransaction    |-> {"25P03"},
      ErrInvalidQuery         |-> {"26000"},
      ErrTriggerNotFound      |-> {"27000", "39P01", "39P03"},
      ErrInvalidPassword      |-> {"28000", "28P01"},
      ErrConstraintViolation  |-> {"2B000", "2BP01", "40002"},
      ErrFunctionNotFound     |-> {"2F000", "2F005", "38000", "39000", "39001", "39P02"},
      ErrPermissionDenied     |-> {"2F002", "2F003", "2F004", "38001", "38002", "38003",
                                   "38004"},
      ErrCursorNotFound       |-> {"34000"},
      ErrNotNullViolation     |-> {"39004"},
      ErrDatabaseNotFound     |-> {"3D000"},
      ErrSchemaNotFound       |-> {"3F000"},
      ErrSerializationFailure |-> {"40001"},
      ErrDeadlock             |-> {"40P01"} ]

\* classes 42 to 53
Class42 ==
    [ ErrInvalidQuery             |-> {"42000", "42601", "42602", "42611", "42803", "42809",
                                       "42939", "42P02", "42P08", "42P09", "42P14", "42P19",
                                       "42P20"},
      ErrInsufficientPrivileges   |-> {"42501"},
      ErrDataTooLong              |-> {"42622"},
      ErrDuplicateKey             |-> {"42701", "42710", "42712", "42723", "42P04", "42P05",
                                       "42P06", "42P07"},
      ErrColumnNotFound           |-> {"42702", "42703", "42P10"},
      ErrTableNotFound            |-> {"42704", "42P01"},
      ErrFunctionNotFound         |-> {"42725", "42883", "42P13"},
      ErrInvalidDataType          |-> {"42804", "42846", "42P18", "42P21", "42P22"},
      ErrForeignKey               |-> {"42830"},
      ErrInvalidCursor            |-> {"42P03", "42P11"},
      ErrConfigurationError       |-> {"42P12", "53400"},
      ErrSchemaValidation         |-> {"42P15", "42P16", "42P17"},
      ErrCheckConstraintViolation |-> {"44000"},
      ErrSystemError              |-> {"53000", "53200"},
      ErrDiskFull                 |-> {"53100"},
      ErrTooManyConnections       |-> {"53300"} ]

\* classes 54 to XX
Class54 ==
    [ ErrSystemError              |-> {"54000", "55000", "55006", "57000", "57P01", "57P02",
                                       "58000", "58030", "58P01", "58P02", "HV000", "HV009",
                                       "HV00K", "HV00R", "HV010", "HV014", "HV016", "HV01A",
                                       "HV01D"},
      ErrInvalidQuery             |-> {"54001", "54023"},
      ErrSchemaValidation         |-> {"54011"},
      ErrConfigurationError       |-> {"55P02", "F0000", "F0001", "HV019"},
      ErrLockTimeout              |-> {"55P03"},
      ErrUnsupportedOperation     |-> {"55P04"},
      ErrQueryTimeout             |-> {"57014", "57P05"},
      ErrConnectionFailed         |-> {"57P03", "HV017"},
      ErrDatabaseNotFound         |-> {"57P04"},
      ErrColumnNotFound           |-> {"HV005", "HV00B", "HV00C"},
      ErrInvalidData              |-> {"HV007", "HV00A", "HV00J", "HV00L", "HV00M", "HV00P",
                                       "HV00Q"},
      ErrFunctionNotFound         |-> {"HV008", "P0000", "P0001"},
      ErrInvalidDataType          |-> {"HV00D"},
      ErrDataTooLong              |-> {"HV00N"},
      ErrSchemaNotFound           |-> {"HV018", "HV01B"},
      ErrTableNotFound            |-> {"HV01C"},
      ErrRecordNotFound           |-> {"P0002"},
      ErrConstraintViolation      |-> {"P0003"},
      ErrCheckConstraintViolation |-> {"P0004"},
      ErrInternalError            |-> {"XX000"},
      ErrIndexCorruption          |-> {"XX001", "XX002"} ]

Codes == <<Class0, Class22, Class24, Class42, Class54>>

DriverCodes == CodesOf(Codes) \cup {"another_SQLSTATE"}

\* Phrases within phrases.
Inside ==
    [ statement_timeout                            |-> {"timeout"},
      canceling_statement_due_to_statement_timeout |-> {"statement_timeout", "timeout"},
      lock_timeout                                 |-> {"timeout"},
      index_corruption                             |-> {"index"},
      invalid_cursor                               |-> {"cursor"} ]

\* translateByErrorMessage
Cases ==
    <<Says("ErrConnectionFailed", {"connection_refused"}),
      Says("ErrConnectionLost", {"connection_reset"}),
      Says("ErrTooManyConnections", {"too_many_clients"}),
      Says("ErrConnectionFailed", {"connection_timed_out"}),
      Says("ErrConnectionLost", {"server_closed_the_connection"}),
      Says("ErrStatementTimeout", {"statement_timeout",
                                   "canceling_statement_due_to_statement_timeout"}),
      Says("ErrLockTimeout", {"lock_timeout"}), Says("ErrQueryTimeout", {"timeout"}),
      Says("ErrIdleInTransaction", {"idle_in_transaction"}),
      Says("ErrDeadlock", {"deadlock"}),
      Says("ErrLockTimeout", {"could_not_obtain_lock"}),
      Says("ErrDataTooLong", {"value_too_long"}),
      Says("ErrInvalidDataType", {"invalid_input_syntax"}),
      Says("ErrInvalidJSON", {"invalid_json"}),
      Says("ErrDivisionByZero", {"division_by_zero"}),
      Says("ErrNumericOverflow", {"numeric_field_overflow"}),
      Says("ErrCheckConstraintViolation", {"violates_check_constraint"}),
      Says("ErrDuplicateKey", {"duplicated_key_not_allowed", "duplicate_key"}),
      Says("ErrNotNullViolation", {"violates_not_null_constraint"}),
      Says("ErrForeignKey", {"violates_foreign_key_constraint"}),
      Says("ErrDuplicateKey", {"violates_unique_constraint"}),
      Both("ErrTableNotFound", "relation", "does_not_exist"),
      Both("ErrColumnNotFound", "column", "does_not_exist"),
      Both("ErrFunctionNotFound", "function", "does_not_exist"),
      Both("ErrDatabaseNotFound", "database", "does_not_exist"),
      Both("ErrSchemaNotFound", "schema", "does_not_exist"),
      Both("ErrSequenceNotFound", "sequence", "does_not_exist"),
      Both("ErrIndexNotFound", "index", "does_not_exist"),
      Both("ErrViewNotFound", "view", "does_not_exist"),
      Both("ErrTriggerNotFound", "trigger", "does_not_exist"),
      Says("ErrColumnNotFound", {"invalid_field"}),
      Says("ErrPermissionDenied", {"permission_denied"}),
      Says("ErrInsufficientPrivileges", {"insufficient_privilege"}),
      Says("ErrInvalidPassword", {"authentication_failed"}),
      Both("ErrInvalidPassword", "role", "does_not_exist"),
      Says("ErrDiskFull", {"disk_full"}), Says("ErrSystemError", {"out_of_memory"}),
      Says("ErrInternalError", {"internal_error"}),
      Says("ErrIndexCorruption", {"index_corruption", "corrupted"}),
      Both("ErrCursorNotFound", "cursor", "does_not_exist"),
      Says("ErrInvalidCursor", {"invalid_cursor"}),
      Says("ErrMigrationFailed", {"migration"}), Says("ErrBackupFailed", {"backup"}),
      Says("ErrRestoreFailed", {"restore"})>>

\* The phrases in the messages of the package's own errors.
Texts ==
    [ ErrDuplicateKey           |-> {"duplicate_key"},
      ErrConnectionFailed       |-> {"database"},
      ErrQueryTimeout           |-> {"timeout"},
      ErrPermissionDenied       |-> {"permission_denied"},
      ErrColumnNotFound         |-> {"column"},
      ErrDataTooLong            |-> {"column"},
      ErrDeadlock               |-> {"deadlock"},
      ErrLockTimeout            |-> {"timeout"},
      ErrDivisionByZero         |-> {"division_by_zero"},
      ErrDiskFull               |-> {"disk_full"},
      ErrInvalidJSON            |-> {"invalid_json"},
      ErrIndexCorruption        |-> {"index", "index_corruption"},
      ErrConfigurationError     |-> {"database"},
      ErrMigrationFailed        |-> {"migration"},
      ErrBackupFailed           |-> {"backup"},
      ErrRestoreFailed          |-> {"restore"},
      ErrSchemaValidation       |-> {"schema"},
      ErrInsufficientPrivileges |-> {"insufficient_privilege"},
      ErrDatabaseNotFound       |-> {"database"},
      ErrSchemaNotFound         |-> {"schema"},
      ErrFunctionNotFound       |-> {"function"},
      ErrTriggerNotFound        |-> {"trigger"},
      ErrIndexNotFound          |-> {"index"},
      ErrViewNotFound           |-> {"view"},
      ErrSequenceNotFound       |-> {"sequence"},
      ErrInvalidCursor          |-> {"cursor", "invalid_cursor"},
      ErrCursorNotFound         |-> {"cursor"},
      ErrStatementTimeout       |-> {"statement_timeout", "timeout"},
      ErrIdleInTransaction      |-> {"timeout", "idle_in_transaction"},
      ErrInternalError          |-> {"database"} ]

\* Sentinels of gorm first, then the code of a driver error, then the message.
TranslateError(err) ==
    CASE err.is \in Sentinels   -> Own(ByCode(err.is, <<GormErrors>>, ""), Texts)
      [] err.is \in DriverCodes -> Own(ByCode(err.is, Codes, "ErrSystemError"), Texts)
      [] OTHER -> ByMessage(err, Cases, Texts)

\* What the messages of the package's own wrappers (fmt.Errorf) add.
Contexts == {{}, {"database"}, {"migration"}}

RawErrors ==
    {Error(c, {}) : c \in Sentinels \cup DriverCodes}
        \cup {Error(Plain, t) : t \in CaseTexts(Cases, Inside)}
=============================================================================
