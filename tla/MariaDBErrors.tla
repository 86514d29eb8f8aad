----------------------------- MODULE MariaDBErrors -----------------------------
(***************************************************************************)
(* errors.go of package mariadb: TranslateError.  The number of a          *)
(* MySQLError is listed by the error it becomes.                           *)
(***************************************************************************)
EXTENDS SQLErrors

\* translateMySQLError: data, schema, locks, connections
Numbers ==
    [ ErrDuplicateKey             |-> {"1062", "1586"},
      ErrForeignKey               |-> {"1216", "1217", "1451", "1452", "1557", "1761"},
      ErrTableNotFound            |-> {"1051", "1146"},
      ErrColumnNotFound           |-> {"1054", "1091"},
      ErrDataTooLong              |-> {"1406"},
      ErrNumericOverflow          |-> {"1264"},
      ErrNotNullViolation         |-> {"1048", "1364"},
      ErrConstraintViolation      |-> {"1690"},
      ErrCheckConstraintViolation |-> {"3819", "4025"},
      ErrLockTimeout              |-> {"1205"},
      ErrDeadlock                 |-> {"1213", "1637"},
      ErrTooManyConnections       |-> {"1040"},
      ErrConnectionLost           |-> {"1158", "1159", "1160", "1161", "2006", "2013",
                                       "2055"},
      ErrConnectionFailed         |-> {"2002", "2003"} ]

\* translateMySQLError: the other numbers
MoreNumbers ==
    [ ErrInvalidQuery           |-> {"1064", "1065", "1149"},
      ErrPermissionDenied       |-> {"1044", "1142", "1143"},
      ErrInvalidPassword        |-> {"1045"},
      ErrInsufficientPrivileges |-> {"1227"},
      ErrTransactionFailed      |-> {"1568", "1792"},
      ErrDivisionByZero         |-> {"1365"},
      ErrInvalidJSON            |-> {"3140", "3141", "3143"},
      ErrDatabaseNotFound       |-> {"1049", "1008"},
      ErrFunctionNotFound       |-> {"1305", "1370"},
      ErrDuplicateKey           |-> {"1061"},
      ErrIndexNotFound          |-> {"1176"},
      ErrSystemError            |-> {"3", "9"},
      ErrDiskFull               |-> {"1021"},
      ErrStatementTimeout       |-> {"1969"},
      ErrInvalidDataType        |-> {"1366", "1582"} ]

Codes == <<Numbers, MoreNumbers>>

DriverCodes == CodesOf(Codes) \cup {"another_number"}

\* Phrases within phrases.
Inside ==
    [ no_such_table |-> {"table"} ]

\* translateByErrorMessage
Cases ==
    <<Says("ErrConnectionFailed", {"connection_refused"}),
      Says("ErrConnectionLost", {"connection_reset"}),
      Says("ErrTooManyConnections", {"too_many_connections"}),
      Says("ErrConnectionFailed", {"connection_timed_out"}),
      Says("ErrConnectionLost", {"server_has_gone_away", "broken_pipe"}),
      Says("ErrDeadlock", {"deadlock"}), Says("ErrLockTimeout", {"lock_wait_timeout"}),
      Says("ErrDeadlock", {"try_restarting_transaction"}),
      Says("ErrDataTooLong", {"data_too_long"}),
      Says("ErrNumericOverflow", {"out_of_range"}),
      Says("ErrInvalidJSON", {"invalid_json"}),
      Says("ErrDivisionByZero", {"division_by_zero"}),
      Says("ErrInvalidDataType", {"incorrect"}),
      Says("ErrDuplicateKey", {"duplicate_entry", "duplicate_key"}),
      Says("ErrNotNullViolation", {"cannot_be_null"}),
      Says("ErrForeignKey", {"foreign_key_constraint"}),
      Says("ErrCheckConstraintViolation", {"check_constraint"}),
      Both("ErrTableNotFound", "table", "doesnt_exist"),
      Says("ErrColumnNotFound", {"unknown_column"}),
      Says("ErrDatabaseNotFound", {"unknown_database"}),
      Says("ErrTableNotFound", {"no_such_table"}),
      Says("ErrPermissionDenied", {"access_denied"}),
      Says("ErrInsufficientPrivileges", {"command_denied"}),
      Says("ErrDiskFull", {"disk_full"}), Says("ErrSystemError", {"out_of_memory"})>>

\* The phrases in the messages of the package's own errors.
Texts ==
    [ ErrDuplicateKey             |-> {"duplicate_key"},
      ErrTableNotFound            |-> {"table"},
      ErrCheckConstraintViolation |-> {"check_constraint"},
      ErrDataTooLong              |-> {"data_too_long"},
      ErrDeadlock                 |-> {"deadlock"},
      ErrDivisionByZero           |-> {"division_by_zero"},
      ErrDiskFull                 |-> {"disk_full"},
      ErrTooManyConnections       |-> {"too_many_connections"},
      ErrInvalidJSON              |-> {"invalid_json"} ]

\* Sentinels of gorm first, then the code of a driver error, then the message.
TranslateError(err) ==
    CASE err.is \in Sentinels   -> Own(ByCode(err.is, <<GormErrors>>, ""), Texts)
      [] err.is \in DriverCodes -> Own(ByCode(err.is, Codes, "ErrSystemError"), Texts)
      [] OTHER -> ByMessage(err, Cases, Texts)

\* What the messages of the package's own wrappers (fmt.Errorf) add.
Contexts == {{}, {"table"}}

RawErrors ==
    {Error(c, {}) : c \in Sentinels \cup DriverCodes}
        \cup {Error(Plain, t) : t \in CaseTexts(Cases, Inside)}
=============================================================================
