-------------------------- MODULE ErrorTranslation --------------------------
(***************************************************************************)
(* An error on its way through the layers of an application that uses one  *)
(* of the packages: each layer may add a message to it with %w and may     *)
(* call TranslateError, whether or not a layer below did so already, and   *)
(* decides on a retry by the package's classification.                     *)
(***************************************************************************)
EXTENDS Naturals, Sequences

CONSTANT MaxLayers   \* bound: layers above the one in which the error arises

ASSUME LayersAssumption == MaxLayers \in Nat

PG == INSTANCE PostgresErrors
MY == INSTANCE MariaDBErrors
S3 == INSTANCE MinioErrors
KA == INSTANCE KafkaErrors

Packages    == {"postgres", "mariadb", "minio", "kafka"}
SQLPackages == {"postgres", "mariadb"}

VARIABLES
    pkg,      \* the package
    raw,      \* the error as its driver returned it
    err,      \* the error as the layer reached sees it
    layers    \* layers passed

errorVars == <<pkg, raw, err, layers>>

Raw(p) ==
    CASE p = "postgres" -> PG!RawErrors
      [] p = "mariadb"  -> MY!RawErrors
      [] p = "minio"    -> S3!RawErrors
      [] p = "kafka"    -> KA!RawErrors

Contexts(p) ==
    CASE p = "postgres" -> PG!Contexts
      [] p = "mariadb"  -> MY!Contexts
      [] p = "minio"    -> S3!Contexts
      [] p = "kafka"    -> KA!Contexts

Translated(p, e) ==
    CASE p = "postgres" -> PG!TranslateError(e)
      [] p = "mariadb"  -> MY!TranslateError(e)
      [] p = "minio"    -> S3!TranslateError(e)
      [] p = "kafka"    -> KA!TranslateError(e)

Retryable(p, e) ==
    CASE p = "postgres" -> PG!IsRetryable(e)
      [] p = "mariadb"  -> MY!IsRetryable(e)
      [] p = "minio"    -> S3!IsRetryableError(e)
      [] p = "kafka"    -> KA!IsRetryableError(e)

Temporary(p, e) ==
    CASE p = "postgres" -> PG!IsTemporary(e)
      [] p = "mariadb"  -> MY!IsTemporary(e)
      [] p = "minio"    -> S3!IsTemporaryError(e)
      [] p = "kafka"    -> KA!IsTemporaryError(e)

\* The SQL packages have no IsPermanentError.
Permanent(p, e) ==
    \/ p = "minio" /\ S3!IsPermanentError(e)
    \/ p = "kafka" /\ KA!IsPermanentError(e)

Category(p, e) ==
    CASE p = "postgres" -> PG!GetErrorCategory(e)
      [] p = "mariadb"  -> MY!GetErrorCategory(e)
      [] p = "minio"    -> S3!GetErrorCategory(e)
      [] p = "kafka"    -> "none"

\* The cases of translateByErrorMessage, and what is known of their phrases.
Switch(p) ==
    CASE p = "postgres" -> [cases |-> PG!Cases, inside |-> PG!Inside]
      [] p = "mariadb"  -> [cases |-> MY!Cases, inside |-> MY!Inside]
      [] p = "minio"    -> [cases |-> S3!Cases, inside |-> S3!Inside]
      [] p = "kafka"    -> [cases |-> KA!Cases, inside |-> KA!Inside]

-----------------------------------------------------------------------------
ErrorInit ==
    /\ pkg \in Packages
    /\ raw \in Raw(pkg)
    /\ err = raw
    /\ layers = 0

\* A layer of the package adds its message to what the driver returned (the
\* package never calls TranslateError itself), a layer of the application adds
\* one without any of the phrases.
Wrap ==
    /\ layers < MaxLayers
    /\ layers' = layers + 1
    /\ \/ err.is = raw.is /\ \E context \in Contexts(pkg) : err' = PG!Wrapped(err, context)
       \/ UNCHANGED err
    /\ UNCHANGED <<pkg, raw>>

TranslateError ==
    /\ layers < MaxLayers
    /\ layers' = layers + 1
    /\ err' = Translated(pkg, err)
    /\ UNCHANGED <<pkg, raw>>

ErrorNext == Wrap \/ TranslateError

ErrorSpec == ErrorInit /\ [][ErrorNext]_errorVars

-----------------------------------------------------------------------------
\* Whether to retry does not depend on the layer that translates, on what the
\* layers below added to the message, or on how often they translated. (The
\* error itself may change: ErrLockTimeout of postgres, translated once more,
\* is ErrQueryTimeout, since its own message contains "timeout".) The exception
\* is a message of something that does not exist, where the word "database" or
\* "table" that a wrapper adds makes it another error.
RetryDecisionStable ==
    \/ raw.text \cap {"does_not_exist", "doesnt_exist"} # {}
    \/ /\ Retryable(pkg, Translated(pkg, err)) <=> Retryable(pkg, Translated(pkg, raw))
       /\ Permanent(pkg, Translated(pkg, err)) <=> Permanent(pkg, Translated(pkg, raw))

\* A case of the switch that an earlier, shorter phrase hides (i/o timeout behind
\* timeout) would have led to the same retry.
HiddenCasesDecideAlike ==
    \A i \in DOMAIN Switch(pkg).cases : \A phrases \in Switch(pkg).cases[i].any :
        raw = PG!Error(PG!Plain, PG!WithInside(phrases, Switch(pkg).inside))
            => (Retryable(pkg, Translated(pkg, raw))
                    <=> Retryable(pkg, PG!Error(Switch(pkg).cases[i].gives, {})))

\* The classifications agree: an error is not both retryable and permanent; what
\* the category puts down to the caller's data, schema or rights is not retried;
\* what has to do with authentication in Kafka is permanent.
ClassificationsAgree ==
    LET e == Translated(pkg, err)
    IN  /\ ~(Retryable(pkg, e) /\ Permanent(pkg, e))
        /\ ~(Temporary(pkg, e) /\ Permanent(pkg, e))
        /\ Category(pkg, e) \in {"CategoryData", "CategoryConstraint", "CategoryPermission",
                                 "CategorySchema", "CategoryNotFound", "CategoryConflict",
                                 "CategoryValidation", "CategoryOperation"}
               => ~Retryable(pkg, e) /\ ~Temporary(pkg, e)
        /\ pkg = "kafka" /\ KA!IsAuthenticationError(e) => Permanent(pkg, e)
=============================================================================
