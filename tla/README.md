# Formal models of stdlib-lab

TLA+ specifications of the Go packages in this repository: what each component
does step by step, the properties that make it correct, TLC configurations that
check them on small instances, and TLAPS proofs of the most important ones for
every instance. `PROJECT.json` is the index: components, runs, mutants, the map
from definitions to source lines, findings, hazards and theorems.

    tlc -workers 2 -config session.cfg SQLSession.tla      # one run
    tlapm SQLSessionProofs.tla                             # one proof module

## 1. The system

stdlib-lab is a set of libraries, each a wrapper of one infrastructure client
with the same shape: a struct with a `New...` constructor, an fx module that
starts and stops it, an optional observer and logger. The packages do not call
each other, except that everything reports to an `observability.Observer` and
that kafka takes serializers which `schema_registry` can provide. The behaviour
that is the library's own, and not that of gorm, minio-go or kafka-go, is in
background goroutines, in shared buffers and caches, and in protocols against a
database or a broker.

| component | state | operations | what is hard |
|---|---|---|---|
| SQL connection (`postgres`, `mariadb`: setup, fx_module) | atomic pointer to the pool, `shutdownSignal`, `retryChanSignal` (capacity 1), two `sync.Once` | MonitorConnection, RetryConnection, healthCheck, OnStart, OnStop, GracefulShutdown | three closers of one channel, a pointer swapped under its users, shutdown during a reconnection, a context that ends early |
| SQL transactions, query builder, basic operations | the pool an operation loaded, a clone of the client bound to a transaction | Query and its terminal methods, Find ... UpdateWhere, Transaction | a snapshot that outlives the pointer, an outage inside a transaction, the shutdown of a clone |
| SQL query builder as a queue's lock | the clauses of a builder; rows and row locks at the database | Where ... Limit, ForUpdate and its variants, OnConflict, FirstOrCreate | which locks a chain of calls really asks for, who waits, what a deadlock or a lost connection does to a retry loop |
| SQL migrations | history table, directory of files, the transaction of a run | MigrateUp, MigrateDown, AutoMigrate, GetMigrationStatus, CreateMigration | several processes, death between script and record, scripts that commit by themselves, late files |
| Error translation (four packages) | none | TranslateError, categories, IsRetryable and the like | overlapping phrases, first match wins, errors that are wrapped and translated again, classifications that must agree |
| Object store connection (`minio`: setup, fx_module) | two atomic pointers, `shutdownSignal`, `reconnectSignal` (capacity 1) | monitorConnection, retryConnection, OnStart, OnStop, GracefulShutdown | two stores that belong together, retries, shutdown |
| Object store buffer pool | `sync.Pool`, `poolSize`, counters | Get, Put, Cleanup, GetStats; used by MinioClient.Get | check and increment apart, reuse of memory, Cleanup beside Put |
| Object operations, buckets | none | Get, Put, StreamGet, Delete, bucket calls | StreamGet's two channels, a receiver that leaves, a buffer that is read into again |
| Multipart and presigned URLs | uploads at the server | generate, complete, abort, list, clean up | part arithmetic, half-made uploads, lost answers, expiring URLs, a cleanup beside an upload |
| Kafka consumer | reader, `shutdownSignal`, the message channel | Consume, ConsumeParallel, CommitMsg, GracefulShutdown | cumulative commits, workers that hold a message at shutdown, a full channel |
| Kafka producer, serializers, configuration | writer, serializer | Publish, BodyAs, NewClient | defaults for zero values, choice of serializer, a shutdown under a publication, formats that do not fit |
| Schema registry | two caches, each with a lock | GetSchemaByID, GetLatestSchema, RegisterSchema, CheckCompatibility | check, unlock, fetch, fill; lost answers, restarts, a header that outlives its cache |
| metrics, tracer, logger, observability | handles of SDK objects | registration and forwarding | nothing of their own |

Interaction: fx calls OnStart and OnStop of each client once; the clients start
their goroutines there. Goroutines of one client communicate through channels
of capacity one (`error` signals), closed channels (shutdown) and atomic
pointers. Users call operations from any goroutine at any time, also
GracefulShutdown, which OnStop calls (minio) or repeats (SQL).

What makes them correct, in short: a connection is replaced for a failure and
for nothing else, every failure is dealt with, nobody's connection is closed
under him, stopping terminates and leaves nothing running; a migration's effect
and its record agree; a job claimed under a lock is worked on once; whether to retry
does not depend on where an error is looked at; a download returns the object
asked for, an upload is put together whole or cleaned up; a message whose offset
is committed was processed; a message names the schema that it was written with.

## 2. The modules

`SQLSession` extends `SQLConnection`; `SQLConnection` and `MinioReconnect` both
implement the abstract `ManagedConnection`, `KafkaConsumer` the abstract `AckedQueue`. `JobQueue` composes the query builder
with `PostgresErrors`, `ErrorTranslation` the four error modules, `ObjectTransfers`
`Multipart` and `StreamGet`, `TypedTopic` the registry client and the serializers.
MC modules hold the instances whose constants a .cfg cannot write down.

### ManagedConnection (abstract)

What a client that watches its own connection promises, without goroutines or
channels: `current` (a number per connection), `suspect` (a failure was
reported and not dealt with), `status` (running, stopping, stopped). `Replace`
needs `suspect` and happens never once stopped; `Forget`, which drops a report,
is allowed only to a client that is stopping. `SafeSpec` is that, `Spec` adds
that a running client reacts to a report in the end.

### AckedQueue (abstract)

What a consumer of one partition promises, without workers, a channel or a broker: messages
are `taken` off the queue, one goes to the `hands` of one user at most once, or is dropped, which
takes a process that is `stopping`; who commits has processed what he commits, or gives it up; a
restart puts back all that lies at or after the committed offset, and empties all hands.

### SQLConnection

`postgres` and `mariadb` have the same code here; the map points at one or the
other. A pool (`*sql.DB` inside `*gorm.DB`) is the number of its opening;
`client` is the atomic pointer, `closed` the pools that were closed. `mon` and
`retry` are the program counters of MonitorConnection and RetryConnection;
`monConn` is what healthCheck loaded before it pings. `stop` is the OnStop hook
(close shutdownSignal; `wg.Wait`; close retryChanSignal; close the pool), `gs[c]`
a call of GracefulShutdown, which does the same without waiting. A `select` is
one action per ready case; the inner `select` with `default` takes `default`
only when no case is ready. `cause` is auxiliary: whether RetryConnection woke
from an error or from the closed channel, a difference the code does not look at.

### SQLSession

The composition with users of the client. A builder, a basic operation and
`Transaction` all begin with `DB().WithContext(ctx)`: action `Load` keeps the
pool in `snap[u]`, and a later action uses it, so any number of reconnections
and shutdowns may lie between the two. What a transaction writes is the affair of the
database and is not modelled; what its user holds, and what may be closed under
him, is. `TxShutdown` is GracefulShutdown of the clone: its channels are nil, so
only the closing of the pool is left, and `DB()` of a transaction is its pool:
the parent's pool is closed with it. `Together = FALSE` keeps users and callers of
GracefulShutdown out of the same behaviour, for size.
An outage (`ClientStep` with ServerDown) breaks the connections of open
transactions; the closing of a pool spares them, as in database/sql.

### MinioReconnect

The same design in package `minio`, with differences that matter: two pointers
stored one after the other (`client`, `core`), a validation between making and
storing, nobody closes `reconnectSignal`, and the check's context derives from
that of OnStart. Making a client does no I/O and its configuration was validated
by NewClient, so `connectToMinio` cannot fail here; ListBuckets can.

### BufferPool, MCBufferPool

`Get`, `Put` and `Cleanup` of the pool with the part of MinioClient.Get that
reads an object into a buffer, copies the bytes out and puts the buffer back.
Put is three steps as in the code: compare `poolSize` under the read lock, put
the buffer without a lock, count under the lock. Bytes are abstracted to the
goroutine they belong to (`data`), sizes to "outgrew MaxBufferSize" (`big`). `sync.Pool`
may return nothing although it holds buffers, and the collector removes some.
Cleanup replaces the pool without excluding Get and Put; a racing operation works
on the old or the new one. The mutant of the bound counts what Put admitted without
the lock, so that a count gets lost. `MCBufferPool` adds the symmetry for TLC.

### Migrations

MigrateUp reads the history, then the directory, then runs each pending file
in a transaction (script, record, commit) and stops at the first error;
MigrateDown takes the greatest recorded ID, runs the down script, deletes the
record. IDs are seconds. `effects[i]` counts how often the script of `i` took
effect net of its down script, `history` is the table. Several processes run
against one database and each may die anywhere. The database is external: a
transaction is atomic, a row is locked by who inserts or deletes it, and scripts in
`implicitCommit` end the transaction they run in, which MariaDB does for DDL. `MCMigrations`
lists which processes go up, down or call AutoMigrate, and which scripts are special.
`before` is auxiliary: which of two recorded migrations was recorded first.

### KafkaConsumer

Workers fetch through one reader and send on one channel; users receive, process,
commit. `next` is the reader's position, `committed` the broker's. A commit of an
offset sets the committed offset, whatever it was. Shutdown closes
shutdownSignal, then the reader; a worker that holds a message and finds the
shutdown may drop it. FetchMessage returns an error whenever it likes, but need not: in
an open reader without messages it blocks. A closed reader hands out what it has
buffered, then errors. A commit fails in a closed reader, or at the broker (`refused`), with or
without effect, and the documented loop goes on. A client of a producer has no reader.
`Restart` is a new process at the committed offset. `Queue` maps
this to `AckedQueue`: taken is what was fetched and is neither with a worker nor in the channel. `setup`
holds which workers and users run, which users may leave, which messages cannot be
processed and whose commits may fail, so that one run covers several.

### QueryBuilder, JobQueue, MCJobQueue

A builder method changes `qb.db` and returns `qb`, so a builder is the record of
its clauses, and a chain of calls the composition of the operators of
`QueryBuilder`: which rows it accepts, how many, in which order, with which lock
and option, and what a conflict does. The later locking clause replaces the earlier
one, as gorm keeps one clause per name; what a dialect ignores or the database
refuses is there too. `JobQueue` runs such builders in transactions against a
table with row locks under READ COMMITTED: workers claim, work and update, readers
hold rows in share mode, producers create the same job. The scan visits one row per
action. Which claims exclude each other depends on the dialect (`Exclusive`): in package
mariadb ForNoKeyUpdate locks nothing. The database finds deadlocks and ends a victim; connections break; the
user asks IsRetryable of the *translated* SQLSTATE whether to go on.

### ErrorText, SQLErrors, PostgresErrors, MariaDBErrors, MinioErrors, KafkaErrors, ErrorTranslation

An error is what `errors.Is/As` finds in its chain and the set of phrases its
lower-case message contains; `Inside` lists phrases that are parts of others and
are therefore present with them. Phrases are written with underscores where the messages have
spaces, slashes or hyphens. A table of codes is a record from sentinel to
codes, a `switch` over messages a sequence of cases of which the first that
matches decides. `TranslateError` of each package is the composition of its
stages. `ErrorTranslation` sends every raw error of every table through layers that
wrap it (with the words the packages use) or translate it once more.

### PartSizes, Multipart, StreamGet, ObjectTransfers

`PartSizes` is the integer arithmetic of multipart uploads and ranged downloads.
`Multipart` is an upload from initiation to completion: URLs are signed one
after the other and have a time of their own, users put parts in any order while URLs
work, a completion or its answer may be lost, users leave, and
CleanupIncompleteUploads lists, then looks at each upload with the cutoff it took.
The server is external: it creates, keeps, completes and aborts uploads and refuses
a list of parts that is incomplete or out of order. `StreamGet` is the goroutine
of that name with its buffer, its two channels, the `select` of each send, and the
deferred closings. `ObjectTransfers` puts both over one object and adds the check of
the arithmetic.

### SchemaRegistry, Serializers, TypedTopic, MCTypedTopic

`SchemaRegistry` has clients with two caches each, shared by goroutines. A call
looks into the cache under the read lock, gives the lock up, asks, is answered (or
the answer is lost, or refused) and fills the cache; the registry gives one ID to one
definition and a new version to a subject. A restart empties caches and drops calls.
`Serializers` says what each serializer makes of a Go value and each deserializer of
bytes: formats, the fallbacks for text and bytes, MultiFormat, the header of five
bytes. Text and bytes *are* a payload, the one they spell (a Go string may hold JSON), so that
JSONSerializer, which writes a string raw, writes what JSONDeserializer then takes for a struct. A
decoder gives the value that was written when format and type are its own; of another type it
tells apart (`Alike` says which it does not: JSON and gob fill the fields they find) it gives an
error, and of all else an error or a value that nobody wrote (`Unwritten`). Behind the registry without a deserializer of its own bytes are handed on (`Inner`).
`TypedTopic` composes them with Publish and BodyAs: the choice of
serializer by configuration, the header put in front, WriteMessages that fails with
or without effect, a shutdown in between, and acknowledgements with their default.

### Proof modules

`SQLSessionProofs` (of `SQLConnection` and `SQLSession`), `ClientProofs` (of
`MinioReconnect` and, apart from it, `ErrorTranslation` with the error modules), `BufferPoolProofs`, `JobQueueProofs`, `MigrationsProofs`, `KafkaConsumerProofs`,
`TypedTopicProofs` (of `SchemaRegistry`, `Serializers` and `TypedTopic`) and
`ObjectTransfersProofs` (of `PartSizes`, `Multipart` and `StreamGet`); see section 5.

## 3. What is checked

| run | instance | shows |
|---|---|---|
| `session` | the SQL client with its two goroutines and fx hooks; one outage; one user with queries and transactions who may shut a clone down, or one GracefulShutdown caller | an operation finds its pool closed only because of a shutdown (ClosedOnlyByShutdown), only a GracefulShutdown can cause a send on the closed channel (PanicNeedsCaller), OnStop ends (StopTerminates), a pool is replaced only for a reported failure (ManagedSafely), every failure leads to a new pool (ManagedLive), and a client whose pool was closed behind its back opens a new one (Heals) |
| `conn_panic` | one caller, one outage | violated: GracefulShutdown between a failing health check and its send makes the send panic |
| `conn_ctx` | no caller | violated: the end of the start context ends monitoring though nobody stopped the client |
| `query` | two workers, a reader, two producers, two jobs, ten combinations of claims; one broken connection | nobody works on a job that another has claimed (NoJobTwice), SKIP LOCKED and NOWAIT do not wait and cause no deadlock (ClaimersNeverWait), rows read ForShare stay (SharedRowsDontChange), of two creations one succeeds and DoNothing never fails (IdempotentCreate), and every job gets done in spite of deadlocks, unavailable locks and lost connections (EveryJobDone) |
| `mig` | two processes that migrate up, one also AutoMigrate, with late files; or one process up and down with a script that commits by itself and a file without a way back; or one that goes down while another goes up; two failures or deaths | effect and history drift apart by at most one per failure, and only for scripts that commit by themselves (DriftBounded); files are applied in order (InOrder); success means everything loaded is recorded (SuccessMeansApplied); MigrateDown takes back what was recorded last (DownRevertsLatest) |
| `errors` | every code and phrase of the four packages, three layers | the decision to retry survives wrapping and repeated translation, with a named exception; a case hidden behind an earlier one would have decided alike; the classifications agree |
| `minio` | two outages | the two pointers are of one pair but between the two stores (PairMatches); the client implements ManagedConnection, with its liveness (ManagedLive, of which ManagedSafely is the part without) |
| `pool` | two goroutines, six downloads, six buffers, pool of two, a Cleanup | results are intact (ResultIntact); the pool passes its limit by as much as PoolBounded says, with and without a Cleanup, and reaches that bound exactly |
| `transfers` | an upload of an empty file or of two parts beside an abandoned upload, three ticks, two failed requests, cleanups; or a stream of two chunks | every size is cut so that the server takes it (FilesCut), what is completed is whole and in order (ObjectWhole), no URL works after IsExpired says so (ExpiredMeansExpired), no upload stays for ever (NoUploadLeaks), a stream ends, with the whole of one object or an error (WholeOrError, StreamEnds) |
| `kafka` | one worker and a user that stays, one of whose commits may fail; or one worker, two users and a message that cannot be processed; or two workers, a user that leaves and a message that cannot be processed; or a client without a reader; three messages, channel of two, one restart | with one worker and one user nothing below the committed offset is lost, and with several no more than one message for each worker that has ended (BoundedLoss, the conjunction of NoLossAlone and OneLostPerWorker); the whole implements AckedQueue (DeliversOnce); with one worker order is kept (InOrder); neither commits nor restarts take the committed offset back (CommittedOnlyGrows); what is processed is committed, by a later commit if its own fails (ProcessedIsCommitted), and everything is processed, unless the consumer stops (EventuallyProcessed); shutdown or the end of the context ends every worker, those that wait in FetchMessage or for room in the channel too (ConsumeEnds) |
| `kafka_parallel` | two workers, shutdown | violated: a worker drops the message it fetched while a later one is committed |
| `registry` | two producers with one client, a reader and a looker with another, sixteen combinations of serializers, three IDs, two faults | caches say what the registry says (CachesAgree), a header names the schema its producer writes with (MessagesNameTheirSchema), where reader and producer agree on format, registry and type what is read is the very value that was written, elsewhere an error, what the bytes spell, or a value that nobody wrote where formats or types differ or text was published raw (ReadAsWritten), and what was reported as published arrives unless fewer acknowledgements were asked for (EveryMessageArrives) |

Every property of a passing run has a mutant in `PROJECT.json`: an operator
beginning with the comment "A mistake:" in the same module, which replaces the
faithful one and which the property then refutes.

**Bounds, and why they are enough.** Outages: two in `minio`, since the second
may begin while the client recovers from the first, and the state after a recovery
differs from the one before it only in the number of the pool; one in `session`,
which keeps the product of client and users small. The theorems have no such
bound. Channel capacities are those of the code in the connections; the Kafka
channel is shortened to two, which fills with three messages. Two goroutines suffice
for a check that is stale when used; the buffer pool has six buffers and as many downloads
because the bound, with two goroutines, a pool of two and a Cleanup, is five, which
the run reaches. Three migrations give a first, a last and a late one. Two
faults let a failure hit the run that recovers from a failure. One user in `session`:
the users share nothing but the client, and its own next operation already meets the
pool it closed. Users and GracefulShutdown callers (`Together = FALSE`) are in
separate behaviours, as their meeting is what the OnStop of every behaviour already
is for a user. Two jobs are needed for a deadlock and for a row to skip. `MaxTime = 3`
lets an upload be signed at one time, expire at the next and be too old at the last.
`LimitPartCount` and the sizes in `FilesCut` are the real ones, in units of 256 KiB,
around every size at which the arithmetic changes course. `MaxId = 3` is one more than
the definitions two producers can have under one subject. Three layers give an error that
is wrapped, translated and translated again.

**Fairness, and why the code justifies it.** Goroutines that can run are
scheduled (weak fairness of the monitor, retry, stop, worker, stream and call
steps). A worker in FetchMessage is the exception: in an open reader the call need not return
(`Proceeds`), so it is the closing of the reader by GracefulShutdown, or the context, that ends it. Pings, ListBuckets and the attempts to connect have timeouts, so they end;
so has the HTTP client of the schema registry. Go picks at random among ready
cases of a `select`, so a case that is ready every time it is looked at is chosen in
the end: strong fairness of MonitorShutdown, MonitorCtxDone and MonitorStop. The
server comes back from every outage, a fetch from an open reader that has messages, repeated after
errors, succeeds in the end (strong fairness of FetchOk), and
the database serves those who wait for a row in turn (strong fairness of LockRow and
Commit): these are assumptions about the servers and not about the code. Workers
of a queue, producers and readers of a topic go on and retry what may be retried,
a user who wants abandoned uploads gone calls CleanupIncompleteUploads again and
again, as the package does not.
Nobody is obliged to stop the client, to call GracefulShutdown, to cancel a context, to
break a connection, to read on, to complete an upload or to die.

`CHECK_DEADLOCK FALSE` in `pool`, whose counters are bounded (when `MaxGets` is
used up the model stops though the program goes on), and in `errors`, where an
error that has passed all layers has nowhere to go.

## 4. Findings

The three violated runs are disagreements between the code and what the
repository says of it; `PROJECT.json` quotes both sides. All concern the
interleaving of a shutdown, or of the end of a context, with work in progress.

Other observations, from reading and from experiments with these models,
without a run of their own.

Connections and transactions:

- GracefulShutdown of the clone that a transaction's callback receives closes the
  pool of its parent, although the comment of cloneWithTx (`postgres/transactions.go:17`)
  says that the clone's lifecycle is kept apart. The client heals in the end (`Heals`).
- RetryConnection leaves the pool it replaces open, and nobody can close it any
  more (`postgres/setup.go:141`); each reconnection leaks a pool.
- The comment of minio's GracefulShutdown says it closes `reconnectSignal`
  (`minio/fx_module.go:137`); it does not, which is what keeps the monitor safe.

Query builder:

- Locking many rows in no order can deadlock, and two transactions that retry can make
  each other fail for ever; EveryJobDone excepts that claim.
- A lock taken outside a transaction lasts for one statement. On MariaDB
  ForNoKeyUpdate, ForKeyShare and Returning do nothing.
- OnConflict and Clauses drop arguments of another type without a word; a builder that
  is used again keeps its clauses.
- The loser of a FirstOrCreate race gets ErrDuplicateKey, which is not retryable,
  although a second call would find the row.

Migrations:

- Two concurrent MigrateDown calls both take back the same migration: the last
  record is read outside the transaction and the DELETE's row count is ignored
  (`postgres/migrations.go:327`). MigrateUp is safe, as the primary key makes the
  second record fail; on MariaDB it is not, since the script has been committed then.
- MigrateDown orders by ID, so a late file is not the one it takes back although it
  was applied last (`postgres/migrations.go:280`).
- AutoMigrate's record is the last migration for MigrateDown, which then fails
  for lack of a down file (`postgres/migrations.go:116`). If a file of the same second
  turns up, the file counts as applied, and MigrateDown runs its down script although its up script
  never ran: DriftBounded excepts databases in which both AutoMigrate and MigrateDown are used. Its ID is a second, like that of
  CreateMigration: two of them in one second collide.

Errors:

- In postgres ErrLockTimeout and ErrIdleInTransaction become ErrQueryTimeout when they
  are translated once more, since their own messages contain "timeout".
- Words of a wrapper choose the error: "migration", "backup" and "restore", when nothing
  else in the message is known, and "database" or "table" around "does not exist"; the
  latter is the exception that RetryDecisionStable names.
- `postgres/errors.go:759` says that the original error is returned where
  ErrSystemError is.
- kafka has cases that an earlier one hides ("i/o timeout", "invalid message size",
  "sasl authentication failed"); they would have decided alike (HiddenCasesDecideAlike).
- Some errors are critical and retryable at once; ErrDiskFull is temporary and not
  retryable; several errors of minio have no category; a request that failed as its
  context was cancelled is a retryable ErrNetworkError.

Object store:

- `BufferPool.Get` does not decrease `poolSize` (`minio/setup.go:128`), so after
  MaxPoolSize puts every further buffer is discarded, however empty the pool is;
  and `totalBuffersReused` counts new buffers as well (`:131`).
- `poolSize` is compared and increased apart (`minio/setup.go:154`); concurrent
  Put calls exceed MaxPoolSize, by as much as PoolBounded says.
- URLs that are signed first stop to work a little before ExpiresAt. The upload of
  an empty file has no part and cannot be completed. When signing fails and the abort
  fails too, the upload stays until a cleanup; a cleanup ends at the first upload
  that it cannot abort. CompleteMultipartUpload does not compare the total size.
- A presigned GET of a range does not restrict its user to the range, and whether
  the object changed in between is for the caller to find out from the ETag.
- StreamGet's goroutine stays for ever when its receiver leaves and the context never
  ends; StreamEnds says when it does not.

Kafka and the registry:

- Skipping CommitMsg for a message that failed, as `kafka/doc.go:281` shows, does
  not keep it: the next commit covers it.
- `EnableAutoCommit` only batches explicit commits (`kafka/setup.go:364`); workers
  use FetchMessage, which commits nothing.
- `RequiredAcks = 0`, documented as RequireNone, means all (`kafka/setup.go:91`).
- JSONSerializer publishes a string as it is (`kafka/serializer.go:63`), which
  JSONDeserializer cannot read back, or reads as the JSON that it happens to spell; bytes bypass every serializer, and with it the header of the registry.
- The deserializers ask for the schema of a message and do not look at it
  (`schema_registry/serializer.go:131`): a message of another type or subject is decoded too,
  and JSON, gob or the caller's function may make a value of it without an error.
- CommitMsg returns the broker's error, which the documented loop logs; the message is
  committed only with the next one that is, and delivered again if there is none before a restart.
- Caches are never emptied: a registry that loses its state gives IDs that old
  clients take for others. A type of "" and "AVRO" are different keys of the cache.
- The default format of MultiFormatSerializer is not lower-cased as the names are.

## 5. What is proved

With tlapm, for all values of the constants that satisfy the named assumptions: the
safety properties of every run, and what the models of the connections and of the consumer
promise by their abstract specifications.

- **SQLSessionProofs**, of the client: types; a send on the closed channel needs a
  GracefulShutdown (and cannot happen where only the fx hooks stop the client);
  RetryConnection connects only for an error; OnStop is clean; snapshots stay
  usable; the module implements `ManagedConnection!SafeSpec`. The invariant `Ind`
  behind them says who may have closed the channel when: the monitor's
  deferred close and OnStop's both imply that the monitor has left its loop, so
  while it is alive a closed channel is GracefulShutdown's work; whoever closed it,
  shutdown or the end of the context came first, so the loop that woke from the
  closing finds a reason to return before it connects. For the refinement it adds
  that the newest pool is the current one except between connecting and storing.
  Of the client with any number of users: ClosedOnlyByShutdown, and the
  promises above once more. `SessionInv` adds to `Ind` that a closed pool is the work of a shutdown, the clone's included; the shutdown
  of a clone is the only step of a user that touches the client, and it leaves `Ind` alone.
- **ClientProofs**, of the object store client: types, PairMatches, StopIsClean and the same refinement.
  Of the errors, for any number of layers: RetryDecisionStable, HiddenCasesDecideAlike,
  ClassificationsAgree. The tables could be enumerated; the ways through the layers could not, and
  the argument says why they do not matter. In each package the phrases that lead to a retry
  (`TransientOf`), and those that lead to an error IsPermanentError knows (`LastingOf`), are apart
  from all others (`Separates`): a case gives a retryable error exactly for phrases of that kind. So
  a message with only such phrases, or with none of them, decides alike whichever case comes first
  (`Decides`, by the least case that applies). The messages of the packages' own errors are of
  the kind of their error (`EveryText`), so translating again changes nothing (`OwnStays`), with two
  exceptions in Kafka that have lemmas of their own: "invalid session timeout", which is found before the
  "timeout" in it, and "invalid message size", whose own message would be taken for the permanent
  ErrInvalidMessage, but which TranslateError never returns for the same reason. The words of
  wrappers add only cases such that neither they nor any later case leads to a retry (`EveryWord`),
  unless the message is of something that does not exist.
  The invariant `ErrInv`: an error is what the driver returned, perhaps with words, or one of the
  package's own that decides as the driver's error does.
- **BufferPoolProofs**: types, intact results, and both bounds. A buffer has one
  owner: a goroutine or the pool, never both (`Exclusive`-type conjuncts of the
  invariant), which is why nobody overwrites bytes before they are copied. The bounds
  count the goroutines that have passed the check, the pool's content against the
  counter, and Cleanup's reset against the goroutines that it overtakes.
- **JobQueueProofs**, for any number of clients, of jobs and of lost connections and both
  dialects: NoJobTwice, SharedRowsDontChange, IdempotentCreate, ClaimersNeverWait. `Inv`
  says that who has claimed a row, and nobody else, holds the lock of its builder on it, that no
  two locks on a row exclude each other, that a claimed job is still pending (a status changes
  under a lock that excludes every exclusive claim), and that a statement which locks in the order
  of the key has claimed only rows in front of those it still visits. The last is why a deadlock
  needs somebody who locks in no order or changes what he claimed in share mode: all others wait for
  a row behind those they hold, so the rows ascend along a chain of waiting clients, which never closes.
- **MigrationsProofs**, for any processes, migrations, failures and deaths: DriftBounded,
  InOrder, SuccessMeansApplied, DownRevertsLatest. Who is about to commit a record owns
  its row, a single reverter's migration is recorded until it deletes it, so effect and record of
  one migration change together (`Exact`); where a script commits by itself the process is one
  ahead between script and record (`Ahead`), and what it leaves there it leaves for good, at the
  price of a failure (`Near`). For the order: what a run has read or passed stays
  recorded (`Passed`), and where one process migrates and no older file arrives late, the history is
  the beginning of the files, recorded in their order (`Ascending`), as the files that a run has not
  loaded are younger than those it has (`Newer`).
- **KafkaConsumerProofs**, for any number of messages, workers, users and restarts and any
  capacity of the channel, whichever commits fail: CommittedOnlyGrows, InOrder, BoundedLoss, DeliversOnce. What lies in front of the offset the
  one worker has reached (`Top`) is in order and processed, given up, in the channel or in a user's
  hands, but for the one message that a stopping worker drops, which nothing has overtaken.
  With one user the channel continues without a gap where that user is (`Gapless`), which
  is why a commit covers nothing that was not processed or given up, also after restarts, and
  why none names an offset below what is committed.
  For any number of workers: `Once` says that a fetched message is in one place, with one worker, in the
  channel once, or with one user, and in none of them when it was processed. Hence each
  step of the consumer is one of AckedQueue or changes nothing it sees, and a message goes missing
  only with the worker that ends, so the ended workers count them (Workers is a finite set).
- **TypedTopicProofs**, of the registry client: CachesAgree, for goroutines that make any calls. The
  invariant `RInv` says that an ID stands for at most one definition, and that what a
  cache holds and what a call has in hand *stands*: the registry gave it. It is kept because the
  registry only learns (`Learns`): an ID once given stays with its definition, whatever
  happens between the answer and the moment at which the cache is filled.
  Of topics: CachesAgree for the calls that producers and readers make,
  MessagesNameTheirSchema and ReadAsWritten. `TInv` follows an ID from the answer of the registry
  through the producer's stage into its payload and into the topic; a producer that
  begins again after an error or a restart has no call and no header left. `WInv` adds what the
  payload of each message is (`Sent`) and what can be read from it (`Got`), and lemmas about each
  codec say what it makes of a value and gives for bytes, of its own format and type or another
  (`ParsedGives`, `DecodesGives`), and that the two are inverse where they agree (`DecodesEncodes`).
- **ObjectTransfersProofs**: the arithmetic of parts and ranges for every size of a file
  and of a part (from one lemma about division), hence FilesCut; WholeOrError, from
  an invariant that ties the place of the goroutine to the number of chunks
  delivered; ExpiredMeansExpired, since a URL signed so far ends at the latest one
  duration from now, and the time of the end is taken when all are signed; ObjectWhole, since
  sorting a permutation of the numbers of the parts gives 1 .. n: a number's rank among
  them is the number itself.

Assumptions: `MaxOutages`, pool sizes and bounds are naturals, thread and buffer
sets are finite, `None` is no buffer; a MiB is positive and the server takes ten parts
or more; there are jobs, and clients use the claims that `Claim` lists; setups
name processes, workers, users and messages that there are; producers write values of
the five Go types with subjects and schemas that there are, and text and bytes of theirs
do not begin with a header of the registry (`SetupsAssumption`, without
which anybody can write any header).

What the proofs changed in the models. The prover takes a CASE whose guards overlap for any of
its branches, where TLC takes the first: the `switch` of StringDeserializer and the answer
of the server to a completion are written as alternatives that exclude each other now. Conditions
under which a property holds, and which the instances of the runs happened to satisfy, became
part of it: that one process at most reverts (DriftBounded, InOrder,
SuccessMeansApplied), that one *user* serves the single worker (NoLossAlone, which fails after a
restart with two, since the later commit covers what the other one still holds), and which claims
are exclusive in which dialect (NoJobTwice). The instances were
extended by such cases. ReadAsWritten was stated for any combination of serializers, which needed
the decoder that hands bytes on when a registry has no other.

Only model-checked: everything about liveness (ManagedLive, Heals, StopTerminates,
EveryJobDone, NoUploadLeaks, StreamEnds, ProcessedIsCommitted, EventuallyProcessed, ConsumeEnds,
EveryMessageArrives), which needs ENABLED.

Induction enters in two forms: over steps, by PTL, and where a set of numbers has a least or a
greatest element, by a minimal counterexample (`LeastNatural` in `MigrationsProofs`, `Least` in `ClientProofs`), as the induction
theorems of the library have an operator as parameter, which the installed provers do not take.
For the same reason `PartsInOrder` sorts by rank and the order of the migrations is a set of
pairs: SortSeq and SelectSeq are recursive.

## 6. What is not modelled

SQL text, object contents, TLS and credentials, logging, observers, most of the
configuration. `sync.Pool` overwritten during a Get is a data race in the code; the
model lets the racing operation see the old or the new pool, not a torn one; likewise
the serializer that Publish reads without the lock of SetSerializer is not changed
during use. Files with equal IDs, concurrent creation of the history table, and a
script of several statements that fails half-way on MariaDB are left out of
`Migrations`. Of the query builder, what only shapes the result (Select, Joins,
Preload, Pluck, Scan) is left out, and so is pgvector, which formats and parses vectors.
Put, Delete and the bucket calls of minio are single calls of the SDK; PreSignedPut,
PreSignedGet and PreSignedHeadObject sign one URL and keep nothing. Of Kafka, headers of messages and
asynchronous writes are left out, and so are commits that the reader batches (`EnableAutoCommit`) and
a client without a group, whose commits all fail: with asynchronous writes WriteMessages returns before it has
written, and what becomes of the message the library does not tell. What is inside an Avro or Protobuf payload is the
caller's functions' business. metrics, tracer, logger and observability forward to
their SDKs and keep no state that could go wrong.

## 7. Plan

Done, in the order of importance: connections, their users, buffer pool,
migrations, consumer; query builder, error translation, transfers, registry and
typed topics; and the safety properties of all of them as theorems. What is left:

1. `SQLSession` as an implementation of an abstract transaction manager, which promises a
   user an error for every operation after the shutdown.
2. `JobQueue`: what a second FirstOrCreate finds, and SKIP LOCKED under other isolation levels.
