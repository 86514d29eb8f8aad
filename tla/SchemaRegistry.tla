--------------------------- MODULE SchemaRegistry ---------------------------
(***************************************************************************)
(* Clients of a schema registry, each shared by several goroutines, and    *)
(* the registry that they ask.  A call looks in the cache of its client,   *)
(* gives the lock back, asks the registry, and fills the cache: in between *)
(* others do the same, requests and answers are lost, clients restart.     *)
(***************************************************************************)
EXTENDS Integers, FiniteSets

CONSTANTS
    Clients,        \* processes, each with one Client
    Threads,        \* goroutines that call the clients
    ClientOf,       \* the client that each goroutine calls
    Subjects, Schemas,
    MaxId,          \* bound: IDs that the registry can give
    MaxFaults       \* bound: lost requests and answers, refusals, restarts

Types == {"", "AVRO", "JSON", "PROTOBUF"}

ASSUME RegistryAssumption ==
    /\ MaxId \in Nat \ {0} /\ MaxFaults \in Nat
    /\ ClientOf \in [Threads -> Clients]

Ids     == 1 .. MaxId
NoId    == 0
Unknown == "unknown"

\* The registry takes a registration without type for one of an Avro schema.
TypeOf(type) == IF type = "" THEN "AVRO" ELSE type

Definitions == [schema : Schemas, type : {"AVRO", "JSON", "PROTOBUF"}]
Nothing     == [schema |-> Unknown, type |-> Unknown]
Keys        == [subject : Subjects, type : Types, schema : Schemas]

DefinitionOf(key) == [schema |-> key.schema, type |-> TypeOf(key.type)]

ASSUME UnknownAssumption == Unknown \notin Schemas

VARIABLES
    ids,            \* the definition that each ID stands for
    versions,       \* IDs registered under each subject
    latest,         \* ID of the latest version of each subject
    idCache,        \* idCache[c]: ID of each key
    schemaCache,    \* schemaCache[c]: schema of each ID
    calls,          \* the call that each goroutine is in
    faults

registryVars == <<ids, versions, latest>>
cacheVars    == <<idCache, schemaCache>>
clientVars   == <<registryVars, cacheVars, calls, faults>>

Idle == [op |-> "none", at |-> "idle"]

\* A call returns an ID, a schema or a judgement, or it fails.
Failed(t)       == calls[t].at = "failed"
Returned(t)     == calls[t].at = "returned"
Result(t)       == calls[t].result
Return(call, r) == [op |-> call.op, at |-> "returned", result |-> r]
Fail(call)      == [op |-> call.op, at |-> "failed"]

RegistryInit ==
    /\ ids = [i \in Ids |-> Nothing]
    /\ versions = [s \in Subjects |-> {}]
    /\ latest = [s \in Subjects |-> NoId]
    /\ idCache = [c \in Clients |-> [k \in Keys |-> NoId]]
    /\ schemaCache = [c \in Clients |-> [i \in Ids |-> Unknown]]
    /\ calls = [t \in Threads |-> Idle]
    /\ faults = 0

-----------------------------------------------------------------------------
\* What each call does before it asks the registry: the look into the cache.
\* A mistake: the schema is no part of the key.
KeyOfSubject(key) == [key EXCEPT !.schema = CHOOSE s \in Schemas : TRUE]

CacheKey(key) == key

RegisterSchema(t, key) ==
    LET call == [op |-> "register", at |-> "asking", key |-> key]
        id   == idCache[ClientOf[t]][CacheKey(key)]
    IN  /\ calls[t] = Idle
        /\ calls' = [calls EXCEPT ![t] = IF id # NoId THEN Return(call, id) ELSE call]
        /\ UNCHANGED <<registryVars, cacheVars, faults>>

GetSchemaByID(t, id) ==
    LET call   == [op |-> "get", at |-> "asking", id |-> id]
        schema == schemaCache[ClientOf[t]][id]
    IN  /\ calls[t] = Idle
        /\ calls' = [calls EXCEPT ![t] =
                        IF schema # Unknown THEN Return(call, schema) ELSE call]
        /\ UNCHANGED <<registryVars, cacheVars, faults>>

GetLatestSchema(t, subject) ==
    /\ calls[t] = Idle
    /\ calls' = [calls EXCEPT ![t] = [op |-> "latest", at |-> "asking", subject |-> subject]]
    /\ UNCHANGED <<registryVars, cacheVars, faults>>

CheckCompatibility(t, key) ==
    /\ calls[t] = Idle
    /\ calls' = [calls EXCEPT ![t] = [op |-> "check", at |-> "asking", key |-> key]]
    /\ UNCHANGED <<registryVars, cacheVars, faults>>

-----------------------------------------------------------------------------
\* The registry: one ID for a definition, whatever the subjects; a definition
\* that a subject has is no new version of it.
Given(d, i) ==
    \/ ids[i] = d
    \/ /\ \A j \in Ids : ids[j] # d
       /\ ids[i] = Nothing
       /\ \A j \in Ids : j < i => ids[j] # Nothing

Answered(t, id) == calls' = [calls EXCEPT ![t] =
    [op |-> @.op, at |-> "answered", asked |-> calls[t], id |-> id]]

Registers(t) ==
    /\ calls[t].op = "register" /\ calls[t].at = "asking"
    /\ \E i \in Ids :
        LET key == calls[t].key
            new == i \notin versions[key.subject]
        IN  /\ Given(DefinitionOf(key), i)
            /\ ids' = [ids EXCEPT ![i] = DefinitionOf(key)]
            /\ versions' = [versions EXCEPT ![key.subject] = @ \cup {i}]
            /\ latest' = IF new THEN [latest EXCEPT ![key.subject] = i] ELSE latest
            /\ Answered(t, i)
    /\ UNCHANGED <<cacheVars, faults>>

\* 404 for an ID or a subject that the registry does not have.
Finds(t) ==
    LET id == IF calls[t].op = "get" THEN calls[t].id ELSE latest[calls[t].subject]
    IN  /\ calls[t].op \in {"get", "latest"} /\ calls[t].at = "asking"
        /\ IF id # NoId /\ ids[id] # Nothing
           THEN Answered(t, id)
           ELSE calls' = [calls EXCEPT ![t] = Fail(@)]
        /\ UNCHANGED <<registryVars, cacheVars, faults>>

Checks(t) ==
    /\ calls[t].op = "check" /\ calls[t].at = "asking"
    /\ \E compatible \in BOOLEAN : calls' = [calls EXCEPT ![t] = Return(@, compatible)]
    /\ UNCHANGED <<registryVars, cacheVars, faults>>

-----------------------------------------------------------------------------
\* The answer is read: its ID or its schema goes into the cache, and to the caller.
RegisterAnswered(t) ==
    /\ calls[t].op = "register" /\ calls[t].at = "answered"
    /\ idCache' = [idCache EXCEPT ![ClientOf[t]][CacheKey(calls[t].asked.key)] = calls[t].id]
    /\ calls' = [calls EXCEPT ![t] = Return(@, @.id)]
    /\ UNCHANGED <<registryVars, schemaCache, faults>>

\* A mistake: the version, which counts from one in each subject, is taken for the ID.
VersionNumber(call) == IF call.op = "latest" THEN Cardinality(versions[call.asked.subject])
                                             ELSE call.id

AnsweredID(call) == call.id

SchemaAnswered(t) ==
    LET id == calls[t].id IN
    /\ calls[t].op \in {"get", "latest"} /\ calls[t].at = "answered"
    /\ schemaCache' = [schemaCache EXCEPT ![ClientOf[t]][AnsweredID(calls[t])] = ids[id].schema]
    /\ calls' = [calls EXCEPT ![t] = Return(@, ids[id].schema)]
    /\ UNCHANGED <<registryVars, idCache, faults>>

\* No request, a status that is not 200, or a body that cannot be decoded.
Fails(t) ==
    /\ calls[t].at \in {"asking", "answered"} /\ faults < MaxFaults
    /\ calls' = [calls EXCEPT ![t] = Fail(@)]
    /\ faults' = faults + 1
    /\ UNCHANGED <<registryVars, cacheVars>>

\* The request, or the answer to it, is lost; the HTTP client has a timeout.
Lost(t) ==
    /\ calls[t].at \in {"asking", "answered"} /\ faults < MaxFaults
    /\ calls' = [calls EXCEPT ![t] = [op |-> @.op, at |-> "lost"]]
    /\ faults' = faults + 1
    /\ UNCHANGED <<registryVars, cacheVars>>

\* A mistake: the client waits for ever.
WaitsOn(t) == calls[t].at = "lost" /\ UNCHANGED clientVars

TimesOut(t) ==
    /\ calls[t].at = "lost"
    /\ calls' = [calls EXCEPT ![t] = Fail(@)]
    /\ UNCHANGED <<registryVars, cacheVars, faults>>

\* A process ends and starts again: NewClient has empty caches.
Forgets(c) ==
    /\ faults < MaxFaults
    /\ idCache' = [idCache EXCEPT ![c] = [k \in Keys |-> NoId]]
    /\ schemaCache' = [schemaCache EXCEPT ![c] = [i \in Ids |-> Unknown]]
    /\ calls' = [t \in Threads |-> IF ClientOf[t] = c THEN Idle ELSE calls[t]]
    /\ faults' = faults + 1
    /\ UNCHANGED registryVars

Proceeds(t) == \/ Registers(t) \/ Finds(t) \/ Checks(t)
               \/ RegisterAnswered(t) \/ SchemaAnswered(t) \/ TimesOut(t)

CallStep(t) == Proceeds(t) \/ Fails(t) \/ Lost(t)

-----------------------------------------------------------------------------
\* What any goroutine may do with a client of its own; the topic of typed
\* messages restricts the calls to those that its producers and readers make.
RegistryNext ==
    \/ \E t \in Threads :
        \/ \E key \in Keys : RegisterSchema(t, key) \/ CheckCompatibility(t, key)
        \/ \E i \in Ids : GetSchemaByID(t, i)
        \/ \E s \in Subjects : GetLatestSchema(t, s)
        \/ CallStep(t)
        \/ /\ Returned(t) \/ Failed(t)
           /\ calls' = [calls EXCEPT ![t] = Idle]
           /\ UNCHANGED <<registryVars, cacheVars, faults>>
    \/ \E c \in Clients : Forgets(c)

RegistrySpec == RegistryInit /\ [][RegistryNext]_clientVars

\* Whatever was lost, refused or forgotten, and whoever asked first: an ID
\* stands for one definition, and what a client remembers of an ID, or of a
\* registration, is what the registry says of it and has under its subject.
CachesAgree ==
    /\ \A i, j \in Ids : ids[i] = ids[j] /\ ids[i] # Nothing => i = j
    /\ \A c \in Clients :
        /\ \A k \in Keys : idCache[c][k] # NoId =>
            /\ ids[idCache[c][k]] = DefinitionOf(k)
            /\ idCache[c][k] \in versions[k.subject]
        /\ \A i \in Ids : schemaCache[c][i] # Unknown => schemaCache[c][i] = ids[i].schema
=============================================================================
