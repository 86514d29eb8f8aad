-------------------------- MODULE TypedTopicProofs --------------------------
(***************************************************************************)
(* What clients remember agrees with the registry, and a message names the *)
(* schema that it was written with, for any number of producers, processes *)
(* and schemas, of lost answers and of restarts.                           *)
(*                                                                         *)
(* A cache is filled with an answer that may be old by then.  That does no *)
(* harm, since the registry never takes back what an answer says: an ID    *)
(* keeps its definition and a subject its versions.  The invariant RInv    *)
(* says of every call what it has in hand, whoever makes it; TInv follows  *)
(* an ID on its way from the registry into the message: what a producer's  *)
(* call has in hand belongs to the key of that producer, and so does the   *)
(* header that it puts in front of its payload.                            *)
(***************************************************************************)
EXTENDS TypedTopic, TLAPS

\* The registry gives an ID to one definition only.
OneId ==
    \A i, j \in Ids : ids[i] = ids[j] /\ ids[i] # Nothing => i = j

RegistryTypes ==
    /\ ids \in [Ids -> Definitions \cup {Nothing}]
    /\ versions \in [Subjects -> SUBSET Ids]
    /\ latest \in [Subjects -> Ids \cup {NoId}]

\* What is known of an ID that a client remembers, or was told, for a key.
Stands(id, key) ==
    /\ id \in Ids
    /\ ids[id] = DefinitionOf(key)
    /\ id \in versions[key.subject]

CachesHold ==
    /\ idCache \in [Clients -> [Keys -> Ids \cup {NoId}]]
    /\ schemaCache \in [Clients -> [Ids -> Schemas \cup {Unknown}]]
    /\ \A c \in Clients : \A k \in Keys : idCache[c][k] # NoId => Stands(idCache[c][k], k)
    /\ \A c \in Clients : \A i \in Ids :
           schemaCache[c][i] # Unknown => schemaCache[c][i] = ids[i].schema

\* What a call that was answered has in hand.
AnswerHolds(t) ==
    /\ calls[t].at = "asking" /\ calls[t].op = "register" => calls[t].key \in Keys
    /\ calls[t].at = "asking" /\ calls[t].op = "get" => calls[t].id \in Ids
    /\ calls[t].at = "asking" /\ calls[t].op = "latest" => calls[t].subject \in Subjects
    /\ calls[t].at = "answered" /\ calls[t].op = "register" =>
           calls[t].asked.key \in Keys /\ Stands(calls[t].id, calls[t].asked.key)
    /\ calls[t].at = "answered" /\ calls[t].op \in {"get", "latest"} =>
           calls[t].id \in Ids /\ ids[calls[t].id] # Nothing

CallsHold ==
    /\ DOMAIN calls = Threads
    /\ \A t \in Threads : AnswerHolds(t)

RInv == RegistryTypes /\ OneId /\ CachesHold /\ CallsHold

\* The registry only learns.
Learns ==
    /\ \A i \in Ids : ids[i] # Nothing => ids'[i] = ids[i]
    /\ \A s \in Subjects : versions[s] \subseteq versions'[s]

-----------------------------------------------------------------------------
\* The definition of a key is a definition, and not that of no schema.
LEMMA KeyDefinition ==
    ASSUME NEW key \in Keys
    PROVE  DefinitionOf(key) \in Definitions /\ DefinitionOf(key) # Nothing
           /\ key.subject \in Subjects
BY UnknownAssumption DEF Keys, DefinitionOf, Definitions, Nothing, TypeOf, Types

\* What is remembered stays true when the registry learns and nothing is added.
LEMMA CachesStay ==
    ASSUME RInv, Learns, UNCHANGED cacheVars
    PROVE  CachesHold'
<1>1. ASSUME NEW c \in Clients, NEW k \in Keys, idCache[c][k] # NoId
      PROVE  Stands(idCache[c][k], k)'
  BY <1>1, KeyDefinition DEF RInv, CachesHold, Stands, Learns, cacheVars
<1>2. ASSUME NEW c \in Clients, NEW i \in Ids, schemaCache[c][i] # Unknown
      PROVE  schemaCache[c][i] = ids'[i].schema
  <2>1. schemaCache[c][i] = ids[i].schema
    BY <1>2 DEF RInv, CachesHold
  <2>2. ids[i] # Nothing
    BY <1>2, <2>1 DEF Nothing
  <2> QED
    BY <2>1, <2>2 DEF Learns
<1> QED
  BY <1>1, <1>2 DEF RInv, CachesHold, cacheVars

\* What a call has in hand stays true when the registry learns.
LEMMA AnswerStays ==
    ASSUME RInv, Learns, NEW t \in Threads, calls'[t] = calls[t]
    PROVE  AnswerHolds(t)'
<1>1. AnswerHolds(t)
  BY DEF RInv, CallsHold
<1>2. ASSUME calls[t].at = "answered", calls[t].op = "register"
      PROVE  Stands(calls[t].id, calls[t].asked.key)'
  BY <1>1, <1>2, KeyDefinition DEF AnswerHolds, Stands, Learns
<1> QED
  BY <1>1, <1>2 DEF AnswerHolds, Learns

\* A step of one call that leaves registry and caches alone.
LEMMA CallMoves ==
    ASSUME RInv, UNCHANGED <<registryVars, cacheVars>>, NEW t \in Threads,
           NEW call, calls' = [calls EXCEPT ![t] = call], AnswerHolds(t)'
    PROVE  RInv'
<1>1. Learns
  BY DEF Learns, registryVars
<1>2. RegistryTypes' /\ OneId'
  BY DEF RInv, RegistryTypes, OneId, registryVars
<1>3. CachesHold'
  BY <1>1, CachesStay
<1>4. DOMAIN calls' = Threads
  BY DEF RInv, CallsHold
<1>5. \A u \in Threads \ {t} : calls'[u] = calls[u]
  BY DEF RInv, CallsHold
<1>6. \A u \in Threads : AnswerHolds(u)'
  BY <1>1, <1>5, AnswerStays
<1> QED
  BY <1>2, <1>3, <1>4, <1>6 DEF RInv, CallsHold

-----------------------------------------------------------------------------
LEMMA InitHolds == RegistryInit => RInv
<1> SUFFICES ASSUME RegistryInit PROVE RInv
  OBVIOUS
<1>1. RegistryTypes /\ OneId
  BY DEF RegistryInit, RegistryTypes, OneId
<1>2. CachesHold
  BY DEF RegistryInit, CachesHold
<1>3. CallsHold
  BY DEF RegistryInit, CallsHold, AnswerHolds, Idle
<1> QED
  BY <1>1, <1>2, <1>3 DEF RInv

\* A call begins: the cache answers it, or it is going to ask the registry.
LEMMA RegisterSchemaHolds ==
    ASSUME RInv, NEW t \in Threads, NEW key \in Keys, RegisterSchema(t, key)
    PROVE  RInv'
<1> DEFINE asking == [op |-> "register", at |-> "asking", key |-> key]
           id     == idCache[ClientOf[t]][key]
           call   == IF id # NoId THEN Return(asking, id) ELSE asking
<1>1. calls' = [calls EXCEPT ![t] = call] /\ UNCHANGED <<registryVars, cacheVars>>
  BY DEF RegisterSchema, CacheKey
<1>2. calls'[t] = call
  BY <1>1 DEF RInv, CallsHold
<1>3. AnswerHolds(t)'
  BY <1>2 DEF AnswerHolds, Return
<1> HIDE DEF call
<1> QED
  BY <1>1, <1>3, CallMoves

LEMMA GetSchemaByIDHolds ==
    ASSUME RInv, NEW t \in Threads, NEW i \in Ids, GetSchemaByID(t, i)
    PROVE  RInv'
<1> DEFINE asking == [op |-> "get", at |-> "asking", id |-> i]
           schema == schemaCache[ClientOf[t]][i]
           call   == IF schema # Unknown THEN Return(asking, schema) ELSE asking
<1>1. calls' = [calls EXCEPT ![t] = call] /\ UNCHANGED <<registryVars, cacheVars>>
  BY DEF GetSchemaByID
<1>2. calls'[t] = call
  BY <1>1 DEF RInv, CallsHold
<1>3. AnswerHolds(t)'
  BY <1>2 DEF AnswerHolds, Return
<1> HIDE DEF call
<1> QED
  BY <1>1, <1>3, CallMoves

LEMMA OtherCallsHold ==
    ASSUME RInv, NEW t \in Threads,
           \/ \E s \in Subjects : GetLatestSchema(t, s)
           \/ \E key \in Keys : CheckCompatibility(t, key)
    PROVE  RInv'
<1>1. ASSUME NEW s \in Subjects, GetLatestSchema(t, s) PROVE RInv'
  <2> DEFINE call == [op |-> "latest", at |-> "asking", subject |-> s]
  <2>1. calls' = [calls EXCEPT ![t] = call] /\ UNCHANGED <<registryVars, cacheVars>>
    BY <1>1 DEF GetLatestSchema
  <2>2. calls'[t] = call
    BY <2>1 DEF RInv, CallsHold
  <2>3. AnswerHolds(t)'
    BY <2>2 DEF AnswerHolds
  <2> HIDE DEF call
  <2> QED
    BY <2>1, <2>3, CallMoves
<1>2. ASSUME NEW key \in Keys, CheckCompatibility(t, key) PROVE RInv'
  <2> DEFINE call == [op |-> "check", at |-> "asking", key |-> key]
  <2>1. calls' = [calls EXCEPT ![t] = call] /\ UNCHANGED <<registryVars, cacheVars>>
    BY <1>2 DEF CheckCompatibility
  <2>2. calls'[t] = call
    BY <2>1 DEF RInv, CallsHold
  <2>3. AnswerHolds(t)'
    BY <2>2 DEF AnswerHolds
  <2> HIDE DEF call
  <2> QED
    BY <2>1, <2>3, CallMoves
<1> QED
  BY <1>1, <1>2

LEMMA RegistersHolds ==
    ASSUME RInv, NEW t \in Threads, Registers(t)
    PROVE  RInv' /\ Learns
<1>1. PICK key \in Keys : key = calls[t].key
  BY DEF Registers, RInv, CallsHold, AnswerHolds
<1>2. PICK i \in Ids :
          /\ Given(DefinitionOf(key), i)
          /\ ids' = [ids EXCEPT ![i] = DefinitionOf(key)]
          /\ versions' = [versions EXCEPT ![key.subject] = @ \cup {i}]
          /\ latest' = IF i \notin versions[key.subject]
                       THEN [latest EXCEPT ![key.subject] = i] ELSE latest
          /\ Answered(t, i)
          /\ UNCHANGED cacheVars
  BY <1>1 DEF Registers
<1>3. DefinitionOf(key) \in Definitions /\ DefinitionOf(key) # Nothing /\ key.subject \in Subjects
  BY <1>1, KeyDefinition
<1>4. RegistryTypes'
  BY <1>2, <1>3 DEF RInv, RegistryTypes
<1>5. Learns
  BY <1>2, <1>3 DEF RInv, RegistryTypes, Learns, Given
<1>6. OneId'
  BY <1>2, <1>3 DEF RInv, RegistryTypes, OneId, Given
<1>7. CachesHold'
  BY <1>2, <1>5, CachesStay
<1>8. DOMAIN calls' = Threads /\ \A u \in Threads \ {t} : calls'[u] = calls[u]
  BY <1>2 DEF RInv, CallsHold, Answered
<1>9. AnswerHolds(t)'
  <2>1. calls'[t] = [op |-> "register", at |-> "answered", asked |-> calls[t], id |-> i]
    BY <1>2 DEF RInv, CallsHold, Answered, Registers
  <2>2. Stands(i, key)'
    BY <1>2, <1>3 DEF RInv, RegistryTypes, Stands
  <2> QED
    BY <1>1, <2>1, <2>2 DEF AnswerHolds, Stands
<1>10. \A u \in Threads : AnswerHolds(u)'
  BY <1>5, <1>8, <1>9, AnswerStays
<1> QED
  BY <1>4, <1>5, <1>6, <1>7, <1>8, <1>10 DEF RInv, CallsHold

LEMMA RegisterAnsweredHolds ==
    ASSUME RInv, NEW t \in Threads, RegisterAnswered(t)
    PROVE  RInv'
<1>1. PICK c \in Clients, key \in Keys, id \in Ids :
          c = ClientOf[t] /\ key = calls[t].asked.key /\ id = calls[t].id /\ Stands(id, key)
  BY RegistryAssumption DEF RegisterAnswered, RInv, CallsHold, AnswerHolds, Stands
<1>2. /\ idCache' = [idCache EXCEPT ![c][key] = id]
      /\ calls' = [calls EXCEPT ![t] = Return(@, @.id)]
      /\ UNCHANGED <<registryVars, schemaCache>>
  BY <1>1 DEF RegisterAnswered, CacheKey
<1>3. Learns /\ RegistryTypes' /\ OneId'
  BY <1>2 DEF Learns, registryVars, RInv, RegistryTypes, OneId
<1>4. CachesHold'
  <2>1. idCache' \in [Clients -> [Keys -> Ids \cup {NoId}]]
    BY <1>1, <1>2 DEF RInv, CachesHold, Stands
  <2>2. ASSUME NEW d \in Clients, NEW k \in Keys, idCache'[d][k] # NoId
        PROVE  Stands(idCache[d][k], k)'
    <3>1. idCache'[d][k] = IF d = c /\ k = key THEN id ELSE idCache[d][k]
      BY <1>1, <1>2 DEF RInv, CachesHold
    <3>2. Stands(idCache'[d][k], k)
      BY <1>1, <2>2, <3>1 DEF RInv, CachesHold
    <3> QED
      BY <1>2, <3>2 DEF Stands, registryVars
  <2> QED
    BY <1>2, <2>1, <2>2 DEF RInv, CachesHold, registryVars
<1>5. DOMAIN calls' = Threads /\ \A u \in Threads \ {t} : calls'[u] = calls[u]
  BY <1>2 DEF RInv, CallsHold
<1>6. AnswerHolds(t)'
  <2>1. calls'[t].at = "returned"
    BY <1>2 DEF RInv, CallsHold, Return
  <2> QED
    BY <2>1 DEF AnswerHolds
<1>7. \A u \in Threads : AnswerHolds(u)'
  BY <1>3, <1>5, <1>6, AnswerStays
<1> QED
  BY <1>3, <1>4, <1>5, <1>7 DEF RInv, CallsHold

LEMMA SchemaAnsweredHolds ==
    ASSUME RInv, NEW t \in Threads, SchemaAnswered(t)
    PROVE  RInv'
<1> DEFINE c == ClientOf[t]
           id == calls[t].id
<1>1. c \in Clients /\ id \in Ids /\ ids[id] # Nothing
  BY RegistryAssumption DEF SchemaAnswered, RInv, CallsHold, AnswerHolds
<1>2. /\ schemaCache' = [schemaCache EXCEPT ![c][id] = ids[id].schema]
      /\ calls' = [calls EXCEPT ![t] = Return(@, ids[id].schema)]
      /\ UNCHANGED <<registryVars, idCache>>
  BY DEF SchemaAnswered, AnsweredID
<1>3. Learns /\ RegistryTypes' /\ OneId'
  BY <1>2 DEF Learns, registryVars, RInv, RegistryTypes, OneId
<1>4. ids[id].schema \in Schemas
  BY <1>1 DEF RInv, RegistryTypes, Definitions
<1>5. CachesHold'
  <2>1. schemaCache' \in [Clients -> [Ids -> Schemas \cup {Unknown}]]
    BY <1>1, <1>2, <1>4 DEF RInv, CachesHold
  <2>2. ASSUME NEW d \in Clients, NEW i \in Ids, schemaCache'[d][i] # Unknown
        PROVE  schemaCache'[d][i] = ids[i].schema
    <3>1. schemaCache'[d][i] = IF d = c /\ i = id THEN ids[id].schema ELSE schemaCache[d][i]
      BY <1>1, <1>2 DEF RInv, CachesHold
    <3> QED
      BY <2>2, <3>1 DEF RInv, CachesHold
  <2>3. ASSUME NEW d \in Clients, NEW k \in Keys, idCache[d][k] # NoId
        PROVE  Stands(idCache[d][k], k)'
    BY <1>2, <2>3 DEF RInv, CachesHold, Stands, registryVars
  <2> QED
    BY <1>2, <2>1, <2>2, <2>3 DEF RInv, CachesHold, registryVars
<1>6. DOMAIN calls' = Threads /\ \A u \in Threads \ {t} : calls'[u] = calls[u]
  BY <1>2 DEF RInv, CallsHold
<1>7. AnswerHolds(t)'
  <2>1. calls'[t].at = "returned"
    BY <1>2 DEF RInv, CallsHold, Return
  <2> QED
    BY <2>1 DEF AnswerHolds
<1>8. \A u \in Threads : AnswerHolds(u)'
  BY <1>3, <1>6, <1>7, AnswerStays
<1> QED
  BY <1>3, <1>5, <1>6, <1>8 DEF RInv, CallsHold

LEMMA FindsHolds ==
    ASSUME RInv, NEW t \in Threads, Finds(t)
    PROVE  RInv'
<1> DEFINE id == IF calls[t].op = "get" THEN calls[t].id ELSE latest[calls[t].subject]
<1>1. id \in Ids \cup {NoId}
  BY DEF Finds, RInv, RegistryTypes, CallsHold, AnswerHolds
<1>2. CASE id # NoId /\ ids[id] # Nothing
  <2>1. /\ calls' = [calls EXCEPT ![t] = [op |-> @.op, at |-> "answered", asked |-> calls[t], id |-> id]]
        /\ UNCHANGED <<registryVars, cacheVars>>
        /\ calls[t].op \in {"get", "latest"}
    BY <1>2 DEF Finds, Answered
  <2>2. calls'[t] = [op |-> calls[t].op, at |-> "answered", asked |-> calls[t], id |-> id]
    BY <2>1 DEF RInv, CallsHold
  <2>3. AnswerHolds(t)'
    BY <1>1, <1>2, <2>1, <2>2 DEF AnswerHolds, registryVars
  <2> QED
    BY <2>1, <2>3, CallMoves
<1>3. CASE ~(id # NoId /\ ids[id] # Nothing)
  <2>1. /\ calls' = [calls EXCEPT ![t] = Fail(@)]
        /\ UNCHANGED <<registryVars, cacheVars>>
    BY <1>3 DEF Finds
  <2>2. AnswerHolds(t)'
    BY <2>1 DEF AnswerHolds, RInv, CallsHold, Fail
  <2> QED
    BY <2>1, <2>2, CallMoves
<1> QED
  BY <1>2, <1>3

\* Steps that put a call to an end, or lose it.
LEMMA EndsHolds ==
    ASSUME RInv, NEW t \in Threads, NEW call, calls' = [calls EXCEPT ![t] = call],
           call.at \in {"idle", "failed", "lost", "returned"},
           UNCHANGED <<registryVars, cacheVars>>
    PROVE  RInv'
<1>1. calls'[t] = call
  BY DEF RInv, CallsHold
<1>2. AnswerHolds(t)'
  BY <1>1 DEF AnswerHolds
<1> QED
  BY <1>2, CallMoves

LEMMA CallStepHolds ==
    ASSUME RInv, NEW t \in Threads, CallStep(t)
    PROVE  RInv' /\ Learns
<1>1. ASSUME Checks(t) PROVE RInv'
  <2>1. PICK compatible \in BOOLEAN :
            calls' = [calls EXCEPT ![t] = [op |-> calls[t].op, at |-> "returned", result |-> compatible]]
    BY <1>1 DEF Checks, Return
  <2> QED
    BY <1>1, <2>1, EndsHolds DEF Checks
<1>2. ASSUME TimesOut(t) \/ Fails(t) PROVE RInv'
  <2>1. calls' = [calls EXCEPT ![t] = [op |-> calls[t].op, at |-> "failed"]]
    BY <1>2 DEF TimesOut, Fails, Fail
  <2> QED
    BY <1>2, <2>1, EndsHolds DEF TimesOut, Fails
<1>3. ASSUME Lost(t) PROVE RInv'
  <2>1. calls' = [calls EXCEPT ![t] = [op |-> calls[t].op, at |-> "lost"]]
    BY <1>3 DEF Lost
  <2> QED
    BY <1>3, <2>1, EndsHolds DEF Lost
<1>4. CASE Registers(t)
  BY <1>4, RegistersHolds
<1>5. Registers(t) \/ UNCHANGED registryVars
  BY DEF CallStep, Proceeds, Finds, Checks, RegisterAnswered, SchemaAnswered, TimesOut, Fails, Lost
<1>6. UNCHANGED registryVars => Learns
  BY DEF Learns, registryVars
<1> QED
  BY <1>1, <1>2, <1>3, <1>4, <1>5, <1>6, FindsHolds, RegisterAnsweredHolds, SchemaAnsweredHolds
     DEF CallStep, Proceeds

LEMMA ForgetsHolds ==
    ASSUME RInv, NEW c \in Clients, Forgets(c)
    PROVE  RInv'
<1>1. /\ idCache' = [idCache EXCEPT ![c] = [k \in Keys |-> NoId]]
      /\ schemaCache' = [schemaCache EXCEPT ![c] = [i \in Ids |-> Unknown]]
      /\ calls' = [t \in Threads |-> IF ClientOf[t] = c THEN Idle ELSE calls[t]]
      /\ UNCHANGED registryVars
  BY DEF Forgets
<1>2. Learns /\ RegistryTypes' /\ OneId'
  BY <1>1 DEF Learns, registryVars, RInv, RegistryTypes, OneId
<1>3. CachesHold'
  <2>1. ASSUME NEW d \in Clients, NEW k \in Keys, idCache'[d][k] # NoId
        PROVE  Stands(idCache[d][k], k)'
    <3>1. idCache'[d][k] = idCache[d][k]
      BY <1>1, <2>1 DEF RInv, CachesHold
    <3> QED
      BY <1>1, <2>1, <3>1 DEF RInv, CachesHold, Stands, registryVars
  <2>2. ASSUME NEW d \in Clients, NEW i \in Ids, schemaCache'[d][i] # Unknown
        PROVE  schemaCache'[d][i] = ids[i].schema
    BY <1>1, <2>2 DEF RInv, CachesHold
  <2>3. /\ idCache' \in [Clients -> [Keys -> Ids \cup {NoId}]]
        /\ schemaCache' \in [Clients -> [Ids -> Schemas \cup {Unknown}]]
    BY <1>1 DEF RInv, CachesHold
  <2> QED
    BY <1>1, <2>1, <2>2, <2>3 DEF CachesHold, registryVars
<1>4. CallsHold'
  <2>1. ASSUME NEW t \in Threads PROVE AnswerHolds(t)'
    <3>1. CASE ClientOf[t] = c
      BY <1>1, <3>1 DEF AnswerHolds, Idle
    <3>2. CASE ClientOf[t] # c
      BY <1>1, <1>2, <3>2, AnswerStays
    <3> QED
      BY <3>1, <3>2
  <2> QED
    BY <1>1, <2>1 DEF CallsHold
<1> QED
  BY <1>2, <1>3, <1>4 DEF RInv

-----------------------------------------------------------------------------
\* The strengthening implies the property that the run checks.
LEMMA HoldsAgrees == RInv => CachesAgree
BY DEF RInv, OneId, CachesHold, Stands, CachesAgree

\* With goroutines that make any calls at all: what a client remembers of an ID,
\* or of a registration, is what the registry says of it.
THEOREM RegistryCachesAgree == RegistrySpec => []CachesAgree
<1>1. RInv /\ [RegistryNext]_clientVars => RInv'
  <2> SUFFICES ASSUME RInv, [RegistryNext]_clientVars PROVE RInv'
    OBVIOUS
  <2>1. CASE UNCHANGED clientVars
    BY <2>1 DEF clientVars, registryVars, cacheVars, RInv, RegistryTypes, OneId, CachesHold,
                CallsHold, AnswerHolds, Stands
  <2>2. ASSUME NEW t \in Threads, Returned(t) \/ Failed(t),
               calls' = [calls EXCEPT ![t] = Idle], UNCHANGED <<registryVars, cacheVars, faults>>
        PROVE  RInv'
    BY <2>2, EndsHolds DEF Idle
  <2> QED
    BY <2>1, <2>2, RegisterSchemaHolds, GetSchemaByIDHolds, OtherCallsHold, CallStepHolds,
       ForgetsHolds DEF RegistryNext
<1> QED
  BY <1>1, InitHolds, HoldsAgrees, PTL DEF RegistrySpec
-----------------------------------------------------------------------------

Datas == {s.publish[p].data : s \in Setups, p \in Producers}

\* What spells a payload: text and bytes.
Spelling == {d \in Datas : d.type \in {"string", "bytes"}}

Payloads ==
    [id     : Ids \cup {NoHeader},
     format : {"text", "json", "gob", "protobuf", "avro"} \cup {d.is.format : d \in Spelling},
     value  : Datas \cup {d.is.value : d \in Spelling}]

\* A payload of producer p: without a header, or with the one of its schema.
Named(payload, p) ==
    /\ payload \in Payloads
    /\ payload.id # NoHeader => Stands(payload.id, Key(p))

\* What a producer's stage says of its call and of its payload.
Linked(p) ==
    /\ stage[p] # "registering" => calls[p] = Idle
    /\ stage[p] = "registering" =>
          /\ encoded[p] \in Payloads
          /\ calls[p].op = "register"
          /\ calls[p].at = "asking" => calls[p].key = Key(p)
          /\ calls[p].at = "answered" => calls[p].asked.key = Key(p)
          /\ calls[p].at = "returned" => Stands(calls[p].result, Key(p))
    /\ stage[p] = "encoded" => Named(encoded[p], p)

TopicHolds ==
    /\ topic \in Seq([from : Producers, payload : Payloads])
    /\ \A n \in DOMAIN topic : Named(topic[n].payload, topic[n].from)

ProducersHold ==
    /\ DOMAIN stage = Producers /\ DOMAIN encoded = Producers
    /\ \A p \in Producers : Linked(p)

TInv == setup \in Setups /\ RInv /\ ProducersHold /\ TopicHolds

-----------------------------------------------------------------------------
LEMMA KeyIsKey ==
    ASSUME setup \in Setups, NEW p \in Producers
    PROVE  Key(p) \in Keys
BY SetupsAssumption DEF Key, Plan, Keys

\* Text and bytes spell a payload without a header.
LEMMA SpellsPayload ==
    ASSUME setup \in Setups, NEW p \in Producers, Plan(p).data.type \in {"string", "bytes"}
    PROVE  /\ Plan(p).data.is = Payload(Plan(p).data.is.format, Plan(p).data.is.value)
           /\ Plan(p).data.is.id = NoHeader
           /\ Plan(p).data = [type |-> Plan(p).data.type, is |-> Plan(p).data.is]
<1> DEFINE data == Plan(p).data
           spelled == Payload(data.is.format, data.is.value)
<1>1. data = [type |-> data.type, is |-> spelled]
  BY SetupsAssumption DEF Plan
<1>2. ASSUME NEW any, NEW type, NEW is, any = [type |-> type, is |-> is]
      PROVE  any.is = is
  BY <1>2
<1>3. spelled.id = NoHeader
  BY DEF Payload
<1> HIDE DEF data, spelled
<1>4. data.is = spelled
  BY <1>1, <1>2
<1> QED
  BY <1>1, <1>3, <1>4 DEF data, spelled

\* A serializer gives an error or a payload without a header.
LEMMA SerializeGives ==
    ASSUME setup \in Setups, NEW p \in Producers, NEW codec
    PROVE  LET payload == Serialize(codec, Plan(p).data)
           IN  \/ payload = Error /\ Plan(p).data.type # "bytes"
               \/ payload \in Payloads /\ payload.id = NoHeader
<1> DEFINE data == Plan(p).data
<1>1. data \in Datas
  BY DEF Plan, Datas
<1>2. ASSUME data.type \in {"string", "bytes"}
      PROVE  data.is \in Payloads /\ data.is.id = NoHeader
  <2>1. data.is = Payload(data.is.format, data.is.value) /\ data.is.id = NoHeader
    BY <1>2, SpellsPayload
  <2>2. Payload(data.is.format, data.is.value) \in Payloads
    BY <1>1, <1>2 DEF Payload, Payloads, Spelling
  <2> QED
    BY <2>1, <2>2
<1>3. CASE data.type = "bytes"
  BY <1>2, <1>3 DEF Serialize
<1>4. CASE data.type # "bytes"
  <2>1. \/ Encodes(codec, data) \in {Error} \cup
              {Payload(format, data) : format \in {"text", "json", "gob", "protobuf", "avro"}}
        \/ data.type = "string" /\ Encodes(codec, data) = data.is
    <3> HIDE DEF data
    <3> QED
      BY DEF Encodes
  <2>2. ASSUME NEW format \in {"text", "json", "gob", "protobuf", "avro"}
        PROVE  Payload(format, data) \in Payloads /\ Payload(format, data).id = NoHeader
    <3> HIDE DEF data
    <3> QED
      BY <1>1 DEF Payload, Payloads
  <2> QED
    BY <1>2, <1>4, <2>1, <2>2 DEF Serialize
<1> QED
  BY <1>3, <1>4

-----------------------------------------------------------------------------
LEMMA StandsStays ==
    ASSUME TInv, Learns, setup' = setup, NEW p \in Producers, NEW id, Stands(id, Key(p))
    PROVE  Stands(id, Key(p))'
<1>1. Key(p)' = Key(p)
  BY DEF Key, Plan
<1>2. Key(p) \in Keys
  BY KeyIsKey DEF TInv
<1> QED
  BY <1>1, <1>2, KeyDefinition DEF Stands, Learns

LEMMA NamedStays ==
    ASSUME TInv, Learns, setup' = setup, NEW p \in Producers, NEW payload, Named(payload, p)
    PROVE  Named(payload, p)'
BY StandsStays DEF Named

\* A producer that does not step.
LEMMA LinkedStays ==
    ASSUME TInv, Learns, setup' = setup, NEW p \in Producers,
           stage'[p] = stage[p], encoded'[p] = encoded[p], calls'[p] = calls[p]
    PROVE  Linked(p)'
<1>1. Linked(p)
  BY DEF TInv, ProducersHold
<1>2. Key(p)' = Key(p)
  BY DEF Key, Plan
<1>3. PICK payload, result : payload = encoded[p] /\ result = calls[p].result
  OBVIOUS
<1>4. Named(payload, p) => Named(payload, p)'
  BY NamedStays
<1>5. Stands(result, Key(p)) => Stands(result, Key(p))'
  BY StandsStays
<1>6. Named(encoded[p], p) => Named(encoded[p], p)'
  BY <1>2, <1>3, <1>4 DEF Named, Stands
<1>7. Stands(calls[p].result, Key(p)) => Stands(calls[p].result, Key(p))'
  BY <1>2, <1>3, <1>5 DEF Stands
<1> QED
  BY <1>1, <1>2, <1>6, <1>7 DEF Linked

LEMMA MessagesAre ==
    ASSUME TopicHolds, NEW n \in DOMAIN topic
    PROVE  topic[n].from \in Producers /\ topic[n].payload \in Payloads
<1> DEFINE Messages == [from : Producers, payload : Payloads]
<1>1. topic \in Seq(Messages)
  BY DEF TopicHolds
<1>2. topic[n] \in Messages
  <2> HIDE DEF Messages
  <2> QED
    BY <1>1
<1> QED
  BY <1>2

LEMMA TopicStays ==
    ASSUME TInv, Learns, setup' = setup, topic' = topic
    PROVE  TopicHolds'
<1>1. ASSUME NEW n \in DOMAIN topic PROVE Named(topic[n].payload, topic[n].from)'
  <2>1. PICK p \in Producers, payload \in Payloads :
            p = topic[n].from /\ payload = topic[n].payload /\ Named(payload, p)
    BY MessagesAre DEF TInv, TopicHolds
  <2>2. Named(payload, p)'
    BY <2>1, NamedStays
  <2> QED
    BY <2>1, <2>2 DEF Named, Stands, Key, Plan
<1> QED
  BY <1>1 DEF TInv, TopicHolds

\* Steps that leave the producers' calls, stages and payloads alone.
LEMMA OthersStep ==
    ASSUME TInv, Learns, RInv', setup' = setup, topic' = topic,
           stage' = stage, encoded' = encoded, \A p \in Producers : calls'[p] = calls[p]
    PROVE  TInv'
BY LinkedStays, TopicStays DEF TInv, ProducersHold

\* Steps of one producer that publish nothing.
LEMMA ProducerStep ==
    ASSUME TInv, Learns, RInv', setup' = setup, topic' = topic, NEW p \in Producers,
           DOMAIN stage' = Producers, DOMAIN encoded' = Producers,
           \A q \in Producers \ {p} :
               stage'[q] = stage[q] /\ encoded'[q] = encoded[q] /\ calls'[q] = calls[q],
           Linked(p)'
    PROVE  TInv'
<1>1. ASSUME NEW q \in Producers PROVE Linked(q)'
  BY LinkedStays
<1> QED
  BY <1>1, TopicStays DEF TInv, ProducersHold

-----------------------------------------------------------------------------
LEMMA TopicInit == Init => TInv
<1> SUFFICES ASSUME Init PROVE TInv
  OBVIOUS
<1>1. RInv
  BY InitHolds DEF Init
<1>2. ASSUME NEW p \in Producers PROVE Linked(p)
  BY TopicAssumption DEF Init, RegistryInit, Linked
<1>3. TopicHolds
  BY DEF Init, TopicHolds
<1> QED
  BY <1>1, <1>2, <1>3 DEF Init, TInv, ProducersHold

\* Steps on the registry's side that a producer does not take: nothing is learnt.
LEMMA Unlearnt == UNCHANGED registryVars => Learns
BY DEF registryVars, Learns

LEMMA EncodeHolds ==
    ASSUME TInv, NEW p \in Producers, Encode(p)
    PROVE  TInv'
<1> DEFINE payload == Serialize(Serializer(p), Plan(p).data)
<1>1. \/ payload = Error /\ Plan(p).data.type # "bytes"
      \/ payload \in Payloads /\ payload.id = NoHeader
  BY SerializeGives DEF TInv
<1>2. /\ stage[p] = "new" /\ encoded' = [encoded EXCEPT ![p] = payload]
      /\ UNCHANGED <<setup, topic>>
  BY DEF Encode
<1>3. p \in Threads
  BY TopicAssumption
<1>4. calls[p] = Idle /\ DOMAIN stage = Producers /\ DOMAIN encoded = Producers /\ RInv
      /\ DOMAIN calls = Threads
  BY <1>2 DEF TInv, ProducersHold, Linked, RInv, CallsHold
<1>5. CASE UNCHANGED clientVars /\ Goes(p, "encoded") /\ payload \in Payloads /\ payload.id = NoHeader
  <2>1. Learns /\ RInv'
    BY <1>4, <1>5, Unlearnt DEF clientVars, registryVars, cacheVars, RInv, RegistryTypes, OneId,
          CachesHold, CallsHold, AnswerHolds, Stands
  <2>2. calls' = calls /\ stage' = [stage EXCEPT ![p] = "encoded"]
    BY <1>5 DEF clientVars, Goes
  <2> HIDE DEF payload
  <2>3. Linked(p)'
    BY <1>2, <1>4, <1>5, <2>2 DEF Linked, Named
  <2> QED
    BY <1>2, <1>4, <2>1, <2>2, <2>3, ProducerStep
<1>6. CASE UNCHANGED clientVars /\ Goes(p, "refused")
  <2>1. Learns /\ RInv'
    BY <1>4, <1>6, Unlearnt DEF clientVars, registryVars, cacheVars, RInv, RegistryTypes, OneId,
          CachesHold, CallsHold, AnswerHolds, Stands
  <2>2. calls' = calls /\ stage' = [stage EXCEPT ![p] = "refused"]
    BY <1>6 DEF clientVars, Goes
  <2>3. Linked(p)'
    BY <1>4, <2>2 DEF Linked
  <2> HIDE DEF payload
  <2> QED
    BY <1>2, <1>4, <2>1, <2>2, <2>3, ProducerStep
<1>7. CASE RegisterSchema(p, Key(p)) /\ Goes(p, "registering") /\ payload # Error
  <2>1. PICK key \in Keys : key = Key(p)
    BY KeyIsKey DEF TInv
  <2>2. RegisterSchema(p, key)
    BY <1>7, <2>1
  <2>3. RInv' /\ Learns
    BY <1>3, <1>4, <2>2, RegisterSchemaHolds, Unlearnt DEF RegisterSchema
  <2>4. stage' = [stage EXCEPT ![p] = "registering"]
    BY <1>7 DEF Goes
  <2>5. \/ calls' = [calls EXCEPT ![p] = [op |-> "register", at |-> "asking", key |-> key]]
        \/ /\ idCache[ClientOf[p]][key] # NoId
           /\ calls' = [calls EXCEPT ![p] = [op |-> "register", at |-> "returned",
                                             result |-> idCache[ClientOf[p]][key]]]
    BY <2>2 DEF RegisterSchema, CacheKey, Return
  <2>6. idCache[ClientOf[p]][key] # NoId => Stands(idCache[ClientOf[p]][key], key)
    BY <1>3, <1>4, RegistryAssumption DEF RInv, CachesHold
  <2>7. UNCHANGED <<ids, versions>> /\ Key(p)' = key
    BY <1>2, <2>1, <2>2 DEF RegisterSchema, registryVars, Key, Plan
  <2>8. encoded'[p] \in Payloads
    BY <1>1, <1>2, <1>4, <1>7
  <2>9. Linked(p)'
    BY <1>3, <1>4, <2>4, <2>5, <2>6, <2>7, <2>8 DEF Linked, Stands
  <2>10. \A q \in Producers \ {p} : calls'[q] = calls[q]
    BY <2>5, <1>4, TopicAssumption
  <2> HIDE DEF payload
  <2> QED
    BY <1>2, <1>4, <2>3, <2>4, <2>9, <2>10, ProducerStep
<1> QED
  BY <1>1, <1>5, <1>6, <1>7 DEF Encode

LEMMA PrependHolds ==
    ASSUME TInv, NEW p \in Producers, Prepend(p)
    PROVE  TInv'
<1>1. /\ stage[p] = "registering"
      /\ calls' = [calls EXCEPT ![p] = Idle]
      /\ UNCHANGED <<registryVars, cacheVars, setup, topic>>
  BY DEF Prepend
<1>2. p \in Threads /\ DOMAIN stage = Producers /\ DOMAIN encoded = Producers
      /\ DOMAIN calls = Threads
  BY TopicAssumption DEF TInv, ProducersHold, RInv, CallsHold
<1>3. Learns /\ RInv'
  BY <1>1, <1>2, Unlearnt, EndsHolds DEF TInv, Idle
<1>4. \A q \in Producers \ {p} : calls'[q] = calls[q]
  BY <1>1, <1>2, TopicAssumption
<1>5. calls'[p] = Idle
  BY <1>1, <1>2
<1>6. CASE Failed(p)
  <2>1. stage' = [stage EXCEPT ![p] = "new"] /\ encoded' = encoded
    BY <1>6 DEF Prepend, Goes
  <2>2. Linked(p)'
    BY <1>2, <1>5, <2>1 DEF Linked
  <2> QED
    BY <1>1, <1>2, <1>3, <1>4, <2>1, <2>2, ProducerStep
<1>7. CASE ~Failed(p)
  <2>1. /\ stage' = [stage EXCEPT ![p] = "encoded"]
        /\ encoded' = [encoded EXCEPT ![p] = EncodeSchemaID(Result(p), @)]
        /\ Returned(p)
    BY <1>7 DEF Prepend, Goes
  <2>2. Stands(calls[p].result, Key(p)) /\ encoded[p] \in Payloads
    BY <1>1, <2>1 DEF TInv, ProducersHold, Linked, Returned
  <2>3. encoded'[p] = [encoded[p] EXCEPT !.id = calls[p].result]
    BY <1>2, <2>1 DEF EncodeSchemaID, Result
  <2>4. encoded'[p] \in Payloads /\ encoded'[p].id = calls[p].result
    BY <2>2, <2>3 DEF Payloads, Stands
  <2>5. Linked(p)'
    BY <1>1, <1>2, <1>5, <2>1, <2>2, <2>4 DEF Linked, Named, Stands, registryVars, Key, Plan
  <2> QED
    BY <1>1, <1>2, <1>3, <1>4, <2>1, <2>5, ProducerStep
<1> QED
  BY <1>6, <1>7

\* The client's variables stay, but for the count of faults.
LEMMA RegistryIdle ==
    ASSUME RInv, UNCHANGED <<registryVars, cacheVars, calls>>
    PROVE  Learns /\ RInv'
BY Unlearnt DEF registryVars, cacheVars, RInv, RegistryTypes, OneId,
      CachesHold, CallsHold, AnswerHolds, Stands

LEMMA WriteHolds ==
    ASSUME TInv, NEW p \in Producers, Cannot(p) \/ Write(p) \/ WriteFails(p)
    PROVE  TInv'
<1>1. /\ UNCHANGED <<registryVars, cacheVars, calls, setup, encoded>>
      /\ topic' = topic \/ (stage[p] = "encoded" /\ topic' = Append(topic, MessageOf(p)))
      /\ \E to \in {"refused", "published", "new"} : stage' = [stage EXCEPT ![p] = to]
      /\ stage[p] \in {"new", "encoded"}
  BY DEF Cannot, Write, WriteFails, Goes, clientVars
<1>2. RInv /\ setup \in Setups /\ DOMAIN stage = Producers /\ DOMAIN encoded = Producers
      /\ Linked(p)
  BY DEF TInv, ProducersHold
<1>3. Learns /\ RInv'
  BY <1>1, <1>2, RegistryIdle
<1>4. Linked(p)'
  BY <1>1, <1>2 DEF Linked
<1>5. ProducersHold'
  <2>1. ASSUME NEW q \in Producers PROVE Linked(q)'
    BY <1>1, <1>2, <1>3, <1>4, LinkedStays
  <2> QED
    BY <1>1, <1>2, <2>1 DEF ProducersHold
<1>6. TopicHolds'
  <2>1. CASE topic' = topic
    BY <1>1, <1>3, <2>1, TopicStays
  <2>2. CASE stage[p] = "encoded" /\ topic' = Append(topic, MessageOf(p))
    <3> DEFINE m == [from |-> p, payload |-> encoded[p]]
    <3>1. topic' = Append(topic, m) /\ Named(encoded[p], p)
      BY <1>2, <2>2 DEF MessageOf, Linked
    <3>2. topic \in Seq([from : Producers, payload : Payloads])
          /\ m \in [from : Producers, payload : Payloads]
      BY <3>1 DEF TInv, TopicHolds, Named
    <3>3. ASSUME NEW n \in DOMAIN topic' PROVE Named(topic[n].payload, topic[n].from)'
      <4>1. CASE n \in DOMAIN topic
        <5>1. topic'[n] = topic[n]
          BY <3>1, <3>2, <4>1
        <5>2. Named(topic[n].payload, topic[n].from)
          BY <4>1 DEF TInv, TopicHolds
        <5> QED
          BY <1>1, <5>1, <5>2 DEF Named, Stands, registryVars, Key, Plan
      <4>2. CASE n \notin DOMAIN topic
        <5>1. topic'[n] = m
          BY <3>1, <3>2, <3>3, <4>2
        <5>2. topic'[n].payload = encoded[p] /\ topic'[n].from = p
          BY <5>1
        <5> QED
          BY <1>1, <3>1, <5>2 DEF Named, Stands, registryVars, Key, Plan
      <4> QED
        BY <4>1, <4>2
    <3>4. topic' \in Seq([from : Producers, payload : Payloads])
      BY <3>1, <3>2
    <3> QED
      BY <3>3, <3>4 DEF TopicHolds
  <2> QED
    BY <1>1, <2>1, <2>2
<1> QED
  BY <1>1, <1>2, <1>3, <1>5, <1>6 DEF TInv

LEMMA RestartHolds ==
    ASSUME TInv, NEW c \in Clients, Restart(c)
    PROVE  TInv'
<1>1. /\ Forgets(c)
      /\ stage' = [p \in Producers |-> IF ClientOf[p] = c /\ stage[p] \in {"registering", "encoded"}
                                        THEN "new" ELSE stage[p]]
      /\ UNCHANGED <<setup, encoded, topic>>
  BY DEF Restart
<1>2. Learns /\ RInv'
  BY <1>1, ForgetsHolds, Unlearnt DEF TInv, Forgets
<1>3. calls' = [t \in Threads |-> IF ClientOf[t] = c THEN Idle ELSE calls[t]]
  BY <1>1 DEF Forgets
<1>4. ASSUME NEW p \in Producers PROVE Linked(p)'
  <2>1. p \in Threads
    BY TopicAssumption
  <2>2. CASE ClientOf[p] = c
    <3>1. calls'[p] = Idle /\ stage'[p] \notin {"registering", "encoded"}
      BY <1>1, <1>3, <2>1, <2>2
    <3> QED
      BY <3>1 DEF Linked
  <2>3. CASE ClientOf[p] # c
    BY <1>1, <1>2, <1>3, <2>1, <2>3, LinkedStays
  <2> QED
    BY <2>2, <2>3
<1> QED
  BY <1>1, <1>2, <1>4, TopicStays DEF TInv, ProducersHold

LEMMA ReaderHolds ==
    ASSUME TInv, BodyAs \/ BodyAsUnwrap \/ BodyAsDecode
    PROVE  TInv'
<1>1. RInv /\ DOMAIN calls = Threads /\ Reader \in Threads /\ Reader \notin Producers
      /\ Producers \subseteq Threads
  BY TopicAssumption DEF TInv, RInv, CallsHold
<1>2. UNCHANGED <<setup, stage, encoded, topic>>
  BY DEF BodyAs, BodyAsUnwrap, BodyAsDecode
<1>3. CASE UNCHANGED clientVars
  BY <1>1, <1>2, <1>3, RegistryIdle, OthersStep DEF clientVars
<1>4. CASE BodyAsUnwrap /\ HasSchemaID(Current)
  <2>1. GetSchemaByID(Reader, Current.id) /\ Current.id # NoHeader /\ Following \in DOMAIN topic
    BY <1>4 DEF BodyAsUnwrap, SchemaIDOf, HasSchemaID, Following, TInv, TopicHolds
  <2>2. PICK i \in Ids : i = Current.id
    BY <2>1, MessagesAre DEF Current, TInv, Payloads
  <2>3. GetSchemaByID(Reader, i)
    BY <2>1, <2>2
  <2>4. RInv' /\ Learns
    BY <1>1, <2>3, GetSchemaByIDHolds, Unlearnt DEF GetSchemaByID
  <2>5. \A p \in Producers : calls'[p] = calls[p]
    BY <1>1, <2>3 DEF GetSchemaByID
  <2> QED
    BY <1>2, <2>4, <2>5, OthersStep
<1>5. CASE BodyAsDecode
  <2>1. calls' = [calls EXCEPT ![Reader] = Idle] /\ UNCHANGED <<registryVars, cacheVars>>
    BY <1>5 DEF BodyAsDecode
  <2>2. RInv' /\ Learns
    BY <1>1, <2>1, EndsHolds, Unlearnt DEF Idle
  <2>3. \A p \in Producers : calls'[p] = calls[p]
    BY <1>1, <2>1
  <2> QED
    BY <1>2, <2>2, <2>3, OthersStep
<1> QED
  BY <1>3, <1>4, <1>5 DEF BodyAs, BodyAsUnwrap

LEMMA LookHolds ==
    ASSUME TInv, NEW t \in Lookers, Look(t)
    PROVE  TInv'
<1>1. RInv /\ DOMAIN calls = Threads /\ t \in Threads /\ t \notin Producers
      /\ Producers \subseteq Threads
  BY TopicAssumption DEF TInv, RInv, CallsHold
<1>2. PICK p \in Producers : GetLatestSchema(t, Plan(p).subject) \/ CheckCompatibility(t, Key(p))
  BY DEF Look
<1>3. PICK key \in Keys : key = Key(p)
  BY KeyIsKey DEF TInv
<1>4. PICK s \in Subjects : s = Plan(p).subject
  BY SetupsAssumption DEF TInv, Plan
<1>5. GetLatestSchema(t, s) \/ CheckCompatibility(t, key)
  BY <1>2, <1>3, <1>4
<1>6. RInv'
  BY <1>1, <1>5, OtherCallsHold
<1>7. Learns /\ \A q \in Producers : calls'[q] = calls[q]
  BY <1>1, <1>5, Unlearnt DEF GetLatestSchema, CheckCompatibility
<1> QED
  BY <1>6, <1>7, OthersStep DEF Look, topicVars

LEMMA WorksHolds ==
    ASSUME TInv, NEW t \in Threads, Works(t)
    PROVE  TInv'
<1>1. CallStep(t) /\ UNCHANGED topicVars /\ RInv /\ DOMAIN calls = Threads
      /\ Producers \subseteq Threads
  BY TopicAssumption DEF Works, TInv, RInv, CallsHold
<1>2. RInv' /\ Learns
  BY <1>1, CallStepHolds
<1>3. \A q \in Producers \ {t} : calls'[q] = calls[q]
  BY <1>1 DEF CallStep, Proceeds, Registers, Answered, Finds, Checks, RegisterAnswered,
              SchemaAnswered, TimesOut, Fails, Lost
<1>4. CASE t \notin Producers
  BY <1>1, <1>2, <1>3, <1>4, OthersStep DEF topicVars
<1>5. CASE t \in Producers
  <2>1. Linked(t) /\ DOMAIN stage = Producers /\ DOMAIN encoded = Producers
    BY <1>5 DEF TInv, ProducersHold
  <2>2. stage[t] = "registering"
    BY <1>1, <2>1 DEF Linked, Idle, CallStep, Proceeds, Registers, Finds, Checks,
          RegisterAnswered, SchemaAnswered, TimesOut, Fails, Lost
  <2>3. calls[t].op = "register" /\ encoded[t] \in Payloads
    BY <2>1, <2>2 DEF Linked
  <2>4. UNCHANGED <<stage, encoded, topic, setup>> /\ Key(t)' = Key(t)
    BY <1>1 DEF topicVars, Key, Plan
  <2>5. CASE Registers(t)
    <3>1. calls[t].at = "asking" /\ calls[t].key = Key(t)
      BY <2>1, <2>2, <2>5 DEF Linked, Registers
    <3>2. PICK i : calls'[t] = [op |-> calls[t].op, at |-> "answered", asked |-> calls[t], id |-> i]
      BY <1>1, <2>5 DEF Registers, Answered
    <3>3. /\ calls'[t].op = "register" /\ calls'[t].at = "answered"
          /\ calls'[t].asked.key = Key(t)
      BY <2>3, <3>1, <3>2
    <3>4. Linked(t)'
      BY <2>2, <2>3, <2>4, <3>3 DEF Linked
    <3> QED
      BY <1>2, <1>3, <1>5, <2>1, <2>4, <3>4, ProducerStep
  <2>6. CASE RegisterAnswered(t)
    <3>1. calls[t].at = "answered" /\ calls[t].asked.key = Key(t)
      BY <2>1, <2>2, <2>6 DEF Linked, RegisterAnswered
    <3>2. Stands(calls[t].id, Key(t))
      BY <1>1, <2>3, <3>1 DEF RInv, CallsHold, AnswerHolds
    <3>3. calls'[t] = [op |-> calls[t].op, at |-> "returned", result |-> calls[t].id]
      BY <1>1, <2>6 DEF RegisterAnswered, Return
    <3>4. UNCHANGED <<ids, versions>>
      BY <2>6 DEF RegisterAnswered, registryVars
    <3>5. Linked(t)'
      BY <2>2, <2>3, <2>4, <3>2, <3>3, <3>4 DEF Linked, Stands
    <3> QED
      BY <1>2, <1>3, <1>5, <2>1, <2>4, <3>5, ProducerStep
  <2>7. CASE TimesOut(t) \/ Fails(t) \/ Lost(t)
    <3>1. calls'[t].op = "register" /\ calls'[t].at \in {"failed", "lost"}
      BY <1>1, <2>3, <2>7 DEF TimesOut, Fails, Lost, Fail
    <3>2. Linked(t)'
      BY <2>2, <2>3, <2>4, <3>1 DEF Linked
    <3> QED
      BY <1>2, <1>3, <1>5, <2>1, <2>4, <3>2, ProducerStep
  <2> QED
    BY <1>1, <2>3, <2>5, <2>6, <2>7 DEF CallStep, Proceeds, Finds, Checks, SchemaAnswered
<1> QED
  BY <1>4, <1>5

LEMMA TopicStep == TInv /\ [Next]_vars => TInv'
<1> SUFFICES ASSUME TInv, [Next]_vars PROVE TInv'
  OBVIOUS
<1>1. CASE UNCHANGED vars
  BY <1>1, RegistryIdle, OthersStep DEF vars, clientVars, topicVars, TInv
<1>2. ASSUME NEW c \in Clients, ShutDown(c) PROVE TInv'
  BY <1>2, RegistryIdle, OthersStep DEF ShutDown, TInv
<1> QED
  BY <1>1, <1>2, EncodeHolds, PrependHolds, WriteHolds, RestartHolds, ReaderHolds, LookHolds,
     WorksHolds DEF Next

-----------------------------------------------------------------------------
\* The caches of the registry clients never disagree with the registry, whatever
\* is published, lost, refused or restarted.
THEOREM CachesAlwaysAgree == Spec => []CachesAgree
<1>1. TInv => CachesAgree
  BY HoldsAgrees DEF TInv
<1> QED
  BY <1>1, TopicInit, TopicStep, PTL DEF Spec

\* Every message with a header names the schema that its producer writes with.
THEOREM MessagesAlwaysNameTheirSchema == Spec => []MessagesNameTheirSchema
<1>1. TInv => MessagesNameTheirSchema
  BY DEF TInv, TopicHolds, Named, Stands, MessagesNameTheirSchema, HasSchemaID, SchemaIDOf, Key
<1> QED
  BY <1>1, TopicInit, TopicStep, PTL DEF Spec

-----------------------------------------------------------------------------
\* What the payload of producer p is: what its serializer made of its value, with
\* a header in front where the serializer registers a schema.
Body(p) == Serialize(Serializer(p), Plan(p).data)

Wraps(p) == Plan(p).registry /\ Plan(p).data.type # "bytes"

Written(payload, p) ==
    /\ Plan(p).data.type # "bytes" => Body(p) # Error
    /\ ~Wraps(p) => payload = Body(p)
    /\ Wraps(p)  => payload.id # NoHeader /\ payload = EncodeSchemaID(payload.id, Body(p))

\* What BodyAs may make of a payload.
Comes(payload) ==
    IF ~setup.registry THEN Deserialize(Deserializer, payload, setup.target)
    ELSE IF payload.id = NoHeader THEN {Error}
    ELSE Decodes(Inner, WithoutSchemaID(payload), setup.target)

-----------------------------------------------------------------------------
\* Whatever the bytes, what a deserializer makes of them has the type of the
\* target, unless it is an error or what nobody wrote; and of bytes that say, in
\* its own format, a value of that type it makes this value.
LEMMA ParsedGives ==
    ASSUME NEW format, NEW payload, NEW target, NEW outcome \in Parsed(format, payload, target)
    PROVE  /\ outcome \in {Error, Unwritten} \/ (outcome = payload.value /\ outcome.type = target)
           /\ payload.id = NoHeader /\ payload.format = format /\ payload.value.type = target
                  => outcome = payload.value
<1> DEFINE own == payload.id = NoHeader /\ payload.format = format
<1>1. CASE own /\ payload.value.type = target
  BY <1>1 DEF Parsed
<1>2. CASE ~(own /\ payload.value.type = target)
  <2>1. Parsed(format, payload, target) \subseteq {Error, Unwritten}
    BY <1>2 DEF Parsed
  <2> QED
    BY <1>2, <2>1
<1> QED
  BY <1>1, <1>2

LEMMA DecodesGives ==
    ASSUME NEW codec, NEW payload, NEW target, NEW outcome \in Decodes(codec, payload, target)
    PROVE  /\ \/ outcome \in {Error, Unwritten}
              \/ outcome.type = target /\ outcome \in {payload.value, String(payload), Bytes(payload)}
           /\ outcome = Unwritten => codec.format \notin {"string", "bytes"}
<1> DEFINE parsed == \E format : outcome \in Parsed(format, payload, target)
<1>1. parsed => outcome \in {Error, Unwritten} \/ (outcome = payload.value /\ outcome.type = target)
  BY ParsedGives
<1> HIDE DEF parsed
<1>2. Error # Unwritten /\ String(payload) # Unwritten /\ Bytes(payload) # Unwritten
  BY DEF Error, Unwritten, String, Bytes
<1>3. CASE codec.format \in {"json", "gob"}
  BY <1>1, <1>3 DEF Decodes, parsed
<1>4. CASE codec.format = "string"
  BY <1>2, <1>4 DEF Decodes, String, Bytes
<1>5. CASE codec.format = "bytes"
  BY <1>2, <1>5 DEF Decodes, Bytes
<1>6. CASE codec.format \in {"protobuf", "avro"}
  <2>1. parsed \/ outcome = Error
    BY <1>6 DEF Decodes, parsed
  <2> QED
    BY <1>1, <1>6, <2>1
<1>7. CASE codec.format \notin {"json", "gob", "string", "bytes", "protobuf", "avro"}
  BY <1>2, <1>7 DEF Decodes
<1> QED
  BY <1>3, <1>4, <1>5, <1>6, <1>7

\* What a serializer made of a value that it does not pass on as it is, the
\* deserializer of the same format makes that value again; and so it is with text.
LEMMA DecodesEncodes ==
    ASSUME NEW coder, NEW codec, NEW data, NEW target, Encodes(coder, data) # Error,
           coder.format = codec.format \/ (coder.format = "registry json" /\ codec.format = "json"),
           codec.format # "registry json", coder.func = codec.func, data.type = target,
           coder.format = "json" => data.type # "string",
           coder.format = "string" => data.type = "string" /\ data = String(data.is),
           NEW outcome \in Decodes(codec, Encodes(coder, data), target)
    PROVE  outcome = data
<1> DEFINE payload == Encodes(coder, data)
<1>1. ASSUME payload = Payload(codec.format, data),
             outcome \in Parsed(codec.format, payload, target)
      PROVE  outcome = data
  <2>1. LET says == Payload(codec.format, data)
        IN  says.id = NoHeader /\ says.format = codec.format /\ says.value = data
    BY DEF Payload
  <2>2. payload.id = NoHeader /\ payload.format = codec.format /\ payload.value = data
    BY <1>1, <2>1
  <2> HIDE DEF payload
  <2> QED
    BY <1>1, <2>2, ParsedGives
<1>2. CASE coder.format = "json" \/ coder.format = "registry json"
  BY <1>1, <1>2 DEF Encodes, Decodes
<1>3. CASE coder.format = "gob"
  BY <1>1, <1>3 DEF Encodes, Decodes
<1>4. CASE coder.format = "string"
  <2>1. payload = data.is
    BY <1>4 DEF Encodes
  <2>2. outcome = String(data.is)
    BY <1>4, <2>1 DEF Decodes
  <2> QED
    BY <1>4, <2>2
<1>5. CASE coder.format = "protobuf"
  BY <1>1, <1>5 DEF Encodes, Decodes
<1>6. CASE coder.format = "avro"
  BY <1>1, <1>6 DEF Encodes, Decodes
<1> QED
  BY <1>2, <1>3, <1>4, <1>5, <1>6 DEF Encodes

\* A payload says the value that it was made of, or what a text spells; in the
\* serializer's own format it says the value.
LEMMA EncodesGives ==
    ASSUME NEW coder, NEW data, Encodes(coder, data) # Error
    PROVE  /\ coder.format # "nil"
           /\ \/ data.type = "string" /\ coder.format \in {"json", "string"}
                 /\ Encodes(coder, data) = data.is
              \/ /\ Encodes(coder, data).value = data
                 /\ Encodes(coder, data).id = NoHeader
                 /\ Encodes(coder, data) = Payload(Encodes(coder, data).format, data)
                 /\ coder.format # "string" =>
                        Encodes(coder, data).format =
                            IF coder.format = "registry json" THEN "json" ELSE coder.format
BY DEF Encodes, Payload

LEMMA SerializedValue ==
    ASSUME setup \in Setups, NEW p \in Producers, Plan(p).data.type # "bytes" => Body(p) # Error
    PROVE  /\ Body(p).id = NoHeader
           /\ Body(p) = Payload(Body(p).format, Body(p).value)
           /\ Body(p).value \in {Plan(p).data, Spelled(Plan(p).data)}
<1> DEFINE data == Plan(p).data
<1>1. ASSUME data.type \in {"string", "bytes"}
      PROVE  /\ data.is = Payload(data.is.format, data.is.value) /\ data.is.id = NoHeader
             /\ Spelled(data) = data.is.value
  BY <1>1, SpellsPayload DEF Spelled
<1>2. CASE data.type = "bytes"
  <2>1. Body(p) = data.is
    BY <1>2 DEF Body, Serialize
  <2> QED
    BY <1>1, <1>2, <2>1
<1>3. CASE data.type # "bytes"
  <2>1. Body(p) = Encodes(Serializer(p), data) /\ Body(p) # Error
    BY <1>3 DEF Body, Serialize
  <2> HIDE DEF data
  <2>2. Encodes(Serializer(p), data) # Error
    BY <2>1
  <2>3. LET payload == Encodes(Serializer(p), data)
        IN  \/ data.type = "string" /\ payload = data.is
            \/ /\ payload.value = data /\ payload.id = NoHeader
               /\ payload = Payload(payload.format, data)
    BY <2>2, EncodesGives
  <2> QED
    BY <1>1, <2>1, <2>3 DEF data
<1> QED
  BY <1>2, <1>3

\* What comes out of a payload that a producer wrote, however the reader reads it.
LEMMA ComesAsWritten ==
    ASSUME setup \in Setups, NEW p \in Producers, NEW payload, Written(payload, p),
           NEW outcome \in Comes(payload)
    PROVE  AsWritten(p, payload, outcome)
<1> DEFINE data == Plan(p).data
           body == Body(p)
           codec == IF setup.registry THEN Inner
                    ELSE IF Deserializer = Nil THEN Codec("json", FALSE) ELSE Deserializer
<1>1. /\ body.id = NoHeader /\ body.value \in {data, Spelled(data)}
      /\ body = [id |-> NoHeader, format |-> body.format, value |-> body.value]
  BY SerializedValue DEF Written, Payload
<1>2. Deserializer.format # "registry json"
  BY SetupsAssumption DEF Deserializer, DefaultCodec, Nil, Codec
<1>3. Error # Unwritten
  BY DEF Error, Unwritten
<1>4. CASE setup.registry /\ payload.id = NoHeader
  <2>1. outcome = Error /\ ~Wraps(p)
    BY <1>4 DEF Comes, Written
  <2>2. ~(Agree(p) /\ Restored(p) /\ data.type = setup.target)
    <3>1. Agree(p) => data.type = "bytes"
      BY <1>4, <2>1 DEF Wraps, Agree
    <3>2. data.type = "bytes" => ~Restored(p)
      BY DEF Restored, AsItIs
    <3> QED
      BY <3>1, <3>2
  <2> QED
    BY <1>3, <2>1, <2>2 DEF AsWritten
<1>5. CASE ~(setup.registry /\ payload.id = NoHeader)
  <2> DEFINE bare == IF setup.registry THEN WithoutSchemaID(payload) ELSE payload
  <2>1. outcome \in Decodes(codec, bare, setup.target)
    BY <1>5 DEF Comes, Deserialize
  <2>2. bare.value \in {data, Spelled(data)}
    BY <1>1 DEF Written, EncodeSchemaID, WithoutSchemaID
  <2>3. Agree(p) /\ Serializer(p).format # "nil" => codec = Deserializer
    <3>1. Nil.format = "nil"
      BY DEF Nil, Codec
    <3> QED
      BY <3>1 DEF Agree, Inner
  <2>4. ASSUME Agree(p), data.type # "bytes"
        PROVE  /\ bare = Encodes(Serializer(p), data) /\ bare # Error
               /\ codec = Deserializer
    <3>1. bare = body
      BY <1>1, <2>4 DEF Agree, Written, Wraps, EncodeSchemaID, WithoutSchemaID
    <3>2. body = Encodes(Serializer(p), data) /\ body # Error
      BY <2>4 DEF Body, Serialize, Written
    <3>3. Serializer(p).format # "nil"
      <4> HIDE DEF data, body, bare
      <4>1. Encodes(Serializer(p), data) # Error
        BY <3>2
      <4> QED
        BY <4>1, EncodesGives
    <3> QED
      BY <2>3, <2>4, <3>1, <3>2, <3>3
  <2>5. data.type # "unwritten"
    BY SetupsAssumption DEF Plan
  <2>6. ASSUME data.type = "string" PROVE data = String(data.is)
    BY <2>6, SpellsPayload DEF String
  <2> HIDE DEF data, body, codec, bare
  <2>7. ASSUME Agree(p), data.type # "bytes", data.type = setup.target,
               Serializer(p).format = "json" => data.type # "string",
               Serializer(p).format = "string" => data.type = "string"
        PROVE  outcome = data
    <3>1. outcome \in Decodes(codec, Encodes(Serializer(p), data), setup.target)
      BY <2>1, <2>4, <2>7
    <3>2. /\ Encodes(Serializer(p), data) # Error
          /\ Serializer(p).func = codec.func /\ codec.format # "registry json"
          /\ \/ Serializer(p).format = codec.format
             \/ Serializer(p).format = "registry json" /\ codec.format = "json"
      BY <1>2, <2>4, <2>7 DEF Agree
    <3> QED
      BY <2>6, <2>7, <3>1, <3>2, DecodesEncodes
  <2>8. ASSUME Agree(p), Restored(p), data.type = setup.target PROVE outcome = data
    BY <2>7, <2>8 DEF Restored, AsItIs, data
  <2>9. ASSUME Agree(p), ~AsItIs(p), data.type = setup.target PROVE outcome # Unwritten
    <3>1. data.type # "bytes" /\ (Serializer(p).format \in {"json", "string"} => data.type # "string")
      BY <2>9 DEF AsItIs, data
    <3>2. CASE Serializer(p).format = "string"
      <4>1. codec.format = "string"
        BY <2>4, <2>9, <3>1, <3>2 DEF Agree
      <4> QED
        BY <2>1, <4>1, DecodesGives
    <3>3. CASE Serializer(p).format # "string"
      <4>1. outcome = data
        BY <2>7, <2>9, <3>1, <3>3
      <4>2. Unwritten.type = "unwritten"
        BY DEF Unwritten
      <4> QED
        BY <2>5, <4>1, <4>2
    <3> QED
      BY <3>2, <3>3
  <2>10. \/ outcome \in {Error, Unwritten}
         \/ /\ outcome.type = setup.target
            /\ outcome \in {data, Spelled(data), String(bare), Bytes(bare)}
    BY <2>1, <2>2, DecodesGives
  <2>11. bare \in {payload, WithoutSchemaID(payload)}
    BY DEF bare
  <2> QED
    BY <2>8, <2>9, <2>10, <2>11 DEF AsWritten, data
<1> QED
  BY <1>4, <1>5

-----------------------------------------------------------------------------
\* From the serializer to the topic a payload stays what its producer wrote.
Sent ==
    /\ \A p \in Producers :
        /\ stage[p] = "registering" => Wraps(p) /\ encoded[p] = Body(p) /\ Body(p) # Error
        /\ stage[p] = "encoded" => Written(encoded[p], p)
    /\ \A n \in DOMAIN topic : Written(topic[n].payload, topic[n].from)

Outcomes ==
    {Error, Unwritten} \cup UNION {{b.value, String(b), Bytes(b)} : b \in Payloads}

\* What was read came of the messages in their order, and while the reader asks
\* for a schema there is a message to be read that names one.
Got ==
    /\ read \in Seq(Outcomes) /\ Len(read) <= Len(topic)
    /\ \A n \in DOMAIN read : read[n] \in Comes(topic[n].payload)
    /\ calls[Reader] # Idle =>
          /\ setup.registry /\ Len(read) < Len(topic)
          /\ topic[Len(read) + 1].payload.id # NoHeader

WInv == TInv /\ Sent /\ Got

LEMMA WrittenStays ==
    ASSUME setup' = setup, NEW p, NEW payload, Written(payload, p)
    PROVE  Written(payload, p)'
BY DEF Written, Wraps, Body, Plan, Serializer

LEMMA ComesStays ==
    ASSUME setup' = setup, NEW payload, NEW outcome \in Comes(payload)
    PROVE  outcome \in Comes(payload)'
BY DEF Comes, Inner, Deserializer

\* What is read can be read: it is one of the outcomes.
LEMMA ComesIn ==
    ASSUME NEW payload \in Payloads, NEW outcome \in Comes(payload)
    PROVE  outcome \in Outcomes
<1>1. \A b \in Payloads : {b.value, String(b), Bytes(b)} \subseteq Outcomes
  BY DEF Outcomes
<1>2. Error \in Outcomes /\ Unwritten \in Outcomes
  BY DEF Outcomes
<1>3. CASE ~setup.registry
  <2>1. PICK codec : outcome \in Decodes(codec, payload, setup.target)
    BY <1>3 DEF Comes, Deserialize
  <2> QED
    BY <1>1, <1>2, <2>1, DecodesGives
<1>4. CASE setup.registry /\ payload.id = NoHeader
  BY <1>2, <1>4 DEF Comes
<1>5. CASE setup.registry /\ payload.id # NoHeader
  <2>1. outcome \in Decodes(Inner, WithoutSchemaID(payload), setup.target)
    BY <1>5 DEF Comes
  <2>2. WithoutSchemaID(payload) \in Payloads
    BY DEF WithoutSchemaID, Payloads
  <2> QED
    BY <1>1, <1>2, <2>1, <2>2, DecodesGives
<1> QED
  BY <1>3, <1>4, <1>5

\* The topic grows by a message, or does not.
Grows == topic' = topic \/ \E p \in Producers : stage[p] = "encoded" /\ topic' = Append(topic, MessageOf(p))

LEMMA GrowsBy ==
    ASSUME TInv, Grows
    PROVE  /\ Len(topic) <= Len(topic') /\ Len(topic) \in Nat /\ Len(topic') \in Nat
           /\ DOMAIN topic = 1 .. Len(topic) /\ DOMAIN topic' = 1 .. Len(topic')
           /\ \A n \in DOMAIN topic : topic'[n] = topic[n]
           /\ \A n \in DOMAIN topic' \ DOMAIN topic :
                 \E p \in Producers : stage[p] = "encoded" /\ topic'[n] = MessageOf(p)
<1> DEFINE Messages == [from : Producers, payload : Payloads]
<1>1. topic \in Seq(Messages)
  BY DEF TInv, TopicHolds
<1>2. CASE topic' = topic
  BY <1>1, <1>2
<1>3. ASSUME NEW p \in Producers, stage[p] = "encoded", topic' = Append(topic, MessageOf(p))
      PROVE  /\ Len(topic) <= Len(topic') /\ Len(topic) \in Nat /\ Len(topic') \in Nat
             /\ DOMAIN topic = 1 .. Len(topic) /\ DOMAIN topic' = 1 .. Len(topic')
             /\ \A n \in DOMAIN topic : topic'[n] = topic[n]
             /\ \A n \in DOMAIN topic' \ DOMAIN topic :
                   \E q \in Producers : stage[q] = "encoded" /\ topic'[n] = MessageOf(q)
  <2>1. MessageOf(p) \in Messages
    BY <1>3 DEF TInv, ProducersHold, Linked, Named, MessageOf
  <2> DEFINE m == MessageOf(p)
  <2> HIDE DEF Messages, m
  <2>2. /\ Len(topic) \in Nat /\ Len(topic') = Len(topic) + 1
        /\ DOMAIN topic = 1 .. Len(topic) /\ DOMAIN topic' = 1 .. Len(topic')
        /\ \A n \in DOMAIN topic : topic'[n] = topic[n]
        /\ topic'[Len(topic) + 1] = m
    <3>1. topic' = Append(topic, m) /\ m \in Messages
      BY <1>3, <2>1 DEF m
    <3> QED
      BY <1>1, <3>1
  <2> QED
    BY <1>3, <2>2 DEF m
<1> QED
  BY <1>2, <1>3 DEF Grows

LEMMA TopicSent ==
    ASSUME TInv, Sent, setup' = setup, Grows
    PROVE  \A n \in DOMAIN topic' : Written(topic[n].payload, topic[n].from)'
<1> TAKE n \in DOMAIN topic'
<1>1. PICK p, payload : p = topic'[n].from /\ payload = topic'[n].payload
  OBVIOUS
<1>2. Written(payload, p)
  <2>1. CASE n \in DOMAIN topic
    BY <1>1, <2>1, GrowsBy DEF Sent
  <2>2. CASE n \notin DOMAIN topic
    <3>1. PICK q \in Producers : stage[q] = "encoded" /\ topic'[n] = MessageOf(q)
      BY <2>2, GrowsBy
    <3> QED
      BY <1>1, <3>1 DEF Sent, MessageOf
  <2> QED
    BY <2>1, <2>2
<1>3. Written(payload, p)'
  BY <1>2, WrittenStays
<1> QED
  BY <1>1, <1>3 DEF Written, Wraps, Body, Plan, Serializer

\* Steps in which a producer's payload stays as it was, or is of no account.
LEMMA SentStays ==
    ASSUME TInv, Sent, setup' = setup, Grows,
           \A p \in Producers : stage'[p] \in {"registering", "encoded"} =>
                                    stage'[p] = stage[p] /\ encoded'[p] = encoded[p]
    PROVE  Sent'
<1>1. ASSUME NEW p \in Producers, stage'[p] = "registering"
      PROVE  Wraps(p)' /\ encoded'[p] = Body(p)' /\ Body(p)' # Error
  BY <1>1 DEF Sent, Wraps, Body, Plan, Serializer
<1>2. ASSUME NEW p \in Producers, stage'[p] = "encoded"
      PROVE  Written(encoded[p], p)'
  BY <1>2 DEF Sent, Written, Wraps, Body, Plan, Serializer
<1> QED
  BY <1>1, <1>2, TopicSent DEF Sent

\* Steps in which nothing is read and the reader does not begin to ask.
LEMMA GotStays ==
    ASSUME TInv, Got, setup' = setup, Grows, read' = read,
           calls'[Reader] # Idle => calls[Reader] # Idle
    PROVE  Got'
<1>1. /\ Len(topic) <= Len(topic') /\ Len(topic) \in Nat /\ Len(topic') \in Nat
      /\ DOMAIN topic = 1 .. Len(topic)
      /\ \A n \in DOMAIN topic : topic'[n] = topic[n]
  BY GrowsBy
<1>2. Len(read) \in Nat /\ DOMAIN read = 1 .. Len(read)
  BY DEF Got
<1>3. ASSUME NEW n \in DOMAIN read PROVE read[n] \in Comes(topic[n].payload)'
  <2>1. PICK payload, outcome : payload = topic[n].payload /\ outcome = read[n]
    OBVIOUS
  <2>2. n \in DOMAIN topic /\ outcome \in Comes(payload)
    BY <1>1, <1>2, <2>1 DEF Got
  <2>3. outcome \in Comes(payload)'
    BY <2>2, ComesStays
  <2>4. topic'[n].payload = payload
    BY <1>1, <2>1, <2>2
  <2> QED
    BY <2>1, <2>3, <2>4 DEF Comes, Inner, Deserializer
<1>4. Len(read) <= Len(topic)
  BY DEF Got
<1>5. ASSUME calls'[Reader] # Idle
      PROVE  /\ setup.registry /\ Len(read) < Len(topic')
             /\ topic'[Len(read) + 1].payload.id # NoHeader
  <2>1. /\ setup.registry /\ Len(read) < Len(topic)
        /\ topic[Len(read) + 1].payload.id # NoHeader
    BY <1>5 DEF Got
  <2>2. Len(read) + 1 \in DOMAIN topic
    BY <1>1, <1>2, <2>1
  <2> QED
    BY <1>1, <1>2, <2>1, <2>2
<1>6. Len(read) <= Len(topic')
  BY <1>1, <1>2, <1>4
<1> QED
  BY <1>3, <1>5, <1>6 DEF Got

\* The next message is read.
LEMMA GotOne ==
    ASSUME TInv, Got, setup' = setup, topic' = topic, calls'[Reader] = Idle,
           Len(read) < Len(topic),
           NEW outcome \in Comes(topic[Len(read) + 1].payload), read' = Append(read, outcome)
    PROVE  Got'
<1>1. DOMAIN topic = 1 .. Len(topic) /\ Len(topic) \in Nat
  BY GrowsBy DEF Grows
<1>2. Len(read) \in Nat /\ DOMAIN read = 1 .. Len(read) /\ read \in Seq(Outcomes)
  BY DEF Got
<1>3. outcome \in Outcomes
  <2>1. Len(read) + 1 \in DOMAIN topic
    BY <1>1, <1>2
  <2>2. topic[Len(read) + 1].payload \in Payloads
    BY <2>1, MessagesAre DEF TInv
  <2> QED
    BY <2>2, ComesIn
<1>4. /\ read' \in Seq(Outcomes) /\ Len(read') = Len(read) + 1
      /\ DOMAIN read' = 1 .. Len(read) + 1
      /\ \A n \in DOMAIN read : read'[n] = read[n]
      /\ read'[Len(read) + 1] = outcome
  BY <1>2, <1>3
<1>5. ASSUME NEW n \in DOMAIN read' PROVE read'[n] \in Comes(topic[n].payload)'
  <2>1. PICK payload, made : payload = topic[n].payload /\ made = read'[n]
    OBVIOUS
  <2>2. made \in Comes(payload)
    <3>1. CASE n \in DOMAIN read
      BY <1>4, <2>1, <3>1 DEF Got
    <3>2. CASE n \notin DOMAIN read
      <4>1. n = Len(read) + 1
        BY <1>2, <1>4, <3>2
      <4> QED
        BY <1>4, <2>1, <4>1
    <3> QED
      BY <3>1, <3>2
  <2>3. made \in Comes(payload)'
    BY <2>2, ComesStays
  <2> QED
    BY <2>1, <2>3 DEF Comes, Inner, Deserializer
<1>6. Len(read') <= Len(topic')
  BY <1>1, <1>2, <1>4
<1> QED
  BY <1>4, <1>5, <1>6 DEF Got

-----------------------------------------------------------------------------
LEMMA EncodeSends ==
    ASSUME WInv, NEW p \in Producers, Encode(p)
    PROVE  Sent' /\ Got'
<1>1. /\ stage[p] = "new" /\ UNCHANGED <<setup, topic, read>>
      /\ encoded' = [encoded EXCEPT ![p] = Body(p)]
      /\ DOMAIN stage = Producers /\ DOMAIN encoded = Producers
  BY DEF Encode, Body, WInv, TInv, ProducersHold
<1>2. Reader # p /\ Reader \in Threads /\ p \in Threads /\ DOMAIN calls = Threads
  BY TopicAssumption DEF WInv, TInv, RInv, CallsHold
<1>3. PICK to \in {"encoded", "refused", "registering"} :
          /\ stage' = [stage EXCEPT ![p] = to]
          /\ to = "encoded" => Plan(p).data.type = "bytes" \/ (~Plan(p).registry /\ Body(p) # Error)
          /\ to = "registering" => Plan(p).data.type # "bytes" /\ Plan(p).registry /\ Body(p) # Error
  BY DEF Encode, Goes, Body
<1>4. calls'[Reader] = calls[Reader]
  BY <1>2 DEF Encode, clientVars, RegisterSchema
<1>5. Got'
  BY <1>1, <1>4, GotStays DEF WInv, Grows
<1>6. encoded'[p] = Body(p) /\ stage'[p] = to
  BY <1>1, <1>3
<1>7. Sent'
  <2>1. ASSUME NEW q \in Producers, stage'[q] = "registering"
        PROVE  Wraps(q) /\ encoded'[q] = Body(q) /\ Body(q) # Error
    <3>1. CASE q = p
      BY <1>3, <1>6, <2>1, <3>1 DEF Wraps
    <3>2. CASE q # p
      BY <1>1, <1>3, <2>1, <3>2 DEF WInv, Sent
    <3> QED
      BY <3>1, <3>2
  <2>2. ASSUME NEW q \in Producers, stage'[q] = "encoded"
        PROVE  Written(encoded'[q], q)
    <3>1. CASE q = p
      BY <1>3, <1>6, <2>2, <3>1 DEF Written, Wraps
    <3>2. CASE q # p
      BY <1>1, <1>3, <2>2, <3>2 DEF WInv, Sent
    <3> QED
      BY <3>1, <3>2
  <2>3. \A n \in DOMAIN topic' : Written(topic[n].payload, topic[n].from)'
    BY <1>1, TopicSent DEF WInv, Grows
  <2> QED
    BY <1>1, <2>1, <2>2, <2>3 DEF Sent, Written, Wraps, Body, Plan, Serializer
<1> QED
  BY <1>5, <1>7

LEMMA PrependSends ==
    ASSUME WInv, NEW p \in Producers, Prepend(p)
    PROVE  Sent' /\ Got'
<1>1. /\ stage[p] = "registering" /\ UNCHANGED <<setup, topic, read>>
      /\ calls' = [calls EXCEPT ![p] = Idle]
      /\ DOMAIN stage = Producers /\ DOMAIN encoded = Producers
  BY DEF Prepend, WInv, TInv, ProducersHold
<1>2. Reader # p /\ Reader \in Threads /\ p \in Threads /\ DOMAIN calls = Threads
  BY TopicAssumption DEF WInv, TInv, RInv, CallsHold
<1>3. Got'
  BY <1>1, <1>2, GotStays DEF WInv, Grows
<1>4. CASE Failed(p)
  <2>1. stage' = [stage EXCEPT ![p] = "new"] /\ encoded' = encoded
    BY <1>4 DEF Prepend, Goes
  <2> QED
    BY <1>1, <1>3, <2>1, SentStays DEF WInv, Grows
<1>5. CASE ~Failed(p)
  <2>1. /\ stage' = [stage EXCEPT ![p] = "encoded"] /\ Returned(p)
        /\ encoded' = [encoded EXCEPT ![p] = EncodeSchemaID(calls[p].result, @)]
    BY <1>5 DEF Prepend, Goes, Result
  <2>2. calls[p].result \in Ids
    BY <1>1, <2>1 DEF WInv, TInv, ProducersHold, Linked, Returned, Stands
  <2>3. Wraps(p) /\ encoded[p] = Body(p) /\ Body(p) # Error
    BY <1>1 DEF WInv, Sent
  <2>4. encoded'[p] = EncodeSchemaID(calls[p].result, Body(p))
    BY <1>1, <2>1, <2>3
  <2>5. Written(encoded'[p], p)
    <3>1. Body(p).id = NoHeader /\ Body(p) = Payload(Body(p).format, Body(p).value)
      BY <2>3, SerializedValue DEF WInv, TInv
    <3>2. encoded'[p].id = calls[p].result
      BY <2>4, <3>1 DEF EncodeSchemaID, Payload
    <3>3. calls[p].result # NoHeader
      BY <2>2, RegistryAssumption DEF Ids, NoHeader
    <3> QED
      BY <2>3, <2>4, <3>2, <3>3 DEF Written
  <2>6. ASSUME NEW q \in Producers, stage'[q] = "registering"
        PROVE  Wraps(q) /\ encoded'[q] = Body(q) /\ Body(q) # Error
    BY <1>1, <2>1, <2>6 DEF WInv, Sent
  <2>7. ASSUME NEW q \in Producers, stage'[q] = "encoded"
        PROVE  Written(encoded'[q], q)
    <3>1. CASE q = p
      BY <2>5, <3>1
    <3>2. CASE q # p
      BY <1>1, <2>1, <2>7, <3>2 DEF WInv, Sent
    <3> QED
      BY <3>1, <3>2
  <2>8. \A n \in DOMAIN topic' : Written(topic[n].payload, topic[n].from)'
    BY <1>1, TopicSent DEF WInv, Grows
  <2>9. Sent'
    <3>1. setup' = setup
      BY <1>1
    <3>2. \A q \in Producers : stage'[q] = "registering" =>
              Wraps(q)' /\ encoded'[q] = Body(q)' /\ Body(q)' # Error
      BY <2>6, <3>1 DEF Wraps, Body, Plan, Serializer
    <3>3. \A q \in Producers : stage'[q] = "encoded" => Written(encoded[q], q)'
      BY <2>7, <3>1 DEF Written, Wraps, Body, Plan, Serializer
    <3> QED
      BY <2>8, <3>2, <3>3 DEF Sent
  <2> QED
    BY <1>3, <2>9
<1> QED
  BY <1>4, <1>5

\* The steps of a producer that end an attempt.
LEMMA WriteSends ==
    ASSUME WInv, NEW p \in Producers, Cannot(p) \/ Write(p) \/ WriteFails(p)
    PROVE  Sent' /\ Got'
<1>1. /\ UNCHANGED <<calls, setup, encoded, read>> /\ DOMAIN stage = Producers
      /\ topic' = topic \/ (stage[p] = "encoded" /\ topic' = Append(topic, MessageOf(p)))
      /\ \E to \in {"refused", "published", "new"} : stage' = [stage EXCEPT ![p] = to]
  BY DEF Cannot, Write, WriteFails, Goes, clientVars, WInv, TInv, ProducersHold
<1>2. Grows
  BY <1>1 DEF Grows
<1> QED
  BY <1>1, <1>2, SentStays, GotStays DEF WInv

LEMMA ReaderSends ==
    ASSUME WInv, BodyAs \/ BodyAsUnwrap \/ BodyAsDecode
    PROVE  Sent' /\ Got'
<1>1. UNCHANGED <<setup, stage, encoded, topic>> /\ Grows
  BY DEF BodyAs, BodyAsUnwrap, BodyAsDecode, Grows
<1>2. Sent'
  BY <1>1, SentStays DEF WInv
<1>3. Reader \in Threads /\ DOMAIN calls = Threads
  BY TopicAssumption DEF WInv, TInv, RInv, CallsHold
<1>4. Len(read) \in Nat /\ Len(topic) \in Nat
  BY <1>1, GrowsBy DEF WInv, Got
<1>5. CASE BodyAs
  <2>1. PICK outcome \in Deserialize(Deserializer, Current, setup.target) : read' = Append(read, outcome)
    BY <1>5 DEF BodyAs, Reads
  <2>2. ~setup.registry /\ Len(read) < Len(topic) /\ calls' = calls
    BY <1>4, <1>5 DEF BodyAs, Following, clientVars
  <2>3. outcome \in Comes(topic[Len(read) + 1].payload)
    BY <2>1, <2>2 DEF Comes, Current, Following
  <2>4. calls'[Reader] = Idle
    BY <2>2 DEF WInv, Got
  <2> QED
    BY <1>1, <1>2, <2>1, <2>2, <2>3, <2>4, GotOne DEF WInv
<1>6. CASE BodyAsUnwrap
  <2>1. setup.registry /\ Len(read) < Len(topic) /\ calls[Reader] = Idle
    BY <1>4, <1>6 DEF BodyAsUnwrap, Following
  <2>2. CASE HasSchemaID(Current)
    <3>1. read' = read /\ topic[Len(read) + 1].payload.id # NoHeader
      BY <1>6, <2>2 DEF BodyAsUnwrap, HasSchemaID, Current, Following
    <3> QED
      BY <1>1, <1>2, <2>1, <3>1 DEF WInv, Got, Comes, Inner, Deserializer
  <2>3. CASE ~HasSchemaID(Current)
    <3>1. read' = Append(read, Error) /\ calls' = calls
      BY <1>6, <2>3 DEF BodyAsUnwrap, Reads, clientVars
    <3>2. Error \in Comes(topic[Len(read) + 1].payload)
      BY <2>1, <2>3 DEF Comes, HasSchemaID, Current, Following
    <3> QED
      BY <1>1, <1>2, <2>1, <3>1, <3>2, GotOne DEF WInv
  <2> QED
    BY <2>2, <2>3
<1>7. CASE BodyAsDecode
  <2>1. calls' = [calls EXCEPT ![Reader] = Idle] /\ calls[Reader] # Idle
    BY <1>7 DEF BodyAsDecode, Returned, Failed, Idle
  <2>2. calls'[Reader] = Idle
    BY <1>3, <2>1
  <2>3. /\ setup.registry /\ Len(read) < Len(topic)
        /\ topic[Len(read) + 1].payload.id # NoHeader
    BY <2>1 DEF WInv, Got
  <2>4. CASE read' = read
    BY <1>1, <1>2, <2>2, <2>4, GotStays DEF WInv
  <2>5. CASE read' # read
    <3>1. PICK outcome \in Decodes(Inner, WithoutSchemaID(Current), setup.target) :
              read' = Append(read, outcome)
      BY <1>7, <2>5 DEF BodyAsDecode, Reads
    <3>2. outcome \in Comes(topic[Len(read) + 1].payload)
      BY <2>3, <3>1 DEF Comes, Current, Following
    <3> QED
      BY <1>1, <1>2, <2>2, <2>3, <3>1, <3>2, GotOne DEF WInv
  <2> QED
    BY <2>4, <2>5
<1> QED
  BY <1>5, <1>6, <1>7

LEMMA OthersSend ==
    ASSUME WInv,
           \/ UNCHANGED vars
           \/ \E c \in Clients : ShutDown(c) \/ Restart(c)
           \/ \E t \in Lookers : Look(t)
           \/ \E t \in Threads : Works(t)
    PROVE  Sent' /\ Got'
<1>1. UNCHANGED <<setup, encoded, topic, read>> /\ Grows
  BY DEF vars, topicVars, ShutDown, Restart, Look, Works, Grows
<1>2. Reader \in Threads /\ DOMAIN calls = Threads /\ Reader \notin Lookers
  BY TopicAssumption DEF WInv, TInv, RInv, CallsHold
<1>3. \A p \in Producers : stage'[p] \in {"registering", "encoded"} => stage'[p] = stage[p]
  BY DEF vars, topicVars, ShutDown, Restart, Look, Works
<1>4. calls'[Reader] # Idle => calls[Reader] # Idle
  <2>1. CASE UNCHANGED calls
    BY <2>1
  <2>2. ASSUME NEW c \in Clients, Restart(c)
        PROVE  calls'[Reader] # Idle => calls[Reader] # Idle
    BY <1>2, <2>2 DEF Restart, Forgets
  <2>3. ASSUME NEW t \in Lookers, Look(t)
        PROVE  calls'[Reader] = calls[Reader]
    BY <1>2, <2>3 DEF Look, GetLatestSchema, CheckCompatibility
  <2>4. ASSUME NEW t \in Threads, CallStep(t)
        PROVE  calls'[Reader] # Idle => calls[Reader] # Idle
    <3>1. CASE t = Reader
      BY <2>4, <3>1 DEF CallStep, Proceeds, Registers, Finds, Checks, RegisterAnswered,
            SchemaAnswered, TimesOut, Fails, Lost, Idle
    <3>2. CASE t # Reader
      BY <1>2, <2>4, <3>2 DEF CallStep, Proceeds, Registers, Answered, Finds, Checks,
            RegisterAnswered, SchemaAnswered, TimesOut, Fails, Lost
    <3> QED
      BY <3>1, <3>2
  <2> QED
    BY <2>1, <2>2, <2>3, <2>4 DEF vars, clientVars, ShutDown, Works
<1> QED
  BY <1>1, <1>3, <1>4, SentStays, GotStays DEF WInv

LEMMA WInit == Init => WInv
<1> SUFFICES ASSUME Init PROVE WInv
  OBVIOUS
<1>1. TInv /\ Reader \in Threads
  BY TopicInit, TopicAssumption
<1>2. Sent
  BY DEF Init, Sent
<1>3. Got
  BY <1>1 DEF Init, RegistryInit, Got
<1> QED
  BY <1>1, <1>2, <1>3 DEF WInv

LEMMA WStep == WInv /\ [Next]_vars => WInv'
<1> SUFFICES ASSUME WInv, [Next]_vars PROVE WInv'
  OBVIOUS
<1>1. TInv'
  BY TopicStep DEF WInv
<1>2. Sent' /\ Got'
  BY EncodeSends, PrependSends, WriteSends, ReaderSends, OthersSend DEF Next
<1> QED
  BY <1>1, <1>2 DEF WInv

\* Where reader and producer agree on format, registry and type, what is read is
\* the very value that was written; elsewhere it is an error, what the bytes or
\* the text spell, or a value that nobody wrote, and this last only where formats
\* or types differ or text or bytes were published as they are. So it is whatever
\* was lost or repeated and however reader and producers are set up.
THEOREM AlwaysReadAsWritten == Spec => []ReadAsWritten
<1>1. WInv => ReadAsWritten
  <2> SUFFICES ASSUME WInv, NEW n \in DOMAIN read
               PROVE  AsWritten(topic[n].from, topic[n].payload, read[n])
    BY DEF ReadAsWritten
  <2>1. n \in DOMAIN topic
    <3>1. Len(topic) \in Nat /\ DOMAIN topic = 1 .. Len(topic)
      <4>1. topic \in Seq([from : Producers, payload : Payloads])
        BY DEF WInv, TInv, TopicHolds
      <4> QED
        BY <4>1
    <3> QED
      BY <3>1 DEF WInv, Got
  <2>2. topic[n].from \in Producers
    BY <2>1, MessagesAre DEF WInv, TInv
  <2> QED
    BY <2>1, <2>2, ComesAsWritten DEF WInv, TInv, Sent, Got
<1> QED
  BY <1>1, WInit, WStep, PTL DEF Spec
=============================================================================
