----------------------------- MODULE TypedTopic -----------------------------
(***************************************************************************)
(* A topic of typed messages: goroutines publish values through the        *)
(* serializer of their Kafka client, a reader makes values of them again   *)
(* through its deserializer, and both ask a schema registry where their    *)
(* (de)serializers do.  Callers retry what failed.                         *)
(***************************************************************************)
EXTENDS SchemaRegistry, Serializers, Sequences

CONSTANTS
    Producers,      \* goroutines that publish one value each
    Reader,         \* the goroutine that reads the topic
    Lookers,        \* goroutines that ask for the latest schema, or compare theirs
    Setups          \* what is published and how, and how it is read

ASSUME TopicAssumption ==
    /\ Producers \cup Lookers \cup {Reader} \subseteq Threads
    /\ Reader \notin Producers \cup Lookers /\ Producers \cap Lookers = {}

\* Producers write Go values under subjects and with schemas that there are, and
\* bytes and text of theirs do not begin with a header of the registry.
\* The registry's JSON reads as any other does.
ASSUME SetupsAssumption ==
    \A s \in Setups :
        /\ s.codec.format # "registry json"
        /\ \A p \in Producers :
            LET plan == s.publish[p]
            IN  /\ plan.subject \in Subjects /\ plan.type \in Types /\ plan.schema \in Schemas
                /\ plan.data.type \in {"string", "struct", "other", "message", "bytes"}
                /\ plan.data.type \in {"string", "bytes"} =>
                       plan.data = [type |-> plan.data.type,
                                    is   |-> Payload(plan.data.is.format, plan.data.is.value)]

VARIABLES
    setup,          \* one of Setups
    stage,          \* how far each producer is with its value
    encoded,        \* the payload it publishes
    writer,         \* producer processes whose writer is open
    topic,          \* messages, with the producer they are from
    read            \* what BodyAs returned for each message

topicVars == <<setup, stage, encoded, writer, topic, read>>
vars      == <<clientVars, topicVars>>

Plan(p)  == setup.publish[p]
Key(p)   == [subject |-> Plan(p).subject, type |-> Plan(p).type, schema |-> Plan(p).schema]

\* A mistake: acknowledgements as they are configured.
AcksAsConfigured(p) == Plan(p).acks

\* A zero in the configuration asks for the default: acknowledgements of all.
Acks(p) == IF Plan(p).acks = 0 THEN -1 ELSE Plan(p).acks

\* Without a serializer of its own a client gets that of its data type.
Serializer(p) == IF Plan(p).codec # Nil \/ Plan(p).registry THEN Plan(p).codec
                                        ELSE DefaultCodec(Plan(p).dataType)
Deserializer  == IF setup.codec # Nil \/ setup.registry THEN setup.codec
                                        ELSE DefaultCodec(setup.dataType)

\* Behind the registry, bytes are handed on if there is nothing to decode them with.
Inner == IF Deserializer = Nil THEN Codec("bytes", FALSE) ELSE Deserializer

Init ==
    /\ RegistryInit
    /\ setup \in Setups
    /\ stage = [p \in Producers |-> "new"]
    /\ encoded = [p \in Producers |-> Error]
    /\ writer = Clients
    /\ topic = << >>
    /\ read = << >>

-----------------------------------------------------------------------------
Goes(p, where) == stage' = [stage EXCEPT ![p] = where]

\* Publish on a client that was shut down, or with a context that is done.
Cannot(p) ==
    /\ stage[p] = "new"
    /\ ClientOf[p] \notin writer
    /\ Goes(p, "refused")
    /\ UNCHANGED <<clientVars, setup, encoded, writer, topic, read>>

\* Bytes are published as they are, whatever the serializer; a value that the
\* serializer cannot encode is not published.
Encode(p) ==
    LET payload == Serialize(Serializer(p), Plan(p).data)
        bytes   == Plan(p).data.type = "bytes"
    IN  /\ stage[p] = "new" /\ ClientOf[p] \in writer
        /\ encoded' = [encoded EXCEPT ![p] = payload]
        /\ \/ /\ bytes \/ (~Plan(p).registry /\ payload # Error)
              /\ Goes(p, "encoded")
              /\ UNCHANGED clientVars
           \/ /\ ~bytes /\ payload = Error
              /\ Goes(p, "refused")
              /\ UNCHANGED clientVars
           \/ /\ ~bytes /\ Plan(p).registry /\ payload # Error
              /\ Goes(p, "registering")
              /\ RegisterSchema(p, Key(p))
    /\ UNCHANGED <<setup, writer, topic, read>>

\* The header of the wire format goes in front; an error of the registry is
\* one of Publish, and the caller tries again.
Prepend(p) ==
    /\ stage[p] = "registering" /\ (Returned(p) \/ Failed(p))
    /\ IF Failed(p)
       THEN Goes(p, "new") /\ UNCHANGED encoded
       ELSE /\ Goes(p, "encoded")
            /\ encoded' = [encoded EXCEPT ![p] = EncodeSchemaID(Result(p), @)]
    /\ calls' = [calls EXCEPT ![p] = Idle]
    /\ UNCHANGED <<registryVars, cacheVars, faults, setup, writer, topic, read>>

MessageOf(p) == [from |-> p, payload |-> encoded[p]]

\* WriteMessages returns without an error once as many brokers have the message
\* as were asked for; if these were not all, it may still be lost.
Write(p) ==
    /\ stage[p] = "encoded" /\ ClientOf[p] \in writer
    /\ Goes(p, "published")
    /\ \/ topic' = Append(topic, MessageOf(p)) /\ UNCHANGED faults
       \/ /\ Acks(p) # -1 /\ faults < MaxFaults
          /\ faults' = faults + 1
          /\ UNCHANGED topic
    /\ UNCHANGED <<registryVars, cacheVars, calls, setup, encoded, writer, read>>

\* WriteMessages fails, with the message written or not; the caller tries again.
WriteFails(p) ==
    /\ stage[p] = "encoded"
    /\ Goes(p, "new")
    /\ \/ ClientOf[p] \notin writer /\ UNCHANGED <<faults, topic>>
       \/ /\ faults < MaxFaults /\ faults' = faults + 1
          /\ topic' \in {topic, Append(topic, MessageOf(p))}
    /\ UNCHANGED <<registryVars, cacheVars, calls, setup, encoded, writer, read>>

\* GracefulShutdown takes the writer away, from publications under way as well.
ShutDown(c) ==
    /\ c \in writer /\ faults < MaxFaults
    /\ \E p \in Producers : ClientOf[p] = c
    /\ writer' = writer \ {c} /\ faults' = faults + 1
    /\ UNCHANGED <<registryVars, cacheVars, calls, setup, stage, encoded, topic, read>>

\* A process restarts: its caches are empty, its producers begin again.
Restart(c) ==
    /\ Forgets(c)
    /\ stage' = [p \in Producers |-> IF ClientOf[p] = c /\ stage[p] \in {"registering", "encoded"}
                                     THEN "new" ELSE stage[p]]
    /\ UNCHANGED <<setup, encoded, writer, topic, read>>

-----------------------------------------------------------------------------
Following == Len(read) + 1
Current == topic[Following].payload
Reads(outcome) == read' = Append(read, outcome)

\* BodyAs with a deserializer that asks no registry.
BodyAs ==
    /\ ~setup.registry /\ Following <= Len(topic)
    /\ \E outcome \in Deserialize(Deserializer, Current, setup.target) : Reads(outcome)
    /\ UNCHANGED <<clientVars, setup, stage, encoded, writer, topic>>

\* BodyAs with one that does: no header is an error, else the schema is asked for.
BodyAsUnwrap ==
    /\ setup.registry /\ Following <= Len(topic) /\ calls[Reader] = Idle
    /\ IF HasSchemaID(Current)
       THEN GetSchemaByID(Reader, SchemaIDOf(Current)) /\ UNCHANGED read
       ELSE Reads(Error) /\ UNCHANGED clientVars
    /\ UNCHANGED <<setup, stage, encoded, writer, topic>>

\* The schema is there: it is not looked at, and the payload is decoded.  An
\* error of the registry is one of BodyAs, and the caller tries again.
BodyAsDecode ==
    /\ setup.registry /\ (Returned(Reader) \/ Failed(Reader))
    /\ IF Failed(Reader)
       THEN UNCHANGED read
       ELSE \E outcome \in Decodes(Inner, WithoutSchemaID(Current), setup.target) :
                Reads(outcome)
    /\ calls' = [calls EXCEPT ![Reader] = Idle]
    /\ UNCHANGED <<registryVars, cacheVars, faults, setup, stage, encoded, writer, topic>>

\* Others look for the latest schema or compare theirs with it, once.
Look(t) ==
    /\ \E p \in Producers :
        /\ Plan(p).registry
        /\ GetLatestSchema(t, Plan(p).subject) \/ CheckCompatibility(t, Key(p))
    /\ UNCHANGED topicVars

Works(t) == CallStep(t) /\ UNCHANGED topicVars

Settled == /\ \A p \in Producers : stage[p] \in {"published", "refused"}
           /\ Len(read) = Len(topic)
           /\ \A t \in Threads : calls[t] = Idle \/ Returned(t) \/ Failed(t)

Next ==
    \/ \E p \in Producers : \/ Cannot(p) \/ Encode(p) \/ Prepend(p)
                            \/ Write(p) \/ WriteFails(p)
    \/ \E c \in Clients : ShutDown(c) \/ Restart(c)
    \/ BodyAs \/ BodyAsUnwrap \/ BodyAsDecode
    \/ \E t \in Lookers : Look(t)
    \/ \E t \in Threads : Works(t)
    \/ Settled /\ UNCHANGED vars

\* Callers retry, the registry answers, the client gives up waiting for it.
Fairness ==
    /\ \A p \in Producers :
        WF_vars(Cannot(p) \/ Encode(p) \/ Prepend(p) \/ Write(p) \/ WriteFails(p))
    /\ WF_vars(BodyAs \/ BodyAsUnwrap \/ BodyAsDecode)
    /\ \A t \in Threads : WF_vars(Proceeds(t) /\ UNCHANGED topicVars)

Spec == Init /\ [][Next]_vars /\ Fairness

-----------------------------------------------------------------------------
\* A message with a header names the very schema that its producer writes with,
\* and its subject has that schema, whatever was lost, forgotten or repeated,
\* and although the producers of a process share one cache.
MessagesNameTheirSchema ==
    \A n \in DOMAIN topic :
        LET m == topic[n] IN
        HasSchemaID(m.payload) =>
            /\ ids[SchemaIDOf(m.payload)] = DefinitionOf(Key(m.from))
            /\ SchemaIDOf(m.payload) \in versions[Plan(m.from).subject]

\* Where reader and producer agree on the format and on the registry, and the
\* reader asks for the type that was written, BodyAs returns the very value and no
\* error, but for text that JSON writes without quotes and values that %v made text
\* of. Else it returns an error, or the value that bytes or text spelled which were
\* published as they are, or the text or the bytes themselves. A value that nobody
\* wrote comes out without an error only of foreign messages: of another format or
\* another type, also those of another subject, or published as they are.
Agree(p) == /\ Plan(p).registry = setup.registry
            /\ \/ Serializer(p).format = Deserializer.format
               \/ Serializer(p).format = "registry json" /\ Deserializer.format = "json"
            /\ Serializer(p).func = Deserializer.func

AsItIs(p) == \/ Plan(p).data.type = "bytes"
             \/ Plan(p).data.type = "string" /\ Serializer(p).format \in {"json", "string"}

Restored(p) == CASE Serializer(p).format = "json"   -> ~AsItIs(p)
                 [] Serializer(p).format = "string" -> Plan(p).data.type = "string"
                 [] OTHER                           -> Plan(p).data.type # "bytes"

Spelled(data) == IF data.type \in {"string", "bytes"} THEN data.is.value ELSE data

AsWritten(p, payload, outcome) ==
    LET data == Plan(p).data
    IN  /\ Agree(p) /\ Restored(p) /\ data.type = setup.target => outcome = data
        /\ \/ outcome \in {Error, Unwritten}
           \/ outcome.type = setup.target
              /\ outcome \in {data, Spelled(data), String(payload), Bytes(payload),
                              String(WithoutSchemaID(payload)), Bytes(WithoutSchemaID(payload))}
        /\ outcome = Unwritten => ~Agree(p) \/ data.type # setup.target \/ AsItIs(p)

ReadAsWritten ==
    \A n \in DOMAIN read : AsWritten(topic[n].from, topic[n].payload, read[n])

\* Every value is published in the end, or refused for good, and every message
\* is read: an error of the registry, a lost answer, a restart are got over. What
\* was reported as published arrives, unless fewer than all acknowledgements were
\* asked for.
Arrives(p) == \E n \in DOMAIN read : topic[n].from = p

EveryMessageArrives ==
    <>[](/\ Settled
         /\ \A p \in Producers :
                stage[p] = "published" /\ Plan(p).acks \in {0, -1} => Arrives(p))
=============================================================================
