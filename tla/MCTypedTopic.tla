---------------------------- MODULE MCTypedTopic ----------------------------
(* Two producers of one process, and a reader and a looker of another. *)
EXTENDS TypedTopic

CONSTANTS p1, p2, r, l

MCThreads   == {p1, p2, r, l}
MCProducers == {p1, p2}
MCLookers   == {l}
MCClientOf  == [t \in MCThreads |-> IF t \in MCProducers THEN "A" ELSE "B"]

Plain(dataType, data) ==
    [dataType |-> dataType, codec |-> Nil, registry |-> FALSE, data |-> data,
     subject |-> "s", type |-> "", schema |-> "S1", acks |-> 0]
Own(codec, data)  == [Plain("json", data) EXCEPT !.codec = codec]
Registered(codec, type, schema, data) ==
    [Own(codec, data) EXCEPT !.registry = TRUE, !.type = type, !.schema = schema]

ReadPlain(dataType, target) ==
    [dataType |-> dataType, codec |-> Nil, registry |-> FALSE, target |-> target]
ReadRegistered(codec, target) ==
    [dataType |-> "json", codec |-> codec, registry |-> TRUE, target |-> target]

Avro  == Codec("avro", TRUE)
Proto == Codec("protobuf", TRUE)
Json  == Codec("registry json", FALSE)
Multi == WithFormat(Builtin, "AVRO", Avro)

Topics ==
    { <<Registered(Avro, "AVRO", "S1", Struct("a")),
        [Registered(Avro, "AVRO", "S2", Other("b")) EXCEPT !.subject = "s2"],
        ReadRegistered(Avro, "struct")>>,
      <<Registered(Json, "JSON", "S1", Struct("a")), Registered(Json, "JSON", "S2", Struct("b")),
        ReadRegistered(Codec("json", FALSE), "struct")>>,
      <<Registered(Avro, "", "S1", Struct("a")), Registered(Proto, "PROTOBUF", "S1", Message("b")),
        ReadRegistered(Avro, "struct")>>,
      <<Registered(Avro, "AVRO", "S1", Bytes(Payload("avro", Struct("a")))),
        Own(InFormat(Multi, "AVRO"), Struct("b")), ReadRegistered(Avro, "struct")>>,
      <<Registered(Codec("gob", FALSE), "AVRO", "S2", Struct("a")), Plain("gob", Other("b")),
        ReadPlain("gob", "struct")>>,
      <<Plain("json", Struct("a")), Plain("json", Text("b")), ReadPlain("json", "struct")>>,
      <<Plain("json", String(Payload("json", Struct("a")))), Plain("json", Other("b")),
        ReadPlain("json", "struct")>>,
      <<Registered(Json, "JSON", "S1", Text("a")), Plain("json", Text("b")),
        ReadRegistered(Codec("json", FALSE), "string")>>,
      <<Plain("string", Text("a")), Plain("string", Struct("b")), ReadPlain("string", "string")>>,
      <<Plain("bytes", Bytes(Payload("json", Struct("a")))), Plain("bytes", Struct("b")),
        ReadPlain("bytes", "bytes")>>,
      <<Own(ByDefault(Multi, "AVRO"), Struct("a")), Own(ByDefault(Multi, "gob"), Struct("b")),
        ReadPlain("avro", "struct")>>,
      <<Plain("protobuf", Message("a")), Own(Codec("protobuf", FALSE), Message("b")),
        [ReadPlain("protobuf", "message") EXCEPT !.codec = Codec("protobuf", FALSE)]>>,
      <<Plain("string", Text("a")), Registered(Codec("gob", FALSE), "AVRO", "S2", Struct("b")),
        ReadRegistered(Codec("string", FALSE), "string")>>,
      <<Registered(Json, "JSON", "S1", Struct("a")), Registered(Nil, "", "S2", Struct("b")),
        ReadRegistered(Nil, "bytes")>>,
      <<Plain("gob", Bytes(Payload("json", Struct("a")))), Registered(Json, "JSON", "S1", Struct("b")),
        ReadPlain("json", "struct")>>,
      <<[Plain("json", Struct("a")) EXCEPT !.acks = 1], [Plain("json", Struct("b")) EXCEPT !.acks = -1],
        ReadPlain("json", "struct")>> }

MCSetups ==
    { [publish |-> [p \in MCProducers |-> IF p = p1 THEN t[1] ELSE t[2]],
       dataType |-> t[3].dataType, codec |-> t[3].codec, registry |-> t[3].registry,
       target |-> t[3].target] : t \in Topics }
=============================================================================
