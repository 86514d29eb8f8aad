---------------------------- MODULE Serializers -----------------------------
(***************************************************************************)
(* What the serializers of the Kafka client and those of the schema        *)
(* registry make of a Go value, and what the deserializers make of bytes.  *)
(* Bytes are a payload: the format they are written in, the value they say *)
(* and, with the wire format of the registry, an ID in front.              *)
(***************************************************************************)
EXTENDS Naturals

NoHeader == 0

Payload(format, value) == [id |-> NoHeader, format |-> format, value |-> value]

\* Go values: a struct, one of another type, one with Marshal and Unmarshal; and
\* text and bytes, which are the payload that they are made of.
Struct(x)  == [type |-> "struct", is |-> x]
Other(x)   == [type |-> "other", is |-> x]
Message(x) == [type |-> "message", is |-> x]
String(p)  == [type |-> "string", is |-> p]
Bytes(p)   == [type |-> "bytes", is |-> p]

\* Text that no format can take for anything: a word.
Word(x) == [type |-> "word", is |-> x]
Text(x) == String(Payload("text", Word(x)))

\* What a decoder returns: an error, a value, or one that nobody wrote.
Error     == [type |-> "error", is |-> "error"]
Unwritten == [type |-> "unwritten", is |-> "bytes of another format or type"]

\* A (de)serializer: its format, and whether it was given a function to encode
\* or decode with.  Nil is none.
Codec(format, func) == [format |-> format, func |-> func]
Nil == Codec("nil", FALSE)

\* What a client gets that was given no (de)serializer.
DefaultCodec(dataType) ==
    CASE dataType \in {"protobuf", "avro"}      -> Nil
      [] dataType \in {"string", "gob", "bytes"} -> Codec(dataType, FALSE)
      [] OTHER                                  -> Codec("json", FALSE)

\* Bytes are taken for encoded already, by every serializer, and a string is by
\* that of JSON and that of text; text is made of what else there is with %v.
Encodes(codec, data) ==
    CASE codec.format \in {"json", "string"} /\ data.type = "string" -> data.is
      [] codec.format \in {"json", "registry json"} /\ ~(codec.format = "json" /\ data.type = "string")
                                        -> Payload("json", data)
      [] codec.format = "string" /\ data.type # "string" -> Payload("text", data)
      [] codec.format = "gob"           -> Payload("gob", data)
      [] codec.format = "protobuf" /\ (codec.func \/ data.type = "message")
                                        -> Payload("protobuf", data)
      [] codec.format = "avro" /\ codec.func -> Payload("avro", data)
      [] OTHER                          -> Error

Serialize(codec, data) == IF data.type = "bytes" THEN data.is ELSE Encodes(codec, data)

\* Formats by name: names are registered in lower case, and the default is
\* looked up as it was written.
Lower(name) == IF name = "AVRO" THEN "avro" ELSE name
Builtin     == [name \in {"json", "string", "gob", "noop"} |->
                    Codec(IF name = "noop" THEN "bytes" ELSE name, FALSE)]
WithFormat(formats, name, codec) ==
    [n \in DOMAIN formats \cup {Lower(name)} |-> IF n = Lower(name) THEN codec ELSE formats[n]]
InFormat(formats, name)   == IF Lower(name) \in DOMAIN formats THEN formats[Lower(name)] ELSE Nil
ByDefault(formats, name)  ==
    LET default == IF name = "" THEN "json" ELSE name
    IN  IF default \in DOMAIN formats THEN formats[default] ELSE Nil

-----------------------------------------------------------------------------
\* Types that a format does not tell apart: it fills the fields it finds in the
\* bytes, or takes a JSON string for base64; the caller's functions may do anything.
Alike(format, type, target) ==
    \/ {type, target} \subseteq {"struct", "other", "message"}
    \/ format = "json" /\ type = "string" /\ target = "bytes"
    \/ format \in {"protobuf", "avro"}

\* Neither a header nor a word is JSON; what is encoded otherwise may be.
NoJSON(payload) ==
    \/ payload.id # NoHeader
    \/ payload.format = "text" /\ payload.value.type = "word"

\* The value that bytes of the format say, if the target has its type; what a
\* decoder makes of a value of another type, and of foreign bytes, nobody wrote.
Parsed(format, payload, target) ==
    LET own  == payload.id = NoHeader /\ payload.format = format
        type == payload.value.type
    IN  CASE own /\ type = target                        -> {payload.value}
          [] own /\ type # target /\ ~Alike(format, type, target) -> {Error}
          [] ~own /\ format = "json" /\ NoJSON(payload)  -> {Error}
          [] OTHER                                       -> {Error, Unwritten}

Decodes(codec, payload, target) ==
    CASE codec.format \in {"json", "gob"} -> Parsed(codec.format, payload, target)
      [] codec.format = "string" ->
            CASE target = "string" -> {String(payload)}
              [] target = "bytes"  -> {Bytes(payload)}
              [] OTHER             -> {Error}
      [] codec.format = "bytes" -> IF target = "bytes" THEN {Bytes(payload)} ELSE {Error}
      [] codec.format = "protobuf" /\ (codec.func \/ target = "message")
            -> Parsed("protobuf", payload, target)
      [] codec.format = "avro" /\ codec.func -> Parsed("avro", payload, target)
      [] OTHER -> {Error}

\* A message is read with JSON if the consumer has no deserializer.
Deserialize(codec, payload, target) ==
    Decodes(IF codec = Nil THEN Codec("json", FALSE) ELSE codec, payload, target)

-----------------------------------------------------------------------------
\* The wire format of the registry: a magic byte, the ID, the payload.
EncodeSchemaID(id, payload) == [payload EXCEPT !.id = id]
HasSchemaID(payload)        == payload.id # NoHeader
SchemaIDOf(payload)         == payload.id

\* A mistake: the header is left where it is.
WithSchemaID(payload) == payload

WithoutSchemaID(payload) == [payload EXCEPT !.id = NoHeader]
=============================================================================
