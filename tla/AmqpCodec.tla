------------------------------ MODULE AmqpCodec ------------------------------
(* Frames of rabbitmq-c: amqp_frame_to_bytes writes one into the outbound     *)
(* buffer, amqp_handle_input reads a complete one back.  The machine makes    *)
(* any frame the library can be asked to send, by a client function or by     *)
(* amqp_send_method, writes it, perhaps lets a broker shorten its payload,    *)
(* reads it and clones what a client keeps of it.  It also merges capability  *)
(* tables the way login does.                                                 *)
(*                                                                            *)
(* A broker's frame holds at least the fixed part of its payload (a method    *)
(* number, the head of a content header): the library takes that for granted. *)
EXTENDS AmqpMethods

CONSTANTS
  Sample,        \* for each C type, the values its fields take: two common ones first
  Capabilities,  \* tables given to amqp_merge_capabilities
  Rooms          \* sizes of the outbound buffer (the negotiated frame_max)

VARIABLES pc, frame, room, wire, cut, result, clone, merge

codecVars == <<pc, frame, room, wire, cut, result, clone, merge>>

FrameType == [METHOD |-> 1, HEADER |-> 2, BODY |-> 3, HEARTBEAT |-> 8]
FrameEnd == 206
HeaderSize == 7
FooterSize == 1

------------------------------------------------------------------------------
(* Frames *)

MethodFrame(m, fields) == [type |-> "METHOD", channel |-> 1, method |-> m, fields |-> fields]
HeaderFrame(class, size, p) ==
  [type |-> "HEADER", channel |-> 1, class |-> class, size |-> size, properties |-> p]
BodyFrame(bytes) == [type |-> "BODY", channel |-> 1, bytes |-> bytes]
HeartbeatFrame(channel) == [type |-> "HEARTBEAT", channel |-> channel]
NoFrame == [type |-> "NONE"]

\* The fixed part of a payload, written without a check of the room.
FixedPart(f) ==
  CASE f.type = "METHOD" -> EncodeLimbs(MethodNumber[f.method])
    [] f.type = "HEADER" -> EncodeShort(f.class) \o EncodeShort(0) \o EncodeLimbs(f.size)
    [] f.type = "BODY"   -> f.bytes
    [] OTHER             -> <<>>

VariablePart(f, left) ==
  CASE f.type = "METHOD" -> EncodeMethod(f.method, f.fields, left)
    [] f.type = "HEADER" -> EncodeProperties(f.class, f.properties, left)
    [] OTHER             -> [status |-> "OK", data |-> <<>>]

Framed(f, payload) ==
  <<FrameType[f.type]>> \o EncodeShort(f.channel) \o EncodeSize(Len(payload)) \o payload \o <<FrameEnd>>

FrameToBytes(f, size) ==
  LET fixed == FixedPart(f)
      rest == VariablePart(f, size - HeaderSize - Len(fixed) - FooterSize)
  IN  [status |-> rest.status, data |-> Framed(f, fixed \o rest.data)]

\* The methods a number stands for: one, or none if the number is unknown.
MethodsOf(number) == {m \in Methods : MethodNumber[m] = number}

DecodeMethodFrame(payload) ==
  LET ms == MethodsOf(ToLimbs(SubSeq(payload, 1, 4)))
  IN  IF ms = {} THEN Bad("UNKNOWN_METHOD")
      ELSE LET m == CHOOSE x \in ms : TRUE
           IN  Then(DecodeMethod(m, SubSeq(payload, 5, Len(payload))),
                    LAMBDA r : Got(MethodFrame(m, r.value), 0))

DecodeHeaderFrame(payload) ==
  LET class == ToShort(payload)
  IN  Then(DecodeProperties(class, SubSeq(payload, 13, Len(payload))),
           LAMBDA r : Got(HeaderFrame(class, ToLimbs(SubSeq(payload, 5, 12)), r.value), 0))

\* A complete frame; one of another type is ignored.
FrameOf(b) ==
  LET payload == SubSeq(b, HeaderSize + 1, Len(b) - FooterSize)
  IN  IF b[Len(b)] # FrameEnd THEN Bad("BAD_AMQP_DATA")
      ELSE CASE b[1] = FrameType["METHOD"]    -> DecodeMethodFrame(payload)
             [] b[1] = FrameType["HEADER"]    -> DecodeHeaderFrame(payload)
             [] b[1] = FrameType["BODY"]      -> Got(BodyFrame(payload), 0)
             [] b[1] = FrameType["HEARTBEAT"] -> Got(HeartbeatFrame(0), 0)
             [] OTHER                         -> Got(NoFrame, 0)

\* amqp_basic_properties_clone: the headers are copied, the rest cannot fail.
CloneProperties(p) ==
  IF "headers" \notin DOMAIN p THEN Ok(p)
  ELSE LET h == CloneTable(p.headers)
       IN  IF h.status = "OK" THEN Ok([p EXCEPT !.headers = h.value]) ELSE h

------------------------------------------------------------------------------
(* The inputs: every field its first sample, or every field its second, and   *)
(* one field any sample.                                                      *)

Fillings(types) ==
  UNION {LET common == [f \in DOMAIN types |-> k]
         IN  {common} \cup
             UNION {{[common EXCEPT ![f] = j] : j \in DOMAIN Sample[types[f]]} : f \in DOMAIN types}
         : k \in {1, 2}}

Filled(types, filling) == [f \in DOMAIN types |-> Sample[types[f]][filling[f]]]

\* Few or nearly all properties present, one of them with any sample.
PropertyTypes == [f \in DOMAIN PropertyFlag |->
  IF f = "headers" THEN "table" ELSE IF f \in {"delivery_mode", "priority"} THEN "uint8"
  ELSE IF f = "timestamp" THEN "uint64" ELSE "bytes"]

PropertySets == {P \in SUBSET DOMAIN PropertyFlag :
                   Cardinality(P) <= 2 \/ Cardinality(P) >= Cardinality(DOMAIN PropertyFlag) - 1}

CodecInit ==
  /\ pc = "idle" /\ frame = NoFrame /\ room = 0 /\ wire = <<>> /\ cut = FALSE
  /\ result = Bad("NONE") /\ clone = Fail("NONE") /\ merge = <<>>

Build(f) ==
  /\ pc = "idle"
  /\ frame' = f
  /\ room' \in Rooms
  /\ pc' = "encode"
  /\ UNCHANGED <<wire, cut, result, clone, merge>>

\* A client function: its request has the arguments and the fixed fields.
CallFunction(c) ==
  LET call == Calls[c]
      types == [f \in call.args |-> Struct[call.request][f]]
  IN  /\ pc = "idle"
      /\ \E filling \in Fillings(types) :
           Build(MethodFrame(call.request, Filled(types, filling) @@ call.fixed))

\* amqp_send_method (or the broker) sends any method.
SendMethod(m) ==
  /\ pc = "idle"
  /\ \E filling \in Fillings(Struct[m]) : Build(MethodFrame(m, Filled(Struct[m], filling)))

SendContent ==
  /\ pc = "idle"
  /\ \/ \E P \in PropertySets, size \in Range(Sample["uint64"]) :
          Build(HeaderFrame(BasicClass, size, [f \in P |-> Sample[PropertyTypes[f]][2]]))
     \/ \E f \in DOMAIN PropertyFlag : \E v \in Range(Sample[PropertyTypes[f]]) :
          Build(HeaderFrame(BasicClass, Sample["uint64"][1], f :> v))
     \/ \E class \in PlainClasses \cup {70} : Build(HeaderFrame(class, Sample["uint64"][1], <<>>))
     \/ \E bytes \in Range(Sample["bytes"]) :
          Build(BodyFrame(bytes)) /\ Len(bytes) <= room' - HeaderSize - FooterSize
     \/ Build(HeartbeatFrame(0))

Encode ==
  /\ pc = "encode"
  /\ LET e == FrameToBytes(frame, room)
     IN  IF e.status = "OK" THEN pc' = "wire" /\ wire' = e.data /\ UNCHANGED result
         ELSE pc' = "refused" /\ result' = Bad(e.status) /\ UNCHANGED wire
  /\ UNCHANGED <<frame, room, cut, clone, merge>>

\* The broker sends the same frame with the payload cut off somewhere.
Shorten ==
  /\ pc = "wire" /\ ~cut /\ frame.type \in {"METHOD", "HEADER"}
  /\ \E n \in Len(FixedPart(frame))..(Len(wire) - HeaderSize - FooterSize - 1) :
       wire' = Framed(frame, SubSeq(wire, HeaderSize + 1, HeaderSize + n))
  /\ cut' = TRUE
  /\ UNCHANGED <<pc, frame, room, result, clone, merge>>

Decode ==
  /\ pc = "wire"
  /\ result' = FrameOf(wire)
  /\ pc' = "decoded"
  /\ UNCHANGED <<frame, room, wire, cut, clone, merge>>

Clone ==
  /\ pc = "decoded" /\ result.status = "OK" /\ frame.type = "HEADER" /\ frame.class = BasicClass
  /\ clone' = CloneProperties(result.value.properties)
  /\ pc' = "cloned"
  /\ UNCHANGED <<frame, room, wire, cut, result, merge>>

Merge ==
  /\ pc = "idle"
  /\ \E base, add \in Capabilities :
       merge' = [base |-> base, add |-> add, result |-> MergeCapabilities(base, add)]
  /\ pc' = "merged"
  /\ UNCHANGED <<frame, room, wire, cut, result, clone>>

CodecNext ==
  \/ \E c \in DOMAIN Calls : CallFunction(c)
  \/ \E m \in Methods : SendMethod(m)
  \/ SendContent \/ Encode \/ Shorten \/ Decode \/ Clone \/ Merge

CodecSpec == CodecInit /\ [][CodecNext]_codecVars

------------------------------------------------------------------------------
(* Properties *)

RECURSIVE HasLongKey(_)
HasLongKey(fields) ==
  \E f \in Range(fields) :
    \/ "key" \in DOMAIN f /\ Len(f.key) > 255
    \/ f.kind \in {"TABLE", "ARRAY"} /\ HasLongKey(f.value)

\* The tables of a frame: arguments and capabilities of a method, headers of a content.
TablesOf(f) ==
  CASE f.type = "METHOD" -> {f.fields[x] : x \in {y \in DOMAIN f.fields : Struct[f.method][y] = "table"}}
    [] f.type = "HEADER" -> {f.properties[x] : x \in DOMAIN f.properties \cap {"headers"}}
    [] OTHER             -> {}

\* A frame that reaches the other side whole is read as the frame that was sent, and a frame
\* shortened by a broker is never taken for a message (amqp_encode_method and amqp_decode_method,
\* amqp_encode_properties and amqp_decode_properties, amqp_frame_to_bytes and amqp_handle_input).
\* Tables with a key of more than 255 octets are excepted: amqp_encode_table writes them, with
\* the length of the key cut to one octet, and such a frame is never read as what was sent.
RoundTrip ==
  pc = "decoded" =>
    IF \E t \in TablesOf(frame) : HasLongKey(t) THEN result # Got(frame, 0)
    ELSE IF cut THEN result.status # "OK" ELSE result = Got(frame, 0)

RECURSIVE HasEmptyKey(_)
HasEmptyKey(fields) ==
  \E f \in Range(fields) :
    \/ "key" \in DOMAIN f /\ f.key = <<>>
    \/ f.kind \in {"TABLE", "ARRAY"} /\ HasEmptyKey(f.value)

\* What a client keeps of a message's headers is what arrived, or the message is refused because
\* a key is empty (amqp_basic_properties_clone, amqp_table_clone).
CloneIsExact ==
  pc = "cloned" =>
    LET p == result.value.properties
    IN  IF "headers" \in DOMAIN p /\ HasEmptyKey(p.headers)
        THEN clone.status = "INVALID_PARAMETER" ELSE clone = Ok(p)

RECURSIVE MergedFrom(_, _, _)
MergedFrom(base, add, t) ==
  LET Keys(x) == {e.key : e \in Range(x)}
      Of(x, key) == x[EntryByKey(x, key)]
  IN  /\ Keys(t) = Keys(base) \cup Keys(add) /\ Len(t) = Cardinality(Keys(t))
      /\ \A key \in Keys(t) :
           IF key \notin Keys(add) THEN Of(t, key) = Of(base, key)
           ELSE IF key \in Keys(base) /\ {Of(base, key).kind, Of(add, key).kind} = {"TABLE"}
           THEN Of(t, key).kind = "TABLE"
                /\ MergedFrom(Of(base, key).value, Of(add, key).value, Of(t, key).value)
           ELSE Of(t, key) = Of(add, key)

\* "If the two tables contain an entry with the same key, the entry from the add table takes
\* precedence. For entries that are both tables with the same key, the table is recursively
\* merged" (amqp_socket.c:1142), for tables without duplicate keys.
MergeTakesPrecedence ==
  pc = "merged" => merge.result.status = "OK" /\ MergedFrom(merge.base, merge.add, merge.result.value)
==============================================================================
