------------------------------ MODULE AmqpInput ------------------------------
(* The input side of a rabbitmq-c connection: octets arrive from the socket   *)
(* in pieces of any size (recv_with_timeout), consume_one_frame feeds them to *)
(* amqp_handle_input, which collects a header, takes a buffer from the pool   *)
(* of the frame's channel, collects the rest and returns the frame.  The      *)
(* client gives the memory of a channel back with                             *)
(* amqp_maybe_release_buffers_on_channel.                                     *)
(*                                                                            *)
(* An octet is the number of its frame and its place in it; AmqpCodec says    *)
(* what a complete frame decodes to.                                          *)
EXTENDS AmqpPool, Sequences, FiniteSets

CONSTANTS
  Frames,          \* what the broker may send: [type, channel, size, decoded, intact]
  InitialFrameMax, \* frame_max of a new connection
  TunedFrameMax,   \* frame_max after amqp_tune_connection
  MaxFrames,       \* bound: frames sent
  MaxFailures      \* bound: requests for memory that fail

\* The protocol header of a broker that refuses the version has eight octets.
ASSUME FramesAssumption ==
  /\ Frames \subseteq
       [type : {"METHOD", "HEADER", "BODY", "HEARTBEAT", "PROTOCOL", "OTHER"}, channel : Nat,
        size : Nat, decoded : Nat, intact : BOOLEAN]
  /\ \A f \in Frames : f.type = "PROTOCOL" => f.size = 0
  /\ InitialFrameMax \in Nat /\ TunedFrameMax \in Nat

VARIABLES
  sent,       \* the frames sent, in order
  wire,       \* octets on their way
  sock,       \* octets of sock_inbound_buffer not consumed yet
  conn,       \* state, inbound octets, target_size, frame_max, buffer
  pools,      \* the channel pools created so far
  held,       \* memory in use since the last recycle of its pool
  delivered,  \* the numbers of the frames returned to the client
  status,     \* OK, or the error that ended the connection
  failures

vars == <<sent, wire, sock, conn, pools, held, delivered, status, failures>>

HeaderSize == 7
FooterSize == 1

Octets(n, f) == [i \in 1..(f.size + HeaderSize + FooterSize) |-> [frame |-> n, place |-> i]]

\* The octet calloc left in a buffer.
Zero == [frame |-> 0, place |-> 0]

\* The frame a header announces.
FrameAt(octets) == sent[octets[1].frame]
Known(f) == f.type \in {"METHOD", "HEADER", "BODY", "HEARTBEAT"}

PoolOf(channel) ==
  IF channel \in DOMAIN pools THEN pools[channel] ELSE InitPool(conn.frame_max)

\* pools with a pool created or changed (amqp_get_or_create_channel_pool).
WithPool(channel, p) ==
  [c \in DOMAIN pools \cup {channel} |-> IF c = channel THEN p ELSE pools[c]]

Init ==
  /\ sent = <<>> /\ wire = <<>> /\ sock = <<>> /\ delivered = <<>>
  /\ conn = [state |-> "INITIAL", inbound |-> <<>>, target_size |-> HeaderSize + 1,
             frame_max |-> InitialFrameMax, buffer |-> NoMemory, channel |-> 0]
  /\ pools = <<>> /\ held = {} /\ status = "OK" /\ failures = 0

------------------------------------------------------------------------------
(* The broker and the socket *)

\* A protocol header is sent only first, by a broker that refuses the version.
SendFrame(f) ==
  /\ Len(sent) < MaxFrames
  /\ f.type = "PROTOCOL" => sent = <<>>
  /\ sent' = Append(sent, f)
  /\ wire' = wire \o Octets(Len(sent) + 1, f)
  /\ UNCHANGED <<sock, conn, pools, held, delivered, status, failures>>

\* Mutant: octets not consumed yet are overwritten.
RecvTooEarly ==
  /\ status = "OK"
  /\ \E n \in 1..Len(wire) :
       /\ sock' = SubSeq(wire, 1, n)
       /\ wire' = SubSeq(wire, n + 1, Len(wire))
  /\ UNCHANGED <<sent, conn, pools, held, delivered, status, failures>>

\* recv_with_timeout: any amount, but only when the buffer has been consumed.
Recv ==
  /\ status = "OK" /\ sock = <<>>
  /\ \E n \in 1..Len(wire) :
       /\ sock' = SubSeq(wire, 1, n)
       /\ wire' = SubSeq(wire, n + 1, Len(wire))
  /\ UNCHANGED <<sent, conn, pools, held, delivered, status, failures>>

------------------------------------------------------------------------------
(* amqp_handle_input *)

\* Mutant: all there is, whatever the target.
ConsumeAll(inbound, octets, target) == [inbound |-> inbound \o octets, rest |-> <<>>]

\* consume_data: what is missing to the target, as far as it is there.
Consume(inbound, octets, target) ==
  LET missing == target - Len(inbound)
      n == IF Len(octets) < missing THEN Len(octets) ELSE missing
  IN  [inbound |-> inbound \o SubSeq(octets, 1, n), rest |-> SubSeq(octets, n + 1, Len(octets))]

Fails(error) ==
  /\ status' = error
  /\ UNCHANGED <<sock, conn, pools, held, delivered, failures>>

ReturnToIdle ==
  conn' = [conn EXCEPT !.state = "IDLE", !.inbound = <<>>, !.target_size = HeaderSize,
                       !.buffer = NoMemory, !.channel = 0]

\* A request for memory from the pool of a channel that fails ends the connection.
OutOfMemory(channel, a) ==
  /\ a.at = NoMemory
  /\ failures < MaxFailures
  /\ failures' = failures + 1 /\ status' = "NO_MEMORY"
  /\ pools' = WithPool(channel, a.pool)
  /\ UNCHANGED <<sock, conn, held, delivered>>

\* A complete frame.  Methods and headers are decoded into the channel's pool.
Finish(octets, rest, p, inUse) ==
  LET f == FrameAt(octets)
      Return ==
        /\ delivered' = IF Known(f) THEN Append(delivered, octets[1].frame) ELSE delivered
        /\ sock' = rest
        /\ ReturnToIdle
        /\ UNCHANGED <<status, failures>>
  IN  IF ~f.intact \/ octets[Len(octets)] = Zero THEN Fails("BAD_AMQP_DATA")
      ELSE IF f.type \in {"METHOD", "HEADER"}
      THEN \E a \in Alloc(p, f.decoded) :
             \/ OutOfMemory(f.channel, a)
             \/ /\ a.at # NoMemory /\ Return
                /\ pools' = WithPool(f.channel, a.pool)
                /\ held' = inUse \cup {[channel |-> f.channel, at |-> a.at, octets |-> <<>>]}
      ELSE Return /\ pools' = WithPool(f.channel, p) /\ held' = inUse

ReadProtocolHeader(got) ==
  /\ delivered' = delivered /\ sock' = got.rest
  /\ ReturnToIdle
  /\ UNCHANGED <<pools, held, status, failures>>

\* Mutant: the offset is set back to the size of a header.
ReadHeaderFromItsSize(got) ==
  LET f == FrameAt(got.inbound)
      target == f.size + HeaderSize + FooterSize
      more == Consume(SubSeq(got.inbound, 1, HeaderSize), got.rest, target)
  IN  IF conn.frame_max < target THEN Fails("BAD_AMQP_DATA")
      ELSE \E a \in Alloc(PoolOf(f.channel), target) :
             /\ conn' = [conn EXCEPT !.state = "BODY", !.inbound = more.inbound,
                         !.target_size = target, !.buffer = a.at, !.channel = f.channel]
             /\ sock' = more.rest
             /\ pools' = WithPool(f.channel, a.pool)
             /\ held' = held \cup {[channel |-> f.channel, at |-> a.at, octets |-> more.inbound]}
             /\ UNCHANGED <<delivered, status, failures>>

\* A complete header.  The buffer gets the header only: of a first frame the
\* octet after it, already read, is lost and stays as calloc left it.
ReadHeader(got) ==
  LET f == FrameAt(got.inbound)
      target == f.size + HeaderSize + FooterSize
      header == SubSeq(got.inbound, 1, HeaderSize) \o IF conn.state = "INITIAL" THEN <<Zero>> ELSE <<>>
      more == Consume(header, got.rest, target)
  IN  IF conn.frame_max < target THEN Fails("BAD_AMQP_DATA")
      ELSE \E a \in Alloc(PoolOf(f.channel), target) :
             \/ OutOfMemory(f.channel, a)
             \/ /\ a.at # NoMemory /\ Len(more.inbound) < target
                /\ conn' = [conn EXCEPT !.state = "BODY", !.inbound = more.inbound,
                            !.target_size = target, !.buffer = a.at, !.channel = f.channel]
                /\ sock' = more.rest
                /\ pools' = WithPool(f.channel, a.pool)
                /\ held' = held \cup {[channel |-> f.channel, at |-> a.at, octets |-> <<>>]}
                /\ UNCHANGED <<delivered, status, failures>>
             \/ /\ a.at # NoMemory /\ Len(more.inbound) >= target
                /\ Finish(more.inbound, more.rest, a.pool,
                          held \cup {[channel |-> f.channel, at |-> a.at, octets |-> more.inbound]})

ReadBody(got) ==
  LET buffer == [channel |-> conn.channel, at |-> conn.buffer, octets |-> <<>>]
  IN  Finish(got.inbound, got.rest, PoolOf(conn.channel),
             (held \ {buffer}) \cup {[buffer EXCEPT !.octets = got.inbound]})

ReadPart(got) ==
  /\ conn' = [conn EXCEPT !.inbound = got.inbound, !.state = IF @ = "IDLE" THEN "HEADER" ELSE @]
  /\ sock' = got.rest
  /\ UNCHANGED <<pools, held, delivered, status, failures>>

HandleInput ==
  /\ status = "OK" /\ sock # <<>>
  /\ LET got == Consume(conn.inbound, sock, conn.target_size)
     IN  IF Len(got.inbound) < conn.target_size THEN ReadPart(got)
         ELSE IF conn.state = "BODY" THEN ReadBody(got)
         ELSE IF conn.state = "INITIAL" /\ FrameAt(got.inbound).type = "PROTOCOL" THEN ReadProtocolHeader(got)
         ELSE ReadHeader(got)
  /\ UNCHANGED <<sent, wire>>

------------------------------------------------------------------------------
(* The client *)

\* Mutant: the state of the connection is not looked at.
ReleaseAtAnyTime(channel) ==
  /\ channel \in DOMAIN pools
  /\ pools' = [pools EXCEPT ![channel] = RecyclePool(@)]
  /\ held' = {h \in held : h.channel # channel}
  /\ UNCHANGED <<sent, wire, sock, conn, delivered, status, failures>>

\* amqp_maybe_release_buffers_on_channel; the client keeps no frame of the channel.
ReleaseBuffersOnChannel(channel) ==
  /\ conn.state = "IDLE" /\ channel \in DOMAIN pools
  /\ pools' = [pools EXCEPT ![channel] = RecyclePool(@)]
  /\ held' = {h \in held : h.channel # channel}
  /\ UNCHANGED <<sent, wire, sock, conn, delivered, status, failures>>

\* Pools that exist keep the page size they were created with.
TuneConnection ==
  /\ conn.state = "IDLE" /\ conn.frame_max # TunedFrameMax
  /\ conn' = [conn EXCEPT !.frame_max = TunedFrameMax]
  /\ UNCHANGED <<sent, wire, sock, pools, held, delivered, status, failures>>

Next ==
  \/ \E f \in Frames : SendFrame(f)
  \/ Recv \/ HandleInput \/ TuneConnection
  \/ \E c \in DOMAIN pools : ReleaseBuffersOnChannel(c)

Spec == Init /\ [][Next]_vars

\* A client that goes on reading its socket.
FairSpec == Spec /\ WF_vars(Recv) /\ WF_vars(HandleInput)

------------------------------------------------------------------------------
(* Properties *)

\* Whatever the pieces it arrived in, a frame in memory has the octets the broker sent, in their
\* order, except that the first octet of the first frame's payload is zero (amqp_handle_input
\* copies HEADER_SIZE octets of the eight it has read: harmless, as the first frame is a
\* connection.start, whose class has a zero there).
FramesAreIntact ==
  \A h \in held :
    h.octets # <<>> =>
      LET n == h.octets[1].frame
          whole == Octets(n, sent[n])
      IN  h.octets = IF n = 1 THEN [whole EXCEPT ![HeaderSize + 1] = Zero] ELSE whole

\* Memory in use lies inside its page, holds what is in it and overlaps nothing else in use,
\* and a frame being received is in use: no release, tuning or failed allocation takes it
\* away (amqp_pool_alloc, amqp_maybe_release_buffers_on_channel).
MemoryIsDisjoint ==
  /\ \A g, h \in held : g # h /\ g.channel = h.channel => Disjoint(g.at, h.at)
  /\ \A h \in held :
       /\ h.at.block.kind # "large" => h.at.to <= pools[h.channel].pagesize
       /\ Len(h.octets) <= h.at.to - h.at.from
  /\ conn.state = "BODY" => [channel |-> conn.channel, at |-> conn.buffer, octets |-> <<>>] \in held

\* The input side is a channel that loses, repeats and reorders nothing (consume_one_frame).
Stream == INSTANCE FrameStream
ImplementsFrameStream == Stream!Spec

\* Every frame the broker sends comes out or the connection fails: no chunking of the octets
\* leaves a complete frame unread (recv_with_timeout, amqp_handle_input).
EveryFrameArrives ==
  \A n \in 1..MaxFrames :
    (n <= Len(sent) /\ Known(sent[n])) ~> (n \in {delivered[i] : i \in DOMAIN delivered} \/ status # "OK")
==============================================================================
