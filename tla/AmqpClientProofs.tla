--------------------------- MODULE AmqpClientProofs --------------------------
(***************************************************************************)
(* Proofs about AmqpClient: a reply is returned for its own request, for   *)
(* any channels, messages and requests.  Replies carry no name of their    *)
(* request, so the proof is about what may be under way at all: while the  *)
(* connection is in use, at most one of a request that will be answered    *)
(* and its answer, and it belongs to the call in progress.                 *)
(*                                                                         *)
(* The second part is about messages: what amqp_consume_message returns is *)
(* the content of the delivery that announced it.  A channel's frames pass *)
(* through three places, and on this line every delivery is followed by    *)
(* its content, whatever is stored, put back, thrown away or read.         *)
(***************************************************************************)
EXTENDS AmqpClient, SequenceTheorems, WellFoundedInduction, TLAPS

Requests == {"channel_open", "queue_declare", "queue_bind", "basic_consume", "basic_get"}

MethodFrame ==
  [type : {"METHOD"}, channel : Channels, number : Nat,
   id : Requests \cup {"get_ok", "get_empty", "deliver", "channel_close"}]
ConnectionClose == [type : {"METHOD"}, channel : {0}, number : Nat, id : {"connection_close"}]
HeaderFrame ==
  [type : {"HEADER"}, channel : Channels, id : {"none"}, number : Nat,
   size : Nat, copies : BOOLEAN]
BodyFrame == [type : {"BODY"}, channel : Channels, id : {"none"}, number : Nat, part : Nat]
Frame == MethodFrame \cup ConnectionClose \cup HeaderFrame \cup BodyFrame \cup {Heartbeat}

Pending == [channel : Channels, request : Requests \cup {"publish"}, number : Nat]

BrokerShape ==
  /\ broker = [requests |-> broker.requests, consuming |-> broker.consuming,
               closed |-> broker.closed, sending |-> broker.sending]
  /\ broker.requests \in Seq(Pending)
  /\ broker.sending \in [Channels -> Seq(HeaderFrame \cup BodyFrame)]
  /\ count \in [messages : Nat, requests : Nat, heartbeats : Nat]

CallShape ==
  /\ call.op = "rpc" => call.channel \in Channels /\ call.request \in Requests
  /\ call.op = "read" =>
       call = [op |-> "read", by |-> call.by, channel |-> call.channel, of |-> call.of,
               header |-> call.header, size |-> call.size, body |-> call.body]
  /\ next \in Nat \ {0}

\* What a request that is answered, and its answer, look like.
Reply(f) == f.type = "METHOD" /\ f.id \notin {"deliver", "channel_close", "connection_close"}
Awaited(r) == Live(r.channel) /\ r.request # "publish"

\* The answer under way belongs to the call in progress, which waits for it.
ReplyIsExpected ==
  \A i \in DOMAIN inbox : Reply(inbox[i]) =>
    /\ call.op = "rpc" /\ inbox[i].channel = call.channel
    /\ inbox[i].id # "get_ok" => inbox[i].number = call.number

\* So does the request that will be answered.
RequestIsExpected ==
  \A k \in DOMAIN broker.requests : Awaited(broker.requests[k]) =>
    /\ call.op = "rpc" /\ broker.requests[k].channel = call.channel
    /\ broker.requests[k].number = call.number

\* There is one of them at most.
OneUnderWay ==
  /\ \A i, j \in DOMAIN inbox : Reply(inbox[i]) /\ Reply(inbox[j]) => i = j
  /\ \A k, l \in DOMAIN broker.requests :
       Awaited(broker.requests[k]) /\ Awaited(broker.requests[l]) => k = l
  /\ \A i \in DOMAIN inbox, k \in DOMAIN broker.requests :
       ~(Reply(inbox[i]) /\ Awaited(broker.requests[k]))

\* Nothing is answered on a channel, or on a connection, after its close.
CloseIsLast ==
  /\ \A i \in DOMAIN inbox : inbox[i].id = "channel_close" =>
       /\ inbox[i].channel \in broker.closed
       /\ \A j \in DOMAIN inbox :
            i < j /\ Reply(inbox[j]) => inbox[j].channel # inbox[i].channel
  /\ \A i \in DOMAIN inbox : inbox[i].id = "connection_close" =>
       0 \in broker.closed /\ i = Len(inbox)
  /\ socket = "reset" => 0 \in broker.closed

UnderWay == ReplyIsExpected /\ RequestIsExpected /\ OneUnderWay

\* A connection given up after a timeout may still bring the answer; nothing reads it.
ClientInv ==
  /\ inbox \in Seq(Frame) /\ BrokerShape /\ CallShape
  /\ CloseIsLast
  /\ socket \in {"open", "closed", "reset"}
  /\ socket = "closed" => call.op # "rpc"
  /\ socket # "closed" => UnderWay
  /\ ReplyIsOwn

NothingUnderWay ==
  /\ \A i \in DOMAIN inbox : ~Reply(inbox[i])
  /\ \A k \in DOMAIN broker.requests : ~Awaited(broker.requests[k])

-----------------------------------------------------------------------------
(* Frames leave the inbox from the front. *)

\* What a step of the client does to the inbox.
Shorter ==
  \E k \in 0..Len(inbox) :
    /\ inbox' \in Seq(Frame) /\ Len(inbox') = Len(inbox) - k
    /\ \A i \in 1..Len(inbox') : inbox'[i] = inbox[i + k]

\* Taking no frame or the first one leaves the rest of the inbox.
LEMMA TailIsShorter ==
  ASSUME inbox \in Seq(Frame), inbox' = inbox \/ (inbox # <<>> /\ inbox' = Tail(inbox))
  PROVE  Shorter
<1>1. CASE inbox' = inbox
  <2>1. 0 \in 0..Len(inbox) /\ Len(inbox') = Len(inbox) - 0
    BY <1>1
  <2>2. \A i \in 1..Len(inbox') : inbox'[i] = inbox[i + 0]
    BY <1>1
  <2>3. QED
    BY <1>1, <2>1, <2>2 DEF Shorter
<1>2. CASE inbox # <<>> /\ inbox' = Tail(inbox)
  <2>1. /\ 1 \in 0..Len(inbox) /\ inbox' \in Seq(Frame) /\ Len(inbox') = Len(inbox) - 1
        /\ \A i \in 1..Len(inbox') : inbox'[i] = inbox[i + 1]
    BY <1>2
  <2>2. QED
    BY <2>1 DEF Shorter
<1>3. QED
  BY <1>1, <1>2

\* Where the calls find their frames.
LEMMA FoundInInbox ==
  ASSUME NEW t, t \in FromInbox
  PROVE  inbox # <<>> /\ t.frame = Head(inbox) /\ t.inbox = Tail(inbox)
  BY DEF FromInbox

\* A stored frame costs the inbox nothing.
LEMMA FoundSomewhere ==
  ASSUME NEW c, NEW t, t \in FirstFrame \cup NextOnChannel(c)
  PROVE  t.inbox = inbox \/ (inbox # <<>> /\ t.inbox = Tail(inbox))
<1>1. CASE t \in FromInbox
  BY <1>1, FoundInInbox
<1>2. CASE t \notin FromInbox
  BY <1>2 DEF FirstFrame, NextOnChannel
<1>3. QED
  BY <1>1, <1>2

\* What holds of the frames under way holds of those that are left.
LEMMA LeftAreInOrder ==
  ASSUME inbox \in Seq(Frame), CloseIsLast, Shorter, UNCHANGED <<broker, socket>>
  PROVE  CloseIsLast' /\ (OneUnderWay => OneUnderWay')
<1>1. PICK k \in 0..Len(inbox) :
        /\ inbox' \in Seq(Frame) /\ Len(inbox') = Len(inbox) - k
        /\ \A i \in 1..Len(inbox') : inbox'[i] = inbox[i + k]
  BY DEF Shorter
<1>2. \A i \in DOMAIN inbox' : i \in Nat /\ i + k \in DOMAIN inbox /\ inbox'[i] = inbox[i + k]
  BY <1>1
<1>3. CloseIsLast'
  <2>1. ASSUME NEW i \in DOMAIN inbox', inbox'[i].id = "channel_close"
        PROVE  /\ inbox'[i].channel \in broker'.closed
               /\ \A j \in DOMAIN inbox' :
                    i < j /\ Reply(inbox'[j]) => inbox'[j].channel # inbox'[i].channel
    BY <1>2, <2>1 DEF CloseIsLast
  <2>2. ASSUME NEW i \in DOMAIN inbox', inbox'[i].id = "connection_close"
        PROVE  0 \in broker'.closed /\ i = Len(inbox')
    BY <1>1, <1>2, <2>2 DEF CloseIsLast
  <2>3. socket' = "reset" => 0 \in broker'.closed
    BY DEF CloseIsLast
  <2>4. QED
    BY <2>1, <2>2, <2>3 DEF CloseIsLast, Reply
<1>4. OneUnderWay => OneUnderWay'
  BY <1>2 DEF OneUnderWay, Reply, Awaited, Live
<1>5. QED
  BY <1>3, <1>4

\* A step that only takes frames, of a call that waits for no reply or goes on.
LEMMA TakingStep ==
  ASSUME ClientInv, Shorter, UNCHANGED <<broker, socket, answer>>, BrokerShape', CallShape',
         \/ call' = call
         \/ call.op # "rpc" /\ call'.op # "rpc"
  PROVE  ClientInv'
<1>1. inbox \in Seq(Frame) /\ inbox' \in Seq(Frame)
  BY DEF ClientInv, Shorter
<1>2. CloseIsLast' /\ (OneUnderWay => OneUnderWay')
  BY LeftAreInOrder DEF ClientInv
<1>3. socket' # "closed" => ReplyIsExpected'
  <2>1. \A i \in DOMAIN inbox' : \E j \in DOMAIN inbox : inbox'[i] = inbox[j]
    BY <1>1 DEF Shorter
  <2>2. QED
    BY <2>1 DEF ClientInv, UnderWay, ReplyIsExpected, Reply
<1>4. socket' # "closed" => RequestIsExpected'
  BY DEF ClientInv, UnderWay, RequestIsExpected, Awaited, Live
<1>5. ReplyIsOwn'
  BY DEF ClientInv, ReplyIsOwn
<1>6. socket' \in {"open", "closed", "reset"} /\ (socket' = "closed" => call'.op # "rpc")
  BY DEF ClientInv
<1>7. QED
  BY <1>1, <1>2, <1>3, <1>4, <1>5, <1>6 DEF ClientInv, UnderWay

\* A client that waits for no reply has none to come.
LEMMA IdleMeansNothing ==
  ASSUME ClientInv, socket # "closed", call.op # "rpc" PROVE NothingUnderWay
  BY DEF ClientInv, UnderWay, ReplyIsExpected, RequestIsExpected, NothingUnderWay

\* The end of a call that waits for a reply.
LEMMA EndingStep ==
  ASSUME ClientInv, Shorter, UNCHANGED <<broker, count, socket>>, CallShape', ReplyIsOwn',
         call'.op # "rpc", NothingUnderWay'
  PROVE  ClientInv'
<1>1. CloseIsLast'
  BY LeftAreInOrder DEF ClientInv
<1>2. BrokerShape' /\ inbox' \in Seq(Frame)
  BY DEF ClientInv, BrokerShape, Shorter
<1>3. UnderWay'
  BY DEF NothingUnderWay, UnderWay, ReplyIsExpected, RequestIsExpected, OneUnderWay
<1>4. QED
  BY <1>1, <1>2, <1>3 DEF ClientInv

-----------------------------------------------------------------------------
(* The client. *)

\* The frame that ends the wait leaves nothing under way, whichever of the three it is.
LEMMA RpcFrameStep == ClientInv /\ RpcFrame => ClientInv'
<1> SUFFICES ASSUME ClientInv, RpcFrame PROVE ClientInv'
  OBVIOUS
<1>1. PICK t \in FromInbox :
        IF ~Concerns(t.frame) THEN StoreFrame(t) /\ UNCHANGED <<call, next, answer>>
        ELSE /\ Take(t)
             /\ answer' = [request |-> call.number, reply |-> t.frame.number, kind |-> t.frame.id]
             /\ IF t.frame.id = "get_ok"
                THEN call' = Read(t.frame) /\ UNCHANGED next
                ELSE AfterSetup(call.request, ~IsClose(t.frame))
  BY DEF RpcFrame
<1>2. /\ call.op = "rpc" /\ UNCHANGED <<others, socket, broker, count, messages>>
      /\ inbox \in Seq(Frame) /\ socket # "closed"
  BY DEF RpcFrame, ClientInv
<1>3. inbox # <<>> /\ t.frame = inbox[1] /\ inbox' = Tail(inbox)
  BY <1>1, <1>2, FoundInInbox DEF StoreFrame, Take
<1>4. Shorter
  BY <1>2, <1>3, TailIsShorter
<1>5. CASE ~Concerns(t.frame)
  <2>1. CallShape' /\ BrokerShape' /\ UNCHANGED <<call, answer>>
    BY <1>1, <1>2, <1>5 DEF ClientInv, CallShape, BrokerShape
  <2>2. QED
    BY <1>2, <1>4, <2>1, TakingStep
<1>6. CASE Concerns(t.frame)
  <2> DEFINE f == inbox[1]
  <2>1. f \in Frame /\ 1 \in DOMAIN inbox /\ Len(inbox) \in Nat
    BY <1>2, <1>3
  <2>2. \A i \in DOMAIN inbox' :
          i \in Nat /\ i + 1 \in DOMAIN inbox /\ inbox'[i] = inbox[i + 1] /\ 1 < i + 1
    BY <1>2, <1>3
  <2>3. \/ Reply(f)
        \/ f.id = "channel_close" /\ f.channel = call.channel
        \/ f.id = "connection_close"
    BY <1>2, <1>3, <1>6 DEF Concerns, RepliesTo, Reply, ClientInv, CallShape, Requests
  <2>4. NothingUnderWay'
    <3>1. CASE Reply(f)
      BY <1>2, <2>1, <2>2, <3>1
         DEF ClientInv, UnderWay, OneUnderWay, NothingUnderWay, Reply, Awaited, Live
    <3>2. CASE f.id = "channel_close" /\ f.channel = call.channel
      BY <1>2, <2>1, <2>2, <3>2
         DEF ClientInv, UnderWay, CloseIsLast, ReplyIsExpected, RequestIsExpected,
             NothingUnderWay, Reply, Awaited, Live
    <3>3. CASE f.id = "connection_close"
      <4>1. Len(inbox) = 1 /\ 0 \in broker.closed
        BY <2>1, <3>3 DEF ClientInv, CloseIsLast
      <4>2. DOMAIN inbox' = {}
        BY <1>2, <1>3, <4>1
      <4>3. QED
        BY <1>2, <4>1, <4>2 DEF NothingUnderWay, Awaited, Live
    <3>4. QED
      BY <2>3, <3>1, <3>2, <3>3
  <2>5. call'.op # "rpc" /\ CallShape'
    BY <1>1, <1>2, <1>6 DEF AfterSetup, Read, NoCall, Crashed, ClientInv, CallShape
  <2>6. ReplyIsOwn'
    <3>1. answer' = [request |-> call.number, reply |-> f.number, kind |-> f.id]
      BY <1>1, <1>3, <1>6
    <3>2. Reply(f) /\ f.id # "get_ok" => f.number = call.number
      BY <1>2, <2>1 DEF ClientInv, UnderWay, ReplyIsExpected
    <3>3. QED
      BY <2>3, <3>1, <3>2 DEF ReplyIsOwn
  <2>7. QED
    BY <1>2, <1>4, <2>4, <2>5, <2>6, EndingStep
<1>7. QED
  BY <1>5, <1>6

\* On a connection the broker has closed nothing is answered any more.
LEMMA RpcFailsStep == ClientInv /\ RpcFails => ClientInv'
<1> SUFFICES ASSUME ClientInv, RpcFails PROVE ClientInv'
  OBVIOUS
<1>1. /\ call.op = "rpc" /\ socket = "reset" /\ inbox = <<>>
      /\ UNCHANGED <<inbox, broker, count, socket, answer>>
  BY DEF RpcFails, ClientInv
<1>2. call'.op # "rpc" /\ CallShape'
  BY DEF RpcFails, AfterSetup, NoCall, Crashed, ClientInv, CallShape
<1>3. NothingUnderWay'
  BY <1>1 DEF ClientInv, CloseIsLast, NothingUnderWay, Awaited, Live
<1>4. Shorter /\ ReplyIsOwn'
  BY <1>1, TailIsShorter DEF ClientInv, ReplyIsOwn
<1>5. QED
  BY <1>1, <1>2, <1>3, <1>4, EndingStep

\* What is under way at a timeout stays so, but nothing will wait for it.
LEMMA RpcTimeoutStep == ClientInv /\ RpcTimeout => ClientInv'
<1> SUFFICES ASSUME ClientInv, RpcTimeout PROVE ClientInv'
  OBVIOUS
<1>1. /\ socket' = "closed" /\ call' = NoCall
      /\ UNCHANGED <<inbox, broker, count, next, answer>>
  BY DEF RpcTimeout
<1>2. CallShape' /\ BrokerShape' /\ ReplyIsOwn' /\ call'.op # "rpc"
  BY <1>1 DEF ClientInv, CallShape, BrokerShape, ReplyIsOwn, NoCall
<1>3. CloseIsLast'
  BY <1>1 DEF ClientInv, CloseIsLast, Reply
<1>4. QED
  BY <1>1, <1>2, <1>3 DEF ClientInv

\* A new request, or a message published, behind the requests that are under way.
LEMMA AskingStep ==
  ASSUME ClientInv, socket = "open", call = NoCall, UNCHANGED <<socket, answer>>, Shorter,
         BrokerShape', CallShape', UNCHANGED broker.closed,
         NEW r \in Pending, broker'.requests = Append(broker.requests, r),
         \/ call' = call /\ r.request = "publish"
         \/ call'.op = "rpc" /\ r.channel = call'.channel /\ r.number = call'.number
  PROVE  ClientInv'
<1>1. NothingUnderWay
  BY IdleMeansNothing DEF NoCall
<1>2. \A i \in DOMAIN inbox' : ~Reply(inbox'[i])
  <2>1. inbox \in Seq(Frame) /\ inbox' \in Seq(Frame)
    BY DEF ClientInv, Shorter
  <2>2. PICK k \in 0..Len(inbox) :
          Len(inbox') = Len(inbox) - k /\ \A i \in 1..Len(inbox') : inbox'[i] = inbox[i + k]
    BY DEF Shorter
  <2>3. \A i \in DOMAIN inbox' : i + k \in DOMAIN inbox /\ inbox'[i] = inbox[i + k]
    <3>1. DOMAIN inbox' = 1..Len(inbox') /\ DOMAIN inbox = 1..Len(inbox) /\ Len(inbox) \in Nat
      BY <2>1
    <3>2. \A i \in 1..Len(inbox') : i + k \in 1..Len(inbox)
      BY <2>2, <3>1
    <3>3. QED
      BY <2>2, <3>1, <3>2
  <2>4. QED
    BY <1>1, <2>3 DEF NothingUnderWay, Reply
<1>3. \A k \in DOMAIN broker'.requests :
        \/ k \in DOMAIN broker.requests /\ broker'.requests[k] = broker.requests[k]
        \/ k = Len(broker.requests) + 1 /\ broker'.requests[k] = r
  BY DEF ClientInv, BrokerShape
<1>4. \A k \in DOMAIN broker'.requests : (Awaited(broker.requests[k]))' =>
        k = Len(broker.requests) + 1 /\ broker'.requests[k] = r /\ r.request # "publish"
  BY <1>1, <1>3 DEF NothingUnderWay, Awaited, Live
<1>5. UnderWay'
  BY <1>2, <1>4
     DEF UnderWay, ReplyIsExpected, RequestIsExpected, OneUnderWay, Awaited, Reply, Live
<1>6. CloseIsLast'
  <2>1. \A i \in DOMAIN inbox' : ~Reply(inbox'[i])
    BY <1>2
  <2>2. PICK k \in 0..Len(inbox) :
          /\ inbox' \in Seq(Frame) /\ Len(inbox') = Len(inbox) - k
          /\ \A i \in 1..Len(inbox') : inbox'[i] = inbox[i + k]
    BY DEF Shorter
  <2>3. \A i \in DOMAIN inbox' : i \in Nat /\ i + k \in DOMAIN inbox /\ inbox'[i] = inbox[i + k]
    BY <2>2 DEF ClientInv
  <2>4. QED
    BY <2>1, <2>2, <2>3 DEF CloseIsLast, ClientInv, Reply
<1>7. ReplyIsOwn' /\ inbox' \in Seq(Frame)
  BY DEF ClientInv, ReplyIsOwn, Shorter
<1>8. QED
  BY <1>5, <1>6, <1>7 DEF ClientInv

\* A request joins those under way.
LEMMA AppendedRequest ==
  ASSUME BrokerShape, NEW r \in Pending, count' = [count EXCEPT !.requests = @ + 1],
         broker' = [broker EXCEPT !.requests = Append(@, r)]
  PROVE  /\ broker'.requests = Append(broker.requests, r) /\ UNCHANGED broker.closed
         /\ BrokerShape'
<1>1. count' \in [messages : Nat, requests : Nat, heartbeats : Nat]
  BY DEF BrokerShape
<1>2. broker' = [requests |-> Append(broker.requests, r), consuming |-> broker.consuming,
                 closed |-> broker.closed, sending |-> broker.sending]
  BY DEF BrokerShape
<1>3. /\ broker'.requests = Append(broker.requests, r) /\ UNCHANGED broker.closed
      /\ UNCHANGED <<broker.consuming, broker.sending>>
  BY <1>2
<1>4. Append(broker.requests, r) \in Seq(Pending)
  BY DEF BrokerShape
<1>5. QED
  BY <1>1, <1>2, <1>3, <1>4 DEF BrokerShape

\* A request is made by an idle client.
LEMMA RequestStep ==
  ASSUME ClientInv, NEW c \in Channels, NEW request \in Requests, Request(c, request)
  PROVE  ClientInv'
<1>1. /\ call = NoCall /\ UNCHANGED <<inbox, socket, answer>>
      /\ count' = [count EXCEPT !.requests = @ + 1]
  BY DEF Request
<1>2. Shorter
  BY <1>1, TailIsShorter DEF ClientInv
<1>3. CASE socket # "open"
  <2>1. UNCHANGED broker /\ AfterSetup(request, FALSE)
    BY <1>3 DEF Request
  <2>2. call.op # "rpc" /\ call'.op # "rpc" /\ CallShape'
    BY <1>1, <2>1 DEF AfterSetup, NoCall, Crashed, ClientInv, CallShape
  <2>3. BrokerShape'
    BY <1>1, <2>1 DEF ClientInv, BrokerShape
  <2>4. QED
    BY <1>1, <1>2, <2>1, <2>2, <2>3, TakingStep
<1>4. CASE socket = "open"
  <2> DEFINE r == [channel |-> c, request |-> request, number |-> count.requests + 1]
  <2>1. /\ broker' = [broker EXCEPT !.requests = Append(@, r)]
        /\ call' = [op |-> "rpc", channel |-> c, request |-> request, number |-> r.number]
        /\ UNCHANGED next
    BY <1>4 DEF Request
  <2>2. /\ r \in Pending /\ call'.op = "rpc"
        /\ r.channel = call'.channel /\ r.number = call'.number
    BY <2>1 DEF ClientInv, BrokerShape, Pending
  <2>3. CallShape'
    BY <2>1 DEF ClientInv, CallShape
  <2> HIDE DEF r
  <2>4. /\ broker'.requests = Append(broker.requests, r) /\ UNCHANGED broker.closed
        /\ BrokerShape'
    BY <1>1, <2>1, <2>2, AppendedRequest DEF ClientInv
  <2>5. QED
    BY <1>1, <1>2, <1>4, <2>2, <2>3, <2>4, AskingStep
<1>5. QED
  BY <1>3, <1>4

\* A message is published by an idle client and answered by nobody.
LEMMA PublishStep ==
  ASSUME ClientInv, NEW c \in Channels, Publish(c)
  PROVE  ClientInv'
<1> DEFINE r == [channel |-> c, request |-> "publish", number |-> count.requests + 1]
<1>1. /\ call = NoCall /\ socket = "open" /\ UNCHANGED <<call, next, socket, answer>>
      /\ count' = [count EXCEPT !.requests = @ + 1]
      /\ broker' = [broker EXCEPT !.requests = Append(@, r)]
  BY DEF Publish
<1>2. PICK k \in 0..Len(inbox) : inbox' = SubSeq(inbox, k + 1, Len(inbox))
  BY DEF Publish
<1>3. Shorter
  <2>1. /\ inbox' \in Seq(Frame) /\ Len(inbox') = Len(inbox) - k
        /\ \A i \in 1..Len(inbox') : inbox'[i] = inbox[i + k]
    BY <1>2 DEF ClientInv
  <2>2. QED
    BY <2>1 DEF Shorter
<1>4. r \in Pending
  BY DEF ClientInv, BrokerShape, Pending
<1>5. r.request = "publish"
  OBVIOUS
<1> HIDE DEF r
<1>6. /\ broker'.requests = Append(broker.requests, r) /\ UNCHANGED broker.closed
      /\ BrokerShape' /\ CallShape'
  BY <1>1, <1>4, AppendedRequest DEF ClientInv, CallShape
<1>7. QED
  BY <1>1, <1>3, <1>4, <1>5, <1>6, AskingStep

\* The calls that take messages.
Receives ==
  \/ SkipHeartbeat \/ StartConsume \/ ConsumeFrame \/ ConsumeTimeout
  \/ ReadHeader \/ ReadBody \/ StoreOther \/ MessageFails

\* The calls that take messages wait for no reply.
LEMMA ReceivingStep == ClientInv /\ Receives => ClientInv'
<1> SUFFICES ASSUME ClientInv, Receives PROVE ClientInv'
  OBVIOUS
<1> USE DEF Take, PutBack, StoreFrame, Fail, NoCall, Stopped
<1>1. UNCHANGED <<broker, socket, count, answer, next>>
  BY DEF Receives, SkipHeartbeat, StartConsume, ConsumeFrame, ConsumeTimeout, ReadHeader,
         ReadBody, StoreOther, MessageFails
<1>2. inbox' = inbox \/ (inbox # <<>> /\ inbox' = Tail(inbox))
  <2>1. CASE SkipHeartbeat \/ StartConsume \/ ConsumeTimeout \/ MessageFails
    BY <2>1 DEF SkipHeartbeat, StartConsume, ConsumeTimeout, MessageFails
  <2>2. CASE ConsumeFrame
    <3>1. PICK t \in FirstFrame : inbox' = t.inbox
      BY <2>2 DEF ConsumeFrame
    <3>2. QED
      BY <3>1, FoundSomewhere
  <2>3. CASE ReadHeader \/ ReadBody
    <3>1. PICK t \in NextOnChannel(call.channel) : inbox' = t.inbox
      BY <2>3 DEF ReadHeader, ReadBody
    <3>2. QED
      BY <3>1, FoundSomewhere
  <2>4. CASE StoreOther
    <3>1. PICK t \in FromInbox : inbox' = t.inbox
      BY <2>4 DEF StoreOther
    <3>2. QED
      BY <3>1, FoundInInbox
  <2>5. QED
    BY <2>1, <2>2, <2>3, <2>4 DEF Receives
<1>3. /\ \/ call' = call
         \/ call.op # "rpc" /\ call'.op # "rpc"
      /\ CallShape'
  <2>1. CASE UNCHANGED call
    BY <1>1, <2>1 DEF ClientInv, CallShape
  <2>2. CASE StartConsume \/ ConsumeTimeout \/ MessageFails
    BY <1>1, <2>2 DEF StartConsume, ConsumeTimeout, MessageFails, ClientInv, CallShape
  <2>3. CASE ConsumeFrame
    BY <1>1, <2>3 DEF ConsumeFrame, Read, ClientInv, CallShape
  <2>4. CASE ReadHeader
    <3>1. PICK t : \/ GoOnReading([call EXCEPT !.header = t.frame.number, !.size = t.frame.size])
                   \/ Fail
      BY <2>4 DEF ReadHeader
    <3> DEFINE n == t.frame.number
               m == t.frame.size
    <3>2. /\ call.op = "read"
          /\ \/ call' = [call EXCEPT !.header = n, !.size = m]
             \/ call' = NoCall \/ call' = Stopped
      BY <2>4, <3>1 DEF ReadHeader, GoOnReading
    <3> HIDE DEF n, m
    <3>3. CASE call' = [call EXCEPT !.header = n, !.size = m]
      <4>1. call' = [op |-> "read", by |-> call.by, channel |-> call.channel, of |-> call.of,
                     header |-> n, size |-> m, body |-> call.body]
        BY <3>2, <3>3 DEF ClientInv, CallShape
      <4>2. QED
        BY <1>1, <3>2, <4>1 DEF ClientInv, CallShape
    <3>4. QED
      BY <1>1, <3>2, <3>3 DEF ClientInv, CallShape
  <2>5. CASE ReadBody
    <3>1. PICK t : GoOnReading([call EXCEPT !.body = Append(@, t.frame)]) \/ Fail
      BY <2>5 DEF ReadBody
    <3>2. QED
      BY <1>1, <2>5, <3>1 DEF ReadBody, GoOnReading, ClientInv, CallShape
  <2>6. QED
    BY <2>1, <2>2, <2>3, <2>4, <2>5 DEF Receives, SkipHeartbeat, StoreOther
<1>4. Shorter /\ BrokerShape'
  BY <1>1, <1>2, TailIsShorter DEF ClientInv, BrokerShape
<1>5. QED
  BY <1>1, <1>3, <1>4, TakingStep

-----------------------------------------------------------------------------
(* The broker. *)

\* A frame the broker sends comes behind those under way.
LEMMA SentFrame ==
  ASSUME ClientInv, NEW f \in Frame, Sends(<<f>>)
  PROVE  /\ inbox' \in Seq(Frame) /\ Len(inbox') = Len(inbox) + 1 /\ Len(inbox) \in Nat
         /\ \A i \in DOMAIN inbox' :
              \/ i \in DOMAIN inbox /\ i <= Len(inbox) /\ inbox'[i] = inbox[i]
              \/ i = Len(inbox) + 1 /\ inbox'[i] = f
         /\ UNCHANGED <<call, next, socket, answer>> /\ CallShape' /\ ReplyIsOwn'
<1>1. inbox \in Seq(Frame) /\ inbox' = inbox \o <<f>>
  BY DEF ClientInv, Sends
<1>2. UNCHANGED <<call, next, socket, answer>>
  BY DEF Sends
<1>3. CallShape' /\ ReplyIsOwn'
  BY <1>2 DEF ClientInv, CallShape, ReplyIsOwn
<1>4. <<f>> \in Seq(Frame) /\ Len(<<f>>) = 1 /\ <<f>>[1] = f
  OBVIOUS
<1>5. inbox' \in Seq(Frame) /\ Len(inbox') = Len(inbox) + 1 /\ Len(inbox) \in Nat
  BY <1>1, <1>4
<1>6. \A i \in 1..Len(inbox') :
        inbox'[i] = IF i <= Len(inbox) THEN inbox[i] ELSE <<f>>[i - Len(inbox)]
  BY <1>1, <1>4, <1>5
<1>7. QED
  BY <1>2, <1>3, <1>4, <1>5, <1>6

\* A frame is sent before the close of its channel and of the connection.
LEMMA SentInOrder ==
  ASSUME ClientInv, NEW f \in Frame, Sends(<<f>>), 0 \notin broker.closed,
         broker.closed \subseteq broker'.closed,
         Reply(f) => f.channel \notin broker.closed,
         f.id = "channel_close" => f.channel \in broker'.closed,
         f.id = "connection_close" => 0 \in broker'.closed
  PROVE  CloseIsLast'
<1>1. CloseIsLast /\ \A i \in DOMAIN inbox : inbox[i].id # "connection_close"
  BY DEF ClientInv, CloseIsLast
<1>2. ASSUME NEW i \in DOMAIN inbox', inbox'[i].id = "channel_close"
      PROVE  /\ inbox'[i].channel \in broker'.closed
             /\ \A j \in DOMAIN inbox' :
                  i < j /\ Reply(inbox'[j]) => inbox'[j].channel # inbox'[i].channel
  <2>1. CASE i \in DOMAIN inbox /\ inbox'[i] = inbox[i]
    BY <1>1, <1>2, <2>1, SentFrame DEF CloseIsLast
  <2>2. CASE i = Len(inbox) + 1 /\ inbox'[i] = f
    <3>1. \A j \in DOMAIN inbox' : ~(i < j)
      BY <2>2, SentFrame
    <3>2. QED
      BY <1>2, <2>2, <3>1
  <2>3. QED
    BY <2>1, <2>2, SentFrame
<1>3. ASSUME NEW i \in DOMAIN inbox', inbox'[i].id = "connection_close"
      PROVE  0 \in broker'.closed /\ i = Len(inbox')
  BY <1>1, <1>3, SentFrame
<1>4. socket' = "reset" => 0 \in broker'.closed
  BY <1>1, SentFrame DEF CloseIsLast
<1>5. QED
  BY <1>2, <1>3, <1>4 DEF CloseIsLast, Reply

\* A frame that answers nothing: content, a heartbeat, a delivery, a close.
LEMMA OtherFrameStep ==
  ASSUME ClientInv, NEW f \in Frame, Sends(<<f>>), ~Reply(f), BrokerShape', CloseIsLast',
         broker.closed \subseteq broker'.closed,
         \/ broker'.requests = broker.requests
         \/ broker.requests # <<>> /\ broker'.requests = Tail(broker.requests)
  PROVE  ClientInv'
<1>1. \A i \in DOMAIN inbox' : Reply(inbox'[i]) => i \in DOMAIN inbox /\ inbox'[i] = inbox[i]
  BY SentFrame
<1>2. PICK d \in {0, 1} :
        \A k \in DOMAIN broker'.requests :
          /\ k \in Nat /\ k + d \in DOMAIN broker.requests
          /\ broker'.requests[k] = broker.requests[k + d]
  <2>1. broker.requests \in Seq(Pending)
    BY DEF ClientInv, BrokerShape
  <2>2. CASE broker'.requests = broker.requests
    BY <2>1, <2>2
  <2>3. CASE broker.requests # <<>> /\ broker'.requests = Tail(broker.requests)
    BY <2>1, <2>3
  <2>4. QED
    BY <2>2, <2>3
<1>3. \A k \in DOMAIN broker'.requests :
        (Awaited(broker.requests[k]))' => Awaited(broker.requests[k + d])
  BY <1>2 DEF Awaited, Live
<1>4. UNCHANGED <<call, socket>>
  BY SentFrame
<1>5. socket # "closed" => ReplyIsExpected'
  BY <1>1, <1>4 DEF ClientInv, UnderWay, ReplyIsExpected, Reply
<1>6. socket # "closed" => RequestIsExpected'
  BY <1>2, <1>3, <1>4 DEF ClientInv, UnderWay, RequestIsExpected
<1>7. socket # "closed" => OneUnderWay'
  BY <1>1, <1>2, <1>3 DEF ClientInv, UnderWay, OneUnderWay, Reply
<1>8. QED
  BY <1>4, <1>5, <1>6, <1>7, SentFrame DEF ClientInv, UnderWay

\* The answer to the first request, which is then no longer under way.
LEMMA AnsweringStep ==
  ASSUME ClientInv, NEW f \in Frame, Sends(<<f>>), Reply(f), BrokerShape',
         UNCHANGED broker.closed,
         broker.requests # <<>>, broker'.requests = Tail(broker.requests),
         Awaited(Head(broker.requests)), f.channel = Head(broker.requests).channel,
         f.id # "get_ok" => f.number = Head(broker.requests).number
  PROVE  ClientInv'
<1>1. 1 \in DOMAIN broker.requests /\ Head(broker.requests) = broker.requests[1]
  BY DEF ClientInv, BrokerShape
<1>2. \A k \in DOMAIN broker'.requests :
        /\ k + 1 \in DOMAIN broker.requests /\ k + 1 # 1
        /\ broker'.requests[k] = broker.requests[k + 1]
  BY DEF ClientInv, BrokerShape
<1>3. CloseIsLast'
  BY SentInOrder DEF Awaited, Live, Reply
<1>4. socket # "closed" => UnderWay'
  <2>1. SUFFICES ASSUME socket # "closed" PROVE UnderWay'
    OBVIOUS
  <2>2. /\ \A i \in DOMAIN inbox : ~Reply(inbox[i])
        /\ \A k \in DOMAIN broker.requests : Awaited(broker.requests[k]) => k = 1
        /\ call.op = "rpc" /\ f.channel = call.channel
        /\ f.id # "get_ok" => f.number = call.number
    BY <1>1, <2>1 DEF ClientInv, UnderWay, OneUnderWay, RequestIsExpected
  <2>3. \A k \in DOMAIN broker'.requests : ~(Awaited(broker.requests[k]))'
    BY <1>2, <2>2 DEF Awaited, Live
  <2>4. \A i \in DOMAIN inbox' : Reply(inbox'[i]) => i = Len(inbox) + 1 /\ inbox'[i] = f
    BY <2>2, SentFrame
  <2>5. UNCHANGED call
    BY SentFrame
  <2>6. QED
    BY <2>2, <2>3, <2>4, <2>5
       DEF UnderWay, ReplyIsExpected, RequestIsExpected, OneUnderWay, Reply
<1>5. QED
  BY <1>3, <1>4, SentFrame DEF ClientInv

\* The content of a message is a sequence of frames.
LEMMA ContentIsFrames ==
  ASSUME NEW c \in Channels, NEW n \in Nat, NEW size \in Sizes, NEW copies \in BOOLEAN
  PROVE  Content(c, n, size, copies) \in Seq(HeaderFrame \cup BodyFrame)
<1>1. size \in Nat
  BY NumbersAssumption
<1>2. Header(c, n, size, copies) \in HeaderFrame
  BY <1>1 DEF Header, HeaderFrame
<1>3. \A i \in 1..size : Body(c, n, i) \in BodyFrame
  BY <1>1 DEF Body, BodyFrame
<1>4. [i \in 1..size |-> Body(c, n, i)] \in Seq(HeaderFrame \cup BodyFrame)
  BY <1>1, <1>3
<1>5. <<Header(c, n, size, copies)>> \in Seq(HeaderFrame \cup BodyFrame)
  BY <1>2
<1>6. QED
  BY <1>4, <1>5 DEF Content

\* No frame of a content answers a request.
LEMMA ContentIsNoReply == \A f \in HeaderFrame \cup BodyFrame :
  f \in Frame /\ ~Reply(f) /\ f.id \notin {"channel_close", "connection_close"}
  BY DEF HeaderFrame, BodyFrame, Frame, Reply

\* The method of a message is one frame; its content stays with the broker.
LEMMA StartingMessage ==
  ASSUME ClientInv, NEW c \in Channels, NEW id \in {"get_ok", "deliver"},
         NEW requests \in Seq(Pending), StartMessage(c, id, requests)
  PROVE  /\ BrokerShape' /\ broker'.requests = requests /\ UNCHANGED broker.closed
         /\ \E f \in Frame : f.type = "METHOD" /\ f.channel = c /\ f.id = id /\ Sends(<<f>>)
<1> DEFINE n == count.messages + 1
           f == Method(c, id, n)
<1>1. n \in Nat /\ count' = [count EXCEPT !.messages = n] /\ Sends(<<f>>)
  BY DEF StartMessage, ClientInv, BrokerShape
<1>2. PICK size \in Sizes, copies \in BOOLEAN :
        broker' = [broker EXCEPT !.sending[c] = Content(c, n, size, copies), !.requests = requests]
  BY DEF StartMessage
<1>3. f \in Frame /\ f.type = "METHOD" /\ f.channel = c /\ f.id = id
  BY <1>1 DEF Method, Frame, MethodFrame
<1>4. Content(c, n, size, copies) \in Seq(HeaderFrame \cup BodyFrame)
  BY <1>1, ContentIsFrames
<1>5. count' \in [messages : Nat, requests : Nat, heartbeats : Nat]
  BY <1>1 DEF ClientInv, BrokerShape
<1> HIDE DEF n, f
<1>6. broker' = [requests |-> requests, consuming |-> broker.consuming,
                 closed |-> broker.closed,
                 sending |-> [broker.sending EXCEPT ![c] = Content(c, n, size, copies)]]
  BY <1>2 DEF ClientInv, BrokerShape
<1>7. [broker.sending EXCEPT ![c] = Content(c, n, size, copies)]
        \in [Channels -> Seq(HeaderFrame \cup BodyFrame)]
  BY <1>4 DEF ClientInv, BrokerShape
<1>8. BrokerShape' /\ broker'.requests = requests /\ UNCHANGED broker.closed
  BY <1>5, <1>6, <1>7 DEF BrokerShape
<1>9. QED
  BY <1>1, <1>3, <1>8

\* A delivery answers nothing.
LEMMA DeliverStep ==
  ASSUME ClientInv, NEW c \in Channels, Deliver(c) PROVE ClientInv'
<1>1. broker.requests \in Seq(Pending) /\ Live(c) /\ StartMessage(c, "deliver", broker.requests)
  BY DEF Deliver, ClientInv, BrokerShape
<1>2. /\ BrokerShape' /\ UNCHANGED <<broker.requests, broker.closed>>
      /\ \E f \in Frame : f.type = "METHOD" /\ f.channel = c /\ f.id = "deliver" /\ Sends(<<f>>)
  BY <1>1, StartingMessage
<1>3. PICK f \in Frame : f.type = "METHOD" /\ f.channel = c /\ f.id = "deliver" /\ Sends(<<f>>)
  BY <1>2
<1>4. CloseIsLast'
  BY <1>1, <1>2, <1>3, SentInOrder DEF Live, Reply
<1>5. QED
  BY <1>2, <1>3, <1>4, OtherFrameStep DEF Reply

\* A frame of a content answers nothing.
LEMMA SendContentStep ==
  ASSUME ClientInv, NEW c \in Channels, SendContent(c) PROVE ClientInv'
<1> DEFINE f == Head(broker.sending[c])
           rest == Tail(broker.sending[c])
<1>1. /\ 0 \notin broker.closed /\ Sends(<<f>>) /\ UNCHANGED count
      /\ broker' = [broker EXCEPT !.sending[c] = rest]
  BY DEF SendContent
<1>2. f \in HeaderFrame \cup BodyFrame /\ rest \in Seq(HeaderFrame \cup BodyFrame)
  BY DEF SendContent, ClientInv, BrokerShape
<1> HIDE DEF f, rest
<1>3. broker' = [requests |-> broker.requests, consuming |-> broker.consuming,
                 closed |-> broker.closed, sending |-> [broker.sending EXCEPT ![c] = rest]]
  BY <1>1 DEF ClientInv, BrokerShape
<1>4. [broker.sending EXCEPT ![c] = rest] \in [Channels -> Seq(HeaderFrame \cup BodyFrame)]
  BY <1>2 DEF ClientInv, BrokerShape
<1>5. BrokerShape' /\ UNCHANGED <<broker.requests, broker.closed>>
  BY <1>1, <1>3, <1>4 DEF ClientInv, BrokerShape
<1>6. CloseIsLast'
  BY <1>1, <1>2, <1>5, ContentIsNoReply, SentInOrder
<1>7. QED
  BY <1>1, <1>2, <1>5, <1>6, ContentIsNoReply, OtherFrameStep

\* A heartbeat answers nothing.
LEMMA SendHeartbeatStep == ClientInv /\ SendHeartbeat => ClientInv'
<1> SUFFICES ASSUME ClientInv, SendHeartbeat PROVE ClientInv'
  OBVIOUS
<1>1. /\ 0 \notin broker.closed /\ Sends(<<Heartbeat>>) /\ UNCHANGED broker
      /\ count' = [count EXCEPT !.heartbeats = @ + 1]
  BY DEF SendHeartbeat
<1>2. /\ Heartbeat \in Frame /\ ~Reply(Heartbeat)
      /\ Heartbeat.id \notin {"channel_close", "connection_close"}
  BY DEF Frame, Heartbeat, Reply
<1>3. BrokerShape'
  BY <1>1 DEF ClientInv, BrokerShape
<1>4. CloseIsLast'
  BY <1>1, <1>2, SentInOrder
<1>5. QED
  BY <1>1, <1>2, <1>3, <1>4, OtherFrameStep

\* The close of the connection leaves no request to be answered.
LEMMA CloseConnectionStep == ClientInv /\ CloseConnection => ClientInv'
<1> SUFFICES ASSUME ClientInv, CloseConnection PROVE ClientInv'
  OBVIOUS
<1> DEFINE f == Method(0, "connection_close", 0)
<1>1. /\ 0 \notin broker.closed /\ Sends(<<f>>) /\ UNCHANGED count
      /\ broker' = [broker EXCEPT !.closed = @ \cup {0}]
  BY DEF CloseConnection
<1>2. f \in Frame /\ f.id = "connection_close" /\ ~Reply(f)
  BY DEF Method, Frame, ConnectionClose, Reply
<1> HIDE DEF f
<1>3. broker' = [requests |-> broker.requests, consuming |-> broker.consuming,
                 closed |-> broker.closed \cup {0}, sending |-> broker.sending]
  BY <1>1 DEF ClientInv, BrokerShape
<1>4. BrokerShape' /\ UNCHANGED broker.requests /\ broker'.closed = broker.closed \cup {0}
  BY <1>1, <1>3 DEF ClientInv, BrokerShape
<1>5. CloseIsLast'
  BY <1>1, <1>2, <1>4, SentInOrder
<1>6. QED
  BY <1>1, <1>2, <1>4, <1>5, OtherFrameStep

\* The broker drops connections it has closed.
LEMMA CloseSocketStep == ClientInv /\ CloseSocket => ClientInv'
<1> SUFFICES ASSUME ClientInv, CloseSocket PROVE ClientInv'
  OBVIOUS
<1>1. /\ 0 \in broker.closed /\ socket = "open" /\ socket' = "reset"
      /\ UNCHANGED <<inbox, call, next, broker, count, answer>>
  BY DEF CloseSocket
<1>2. BrokerShape' /\ CallShape' /\ ReplyIsOwn'
  BY <1>1 DEF ClientInv, BrokerShape, CallShape, ReplyIsOwn
<1>3. CloseIsLast'
  BY <1>1 DEF ClientInv, CloseIsLast, Reply
<1>4. UnderWay'
  BY <1>1 DEF ClientInv, UnderWay, ReplyIsExpected, RequestIsExpected, OneUnderWay, Reply,
              Awaited, Live
<1>5. QED
  BY <1>1, <1>2, <1>3, <1>4 DEF ClientInv

\* A request leaves those under way.
LEMMA TakenRequest ==
  ASSUME BrokerShape, NEW rest \in Seq(Pending), UNCHANGED count,
         broker' = [broker EXCEPT !.requests = rest]
  PROVE  BrokerShape' /\ broker'.requests = rest /\ UNCHANGED broker.closed
<1>1. broker' = [requests |-> rest, consuming |-> broker.consuming,
                 closed |-> broker.closed, sending |-> broker.sending]
  BY DEF BrokerShape
<1>2. QED
  BY <1>1 DEF BrokerShape

\* The broker answers a request, refuses it or drops it.
LEMMA AnswerStep == ClientInv /\ Answer => ClientInv'
<1> SUFFICES ASSUME ClientInv, Answer PROVE ClientInv'
  OBVIOUS
<1> DEFINE r == Head(broker.requests)
           rest == Tail(broker.requests)
<1>1. broker.requests # <<>> /\ broker.requests \in Seq(Pending)
  BY DEF Answer, ClientInv, BrokerShape
<1>2. rest \in Seq(Pending) /\ r \in Pending
  BY <1>1
<1>3. /\ r.channel \in Channels /\ r.number \in Nat /\ r.channel # 0
      /\ r.request \in Requests \cup {"publish"}
  BY <1>2, NumbersAssumption DEF Pending
<1>4. ASSUME Live(r.channel), r.request \notin {"publish", "basic_get"},
             Sends(<<Method(r.channel, r.request, r.number)>>), UNCHANGED count,
             broker' = [broker EXCEPT !.requests = rest,
               !.consuming = IF r.request = "basic_consume" THEN @ \cup {r.channel} ELSE @]
      PROVE  ClientInv'
  <2> DEFINE f == Method(r.channel, r.request, r.number)
             consuming == IF r.request = "basic_consume" THEN broker.consuming \cup {r.channel}
                          ELSE broker.consuming
  <2>1. /\ f \in Frame /\ Reply(f) /\ f.channel = r.channel /\ f.number = r.number
        /\ Sends(<<f>>) /\ Awaited(r)
    BY <1>3, <1>4 DEF Method, Frame, MethodFrame, Reply, Requests, Awaited
  <2>2. broker' = [requests |-> rest, consuming |-> consuming,
                   closed |-> broker.closed, sending |-> broker.sending]
    BY <1>4 DEF ClientInv, BrokerShape
  <2> HIDE DEF f, consuming
  <2>3. BrokerShape' /\ broker'.requests = rest /\ UNCHANGED broker.closed
    BY <1>2, <1>4, <2>2 DEF ClientInv, BrokerShape
  <2>4. QED
    BY <1>1, <2>1, <2>3, AnsweringStep
<1>5. ASSUME Live(r.channel), r.request = "basic_get", StartMessage(r.channel, "get_ok", rest)
      PROVE  ClientInv'
  <2>1. /\ BrokerShape' /\ broker'.requests = rest /\ UNCHANGED broker.closed
        /\ \E f \in Frame :
             f.type = "METHOD" /\ f.channel = r.channel /\ f.id = "get_ok" /\ Sends(<<f>>)
    BY <1>2, <1>3, <1>5, StartingMessage
  <2>2. PICK f \in Frame :
          f.type = "METHOD" /\ f.channel = r.channel /\ f.id = "get_ok" /\ Sends(<<f>>)
    BY <2>1
  <2>3. Reply(f) /\ Awaited(r)
    BY <1>5, <2>2 DEF Reply, Awaited
  <2>4. QED
    BY <1>1, <2>1, <2>2, <2>3, AnsweringStep
<1>6. ASSUME Live(r.channel), r.request = "basic_get", UNCHANGED count,
             Sends(<<Method(r.channel, "get_empty", r.number)>>),
             broker' = [broker EXCEPT !.requests = rest]
      PROVE  ClientInv'
  <2> DEFINE f == Method(r.channel, "get_empty", r.number)
  <2>1. /\ f \in Frame /\ Reply(f) /\ f.channel = r.channel /\ f.number = r.number
        /\ Sends(<<f>>) /\ Awaited(r)
    BY <1>3, <1>6 DEF Method, Frame, MethodFrame, Reply, Awaited
  <2> HIDE DEF f
  <2>2. BrokerShape' /\ broker'.requests = rest /\ UNCHANGED broker.closed
    BY <1>2, <1>6, TakenRequest DEF ClientInv
  <2>3. QED
    BY <1>1, <2>1, <2>2, AnsweringStep
<1>7. ASSUME Live(r.channel), UNCHANGED count,
             Sends(<<Method(r.channel, "channel_close", r.number)>>),
             broker' = [broker EXCEPT !.requests = rest, !.closed = @ \cup {r.channel}]
      PROVE  ClientInv'
  <2> DEFINE f == Method(r.channel, "channel_close", r.number)
  <2>1. /\ f \in Frame /\ f.id = "channel_close" /\ ~Reply(f) /\ f.channel = r.channel
        /\ Sends(<<f>>) /\ 0 \notin broker.closed
    BY <1>3, <1>7 DEF Method, Frame, MethodFrame, Reply, Live
  <2> HIDE DEF f
  <2>2. broker' = [requests |-> rest, consuming |-> broker.consuming,
                   closed |-> broker.closed \cup {r.channel}, sending |-> broker.sending]
    BY <1>7 DEF ClientInv, BrokerShape
  <2>3. /\ BrokerShape' /\ broker'.requests = rest
        /\ broker'.closed = broker.closed \cup {r.channel}
    BY <1>2, <1>7, <2>2 DEF ClientInv, BrokerShape
  <2>4. CloseIsLast'
    BY <2>1, <2>3, SentInOrder
  <2>5. QED
    BY <1>1, <2>1, <2>3, <2>4, OtherFrameStep
<1>8. ASSUME ~Live(r.channel) \/ r.request = "publish", Sends(<<>>), UNCHANGED count,
             broker' = [broker EXCEPT !.requests = rest]
      PROVE  ClientInv'
  <2>1. UNCHANGED <<inbox, call, next, socket, answer>>
    BY <1>8 DEF Sends, ClientInv
  <2>2. BrokerShape' /\ broker'.requests = rest /\ UNCHANGED broker.closed
    BY <1>2, <1>8, TakenRequest DEF ClientInv
  <2>3. CallShape' /\ ReplyIsOwn'
    BY <2>1 DEF ClientInv, CallShape, ReplyIsOwn
  <2>4. CloseIsLast'
    BY <2>1, <2>2 DEF ClientInv, CloseIsLast, Reply
  <2>5. \A k \in DOMAIN broker'.requests :
          /\ k \in Nat /\ k + 1 \in DOMAIN broker.requests
          /\ broker'.requests[k] = broker.requests[k + 1]
    BY <1>1, <2>2
  <2>6. \A k \in DOMAIN broker'.requests :
          (Awaited(broker.requests[k]))' => Awaited(broker.requests[k + 1])
    BY <2>2, <2>5 DEF Awaited, Live
  <2>7. socket # "closed" => ReplyIsExpected' /\ RequestIsExpected'
    BY <2>1, <2>5, <2>6 DEF ClientInv, UnderWay, ReplyIsExpected, RequestIsExpected, Reply
  <2>8. socket # "closed" => OneUnderWay'
    BY <2>1, <2>5, <2>6 DEF ClientInv, UnderWay, OneUnderWay, Reply
  <2>9. QED
    BY <2>1, <2>2, <2>3, <2>4, <2>7, <2>8 DEF ClientInv, UnderWay
<1>9. QED
  BY <1>4, <1>5, <1>6, <1>7, <1>8 DEF Answer

-----------------------------------------------------------------------------
(* The theorems. *)

\* Every step keeps the invariant.
LEMMA ClientInvStep == ClientInv /\ [Next]_vars => ClientInv'
<1> SUFFICES ASSUME ClientInv, [Next]_vars PROVE ClientInv'
  OBVIOUS
<1>1. CASE Listen
  <2>1. next \in 1..4 /\ 1 \in Channels /\ Request(1, Setup[next])
    BY <1>1, ListenerChannel DEF Listen, Setup, ClientInv, CallShape
  <2>2. Setup[next] \in Requests
    BY <2>1 DEF Setup, Requests
  <2>3. QED
    BY <2>1, <2>2, RequestStep
<1>2. ASSUME NEW c \in Channels, Ask(c) PROVE ClientInv'
  <2>1. PICK request \in {"queue_declare", "basic_get"} : Request(c, request)
    BY <1>2 DEF Ask
  <2>2. request \in Requests
    BY DEF Requests
  <2>3. QED
    BY <2>1, <2>2, RequestStep
<1>3. CASE UNCHANGED vars
  BY <1>3 DEF vars, ClientInv, BrokerShape, CallShape, CloseIsLast, UnderWay, ReplyIsExpected,
              RequestIsExpected, OneUnderWay, ReplyIsOwn, Reply, Awaited, Live
<1>4. CASE Client
  BY <1>1, <1>2, <1>4, RpcFrameStep, RpcFailsStep, RpcTimeoutStep, PublishStep, ReceivingStep
     DEF Client, Works, Receives
<1>5. CASE Broker
  BY <1>5, AnswerStep, SendHeartbeatStep, CloseConnectionStep, CloseSocketStep, DeliverStep,
     SendContentStep DEF Broker
<1>6. QED
  BY <1>3, <1>4, <1>5 DEF Next, Ended

\* At most one request that is answered, or its answer, is under way, and it belongs to
\* the call in progress (amqp_simple_rpc waits before it sends another).
THEOREM ClientInvariance == Spec => []ClientInv
<1>1. Init => ClientInv
  BY DEF Init, ClientInv, BrokerShape, CallShape, CloseIsLast, UnderWay, ReplyIsExpected,
         RequestIsExpected, OneUnderWay, ReplyIsOwn, NoCall
<1>2. QED
  BY <1>1, ClientInvStep, PTL DEF Spec

\* A reply is returned for the request it answers, whatever times out, is refused, closed
\* or stored in between (simple_rpc_inner), on any number of channels.
THEOREM RepliesAreOwn == Spec => []ReplyIsOwn
<1>1. ClientInv => ReplyIsOwn
  BY DEF ClientInv
<1>2. QED
  BY <1>1, ClientInvariance, PTL

-----------------------------------------------------------------------------
(* What is under way for a channel: its line. *)

\* A frame of the content of a message on channel c.
Part(c, f) == f.channel = c /\ f.type \in {"HEADER", "BODY"}

\* A delivery on channel c.
Delivers(c, f) == f.channel = c /\ f.id = "deliver"

\* What is stored, received and still to be sent, in the order in which it will be read.
Received == queue \o inbox
Line(c) == Received \o broker.sending[c]

\* After the first i frames of S, the parts for channel c begin with these frames.
Follow(S, c, i, frames) ==
  \E p \in [DOMAIN frames -> (i + 1)..Len(S)] :
    /\ \A k \in DOMAIN frames : S[p[k]] = frames[k]
    /\ \A k, l \in DOMAIN frames : k < l => p[k] < p[l]
    /\ \A j \in (i + 1)..Len(S) : Part(c, S[j]) =>
         (\E k \in DOMAIN frames : p[k] = j) \/ (\A k \in DOMAIN frames : p[k] < j)

\* The body frames of message n on channel c, those up to number m left out.
Bodies(c, n, m, size) == [k \in 1..(size - m) |-> Body(c, n, m + k)]

\* Every delivery on the line S of channel c is followed by its content.
AnnouncedOn(c, S) ==
  \A i \in DOMAIN S : Delivers(c, S[i]) =>
    /\ S[i].number # 0
    /\ \E size \in Sizes, copies \in BOOLEAN :
         Follow(S, c, i, Content(c, S[i].number, size, copies))

\* The same on every channel.
Announced == \A c \in Channels : AnnouncedOn(c, Line(c))

\* A message whose header is still to be read, and one that is read up to body frame m.
HeaderComes(c, S, n) ==
  \E size \in Sizes, copies \in BOOLEAN : Follow(S, c, 0, Content(c, n, size, copies))
BodyComes(c, S, n, size, body) ==
  \E m \in Nat : /\ m < size /\ body = Bodies(c, n, 0, m)
                 /\ Follow(S, c, 0, Bodies(c, n, m, size))

\* What is still to be read of a delivery comes first on the line S of its channel.
GoesOn(read, S) ==
  /\ read.of # 0
  /\ \/ read.header = 0 /\ read.body = <<>> /\ HeaderComes(read.channel, S, read.of)
     \/ read.header = read.of /\ BodyComes(read.channel, S, read.of, read.size, read.body)

\* A read of a delivery goes on at the front of its line.
ReadingGoesOn ==
  call.op = "read" /\ call.by = "deliver" => GoesOn(call, Line(call.channel))

\* A call that reads a message, and what it returns.
Reading == [op : {"read"}, by : {"deliver", "get_ok"}, channel : Channels, of : Nat,
            header : Nat, size : Nat, body : Seq(BodyFrame)]

\* What is left of a content is sent on its own channel.
SentOnOwn ==
  \A c \in Channels : \A k \in DOMAIN broker.sending[c] : Part(c, broker.sending[c][k])

\* The inductive invariant of the messages.
MessagesInv ==
  /\ ClientInv /\ SentOnOwn
  /\ queue \in Seq(Frame)
  /\ messages \in Seq(Reading)
  /\ call.op = "read" => call \in Reading
  /\ Announced /\ ReadingGoesOn /\ ConsumedIsOneDelivery

-----------------------------------------------------------------------------
(* Lines before and after a step. *)

\* The parts for c behind place i of S are those behind place j of T, in order, or T has
\* some more behind them.
SameParts(c, S, i, T, j) ==
  \E g \in [(i + 1)..Len(S) -> Int] :
    /\ \A k \in (i + 1)..Len(S) : Part(c, S[k]) => g[k] \in (j + 1)..Len(T) /\ T[g[k]] = S[k]
    /\ \A k, l \in (i + 1)..Len(S) : Part(c, S[k]) /\ Part(c, S[l]) /\ k < l => g[k] < g[l]
    /\ \A l \in (j + 1)..Len(T) : Part(c, T[l]) =>
         \/ \E k \in (i + 1)..Len(S) : Part(c, S[k]) /\ g[k] = l
         \/ \A k \in (i + 1)..Len(S) : Part(c, S[k]) => g[k] < l

\* Every delivery in T was in S, before the same parts.
Kept(c, S, T) ==
  \A j \in DOMAIN T : Delivers(c, T[j]) =>
    \E i \in DOMAIN S : S[i] = T[j] /\ SameParts(c, S, i, T, j)

\* Frames of the contents on channel c only.
AllParts(c, frames) == \A k \in DOMAIN frames : Part(c, frames[k])

\* What follows in S follows in T.
LEMMA FollowMoved ==
  ASSUME NEW c, NEW S \in Seq(Frame), NEW T \in Seq(Frame), NEW i \in Nat, NEW j \in Nat,
         SameParts(c, S, i, T, j), NEW frames \in Seq(Frame),
         AllParts(c, frames), Follow(S, c, i, frames)
  PROVE  Follow(T, c, j, frames)
<1>1. PICK g \in [(i + 1)..Len(S) -> Int] :
        /\ \A k \in (i + 1)..Len(S) :
             Part(c, S[k]) => g[k] \in (j + 1)..Len(T) /\ T[g[k]] = S[k]
        /\ \A k, l \in (i + 1)..Len(S) :
             Part(c, S[k]) /\ Part(c, S[l]) /\ k < l => g[k] < g[l]
        /\ \A l \in (j + 1)..Len(T) : Part(c, T[l]) =>
             \/ \E k \in (i + 1)..Len(S) : Part(c, S[k]) /\ g[k] = l
             \/ \A k \in (i + 1)..Len(S) : Part(c, S[k]) => g[k] < l
  BY DEF SameParts
<1>2. PICK p \in [DOMAIN frames -> (i + 1)..Len(S)] :
        /\ \A k \in DOMAIN frames : S[p[k]] = frames[k]
        /\ \A k, l \in DOMAIN frames : k < l => p[k] < p[l]
        /\ \A l \in (i + 1)..Len(S) : Part(c, S[l]) =>
             (\E k \in DOMAIN frames : p[k] = l) \/ (\A k \in DOMAIN frames : p[k] < l)
  BY DEF Follow
<1>3. \A k \in DOMAIN frames : p[k] \in (i + 1)..Len(S) /\ Part(c, S[p[k]])
  BY <1>2 DEF AllParts
<1> DEFINE q == [k \in DOMAIN frames |-> g[p[k]]]
<1>4. \A k \in DOMAIN frames : q[k] = g[p[k]] /\ q[k] \in (j + 1)..Len(T) /\ T[q[k]] = frames[k]
  BY <1>1, <1>2, <1>3
<1>5. q \in [DOMAIN frames -> (j + 1)..Len(T)]
  BY <1>4
<1>6. \A k, l \in DOMAIN frames : k < l => q[k] < q[l]
  BY <1>1, <1>2, <1>3, <1>4
<1> HIDE DEF q
<1>7. ASSUME NEW l \in (j + 1)..Len(T), Part(c, T[l])
      PROVE  (\E k \in DOMAIN frames : q[k] = l) \/ (\A k \in DOMAIN frames : q[k] < l)
  <2>1. CASE \A k \in (i + 1)..Len(S) : Part(c, S[k]) => g[k] < l
    BY <1>3, <1>4, <2>1
  <2>2. CASE \E k \in (i + 1)..Len(S) : Part(c, S[k]) /\ g[k] = l
    <3>1. PICK k \in (i + 1)..Len(S) : Part(c, S[k]) /\ g[k] = l
      BY <2>2
    <3>2. CASE \E m \in DOMAIN frames : p[m] = k
      BY <1>4, <3>1, <3>2
    <3>3. CASE \A m \in DOMAIN frames : p[m] < k
      BY <1>1, <1>3, <1>4, <3>1, <3>3
    <3>4. QED
      BY <1>2, <3>1, <3>2, <3>3
  <2>3. QED
    BY <1>1, <1>7, <2>1, <2>2
<1>8. QED
  BY <1>4, <1>5, <1>6, <1>7 DEF Follow

\* The first part is the first frame that follows; the others follow when it is gone.
LEMMA FirstFollows ==
  ASSUME NEW c, NEW S \in Seq(Frame), NEW b \in DOMAIN S, Part(c, S[b]),
         \A j \in 1..(b - 1) : ~Part(c, S[j]),
         NEW frames \in Seq(Frame), AllParts(c, frames), frames # <<>>, Follow(S, c, 0, frames)
  PROVE  S[b] = frames[1] /\ Follow(S, c, b, Tail(frames))
<1>0. 0 + 1 = 1
  OBVIOUS
<1>1. PICK p \in [DOMAIN frames -> 1..Len(S)] :
        /\ \A k \in DOMAIN frames : S[p[k]] = frames[k]
        /\ \A k, l \in DOMAIN frames : k < l => p[k] < p[l]
        /\ \A l \in 1..Len(S) : Part(c, S[l]) =>
             (\E k \in DOMAIN frames : p[k] = l) \/ (\A k \in DOMAIN frames : p[k] < l)
  BY <1>0 DEF Follow
<1>2. /\ 1 \in DOMAIN frames /\ DOMAIN frames = 1..Len(frames) /\ Len(frames) \in Nat
      /\ b \in 1..Len(S) /\ Len(S) \in Nat
      /\ \A k \in DOMAIN frames : k \in Nat /\ k >= 1 /\ p[k] \in 1..Len(S) /\ Part(c, S[p[k]])
  BY <1>1 DEF AllParts
<1>3. p[1] = b
  <2>1. p[1] >= b
    <3>1. p[1] \in 1..Len(S) /\ Part(c, S[p[1]])
      BY <1>2
    <3>2. p[1] \notin 1..(b - 1)
      BY <3>1
    <3>3. QED
      BY <1>2, <3>1, <3>2
  <2>2. \E k \in DOMAIN frames : p[k] = b
    BY <1>1, <1>2, <2>1
  <2>3. PICK k \in DOMAIN frames : p[k] = b
    BY <2>2
  <2>4. 1 < k => p[1] < p[k]
    BY <1>1, <1>2
  <2>5. QED
    BY <1>2, <2>1, <2>3, <2>4
<1> DEFINE rest == Tail(frames)
           q == [k \in DOMAIN rest |-> p[k + 1]]
<1>4. \A k \in DOMAIN rest : k \in Nat /\ k >= 1 /\ k + 1 \in DOMAIN frames /\ rest[k] = frames[k + 1]
  BY <1>2
<1>5. \A k \in DOMAIN frames : k = 1 \/ (k - 1 \in DOMAIN rest /\ (k - 1) + 1 = k)
  BY <1>2
<1> HIDE DEF rest
<1>6. \A k \in DOMAIN rest : q[k] = p[k + 1] /\ q[k] \in (b + 1)..Len(S) /\ S[q[k]] = rest[k]
  <2>1. ASSUME NEW k \in DOMAIN rest
        PROVE  p[k + 1] \in (b + 1)..Len(S) /\ S[p[k + 1]] = rest[k]
    <3>1. k \in Nat /\ 1 < k + 1 /\ k + 1 \in DOMAIN frames /\ rest[k] = frames[k + 1]
      BY <1>4
    <3>2. p[1] < p[k + 1] /\ p[k + 1] \in 1..Len(S) /\ S[p[k + 1]] = rest[k]
      BY <1>1, <1>2, <3>1
    <3>3. QED
      BY <1>2, <1>3, <3>2
  <2>2. QED
    BY <2>1
<1>7. q \in [DOMAIN rest -> (b + 1)..Len(S)]
  BY <1>6
<1>8. \A k, l \in DOMAIN rest : k < l => q[k] < q[l]
  BY <1>1, <1>4, <1>6
<1> HIDE DEF q
<1>9. ASSUME NEW l \in (b + 1)..Len(S), Part(c, S[l])
      PROVE  (\E k \in DOMAIN rest : q[k] = l) \/ (\A k \in DOMAIN rest : q[k] < l)
  <2>1. l \in 1..Len(S) /\ l > b
    BY <1>2
  <2>2. CASE \E k \in DOMAIN frames : p[k] = l
    <3>1. PICK k \in DOMAIN frames : p[k] = l
      BY <2>2
    <3>2. k # 1
      BY <1>3, <2>1, <3>1
    <3>3. QED
      BY <1>5, <1>6, <3>1, <3>2
  <2>3. CASE \A k \in DOMAIN frames : p[k] < l
    BY <1>4, <1>6, <2>3
  <2>4. QED
    BY <1>1, <1>9, <2>1, <2>2, <2>3
<1>10. S[b] = frames[1]
  BY <1>1, <1>2, <1>3
<1>11. Follow(S, c, b, rest)
  BY <1>6, <1>7, <1>8, <1>9 DEF Follow
<1>12. QED
  BY <1>10, <1>11 DEF rest

\* T is S without the frames behind place a up to place b.
Cut(S, T, a, b) ==
  /\ a \in Nat /\ b \in Nat /\ a <= b /\ b <= Len(S) /\ Len(T) = Len(S) - (b - a)
  /\ \A k \in 1..a : T[k] = S[k]
  /\ \A k \in (a + 1)..Len(T) : T[k] = S[k + (b - a)]

\* T is S with f at place m.
Inserted(S, T, m, f) ==
  /\ m \in 1..(Len(S) + 1) /\ Len(T) = Len(S) + 1 /\ T[m] = f
  /\ \A k \in 1..(m - 1) : T[k] = S[k]
  /\ \A k \in (m + 1)..Len(T) : T[k] = S[k - 1]

\* T is S with the frame at place m in front.
Moved(S, T, m) ==
  /\ m \in DOMAIN S /\ Len(T) = Len(S) /\ T[1] = S[m]
  /\ \A k \in 2..m : T[k] = S[k - 1]
  /\ \A k \in (m + 1)..Len(S) : T[k] = S[k]

\* What is left behind a cut, or around one that takes no part, is the same.
LEMMA CutSame ==
  ASSUME NEW c, NEW S \in Seq(Frame), NEW T \in Seq(Frame), NEW a, NEW b, Cut(S, T, a, b),
         NEW i \in 0..Len(S),
         i >= b \/ (i <= a /\ \A k \in (a + 1)..b : ~Part(c, S[k]))
  PROVE  SameParts(c, S, i, T, IF i >= b THEN i - (b - a) ELSE i)
<1> DEFINE j == IF i >= b THEN i - (b - a) ELSE i
           g == [k \in (i + 1)..Len(S) |-> IF k <= a THEN k ELSE k - (b - a)]
<1>1. /\ a \in Nat /\ b \in Nat /\ a <= b /\ b <= Len(S) /\ Len(T) = Len(S) - (b - a)
      /\ \A k \in 1..a : T[k] = S[k]
      /\ \A k \in (a + 1)..Len(T) : T[k] = S[k + (b - a)]
      /\ Len(S) \in Nat /\ i \in Nat
  BY DEF Cut
<1>0. i >= b \/ i <= a
  OBVIOUS
<1>2. j \in Nat /\ ((j = i - (b - a) /\ i >= b) \/ (j = i /\ i <= a))
  BY <1>0, <1>1
<1> HIDE DEF j
<1>3. g \in [(i + 1)..Len(S) -> Int]
  BY <1>1
<1>4. \A k \in (i + 1)..Len(S) : g[k] = IF k <= a THEN k ELSE k - (b - a)
  OBVIOUS
<1> HIDE DEF g
<1>5. \A k \in (i + 1)..Len(S) : Part(c, S[k]) => k <= a \/ k > b
  <2>1. CASE i >= b
    BY <1>1, <2>1
  <2>2. CASE \A k \in (a + 1)..b : ~Part(c, S[k])
    BY <1>1, <2>2
  <2>3. QED
    BY <2>1, <2>2
<1>6. ASSUME NEW k \in (i + 1)..Len(S), Part(c, S[k])
      PROVE  g[k] \in (j + 1)..Len(T) /\ T[g[k]] = S[k]
  <2>1. CASE k <= a
    BY <1>1, <1>2, <1>4, <2>1
  <2>2. CASE k > b
    <3>1. g[k] = k - (b - a) /\ k - (b - a) \in (a + 1)..Len(T) /\ k - (b - a) \in (j + 1)..Len(T)
      BY <1>1, <1>2, <1>4, <2>2
    <3>2. (k - (b - a)) + (b - a) = k
      BY <1>1
    <3>3. QED
      BY <1>1, <3>1, <3>2
  <2>3. QED
    BY <1>5, <1>6, <2>1, <2>2
<1>7. \A k, l \in (i + 1)..Len(S) : Part(c, S[k]) /\ Part(c, S[l]) /\ k < l => g[k] < g[l]
  BY <1>1, <1>4, <1>5
<1>8. ASSUME NEW l \in (j + 1)..Len(T), Part(c, T[l])
      PROVE  \E k \in (i + 1)..Len(S) : Part(c, S[k]) /\ g[k] = l
  <2>1. CASE l <= a
    <3>1. l \in (i + 1)..Len(S) /\ T[l] = S[l]
      BY <1>1, <1>2, <2>1
    <3>2. g[l] = l
      BY <1>4, <2>1, <3>1
    <3>3. QED
      BY <1>8, <3>1, <3>2
  <2>2. CASE l > a
    <3> DEFINE k == l + (b - a)
    <3>1. k \in (i + 1)..Len(S) /\ ~(k <= a) /\ k - (b - a) = l
      BY <1>1, <1>2, <2>2
    <3>2. T[l] = S[k]
      BY <1>1, <1>2, <2>2
    <3> HIDE DEF k
    <3>3. g[k] = l
      BY <1>4, <3>1
    <3>4. QED
      BY <1>8, <3>1, <3>2, <3>3
  <2>3. QED
    BY <1>1, <1>2, <2>1, <2>2
<1>9. SameParts(c, S, i, T, j)
  BY <1>3, <1>6, <1>7, <1>8 DEF SameParts
<1>10. QED
  BY <1>9 DEF j

\* A cut keeps the deliveries if none is before a part it takes.
LEMMA CutKeeps ==
  ASSUME NEW c, NEW S \in Seq(Frame), NEW T \in Seq(Frame), NEW a, NEW b, Cut(S, T, a, b),
         \A k \in (a + 1)..b : Part(c, S[k]) => \A i \in 1..a : ~Delivers(c, S[i])
  PROVE  Kept(c, S, T)
<1>1. /\ a \in Nat /\ b \in Nat /\ a <= b /\ b <= Len(S) /\ Len(T) = Len(S) - (b - a)
      /\ \A k \in 1..a : T[k] = S[k]
      /\ \A k \in (a + 1)..Len(T) : T[k] = S[k + (b - a)]
      /\ Len(S) \in Nat
  BY DEF Cut
<1>2. ASSUME NEW j \in DOMAIN T, Delivers(c, T[j])
      PROVE  \E i \in DOMAIN S : S[i] = T[j] /\ SameParts(c, S, i, T, j)
  <2>1. CASE j <= a
    <3>1. j \in DOMAIN S /\ S[j] = T[j] /\ j \in 1..a /\ j \in 0..Len(S)
      BY <1>1, <2>1
    <3>2. \A k \in (a + 1)..b : ~Part(c, S[k])
      BY <1>2, <3>1
    <3>3. SameParts(c, S, j, T, IF j >= b THEN j - (b - a) ELSE j)
      BY <2>1, <3>1, <3>2, CutSame
    <3>4. j = IF j >= b THEN j - (b - a) ELSE j
      BY <1>1, <2>1, <3>1
    <3>5. QED
      BY <3>1, <3>3, <3>4
  <2>2. CASE j > a
    <3> DEFINE i == j + (b - a)
    <3>1. /\ i \in DOMAIN S /\ S[i] = T[j] /\ i \in 0..Len(S) /\ i >= b
          /\ i - (b - a) = j
      BY <1>1, <2>2
    <3> HIDE DEF i
    <3>2. SameParts(c, S, i, T, IF i >= b THEN i - (b - a) ELSE i)
      BY <3>1, CutSame
    <3>3. QED
      BY <3>1, <3>2
  <2>3. QED
    BY <1>1, <2>1, <2>2
<1>3. QED
  BY <1>2 DEF Kept

\* A frame that is no part makes no difference wherever it comes in.
LEMMA InsertSame ==
  ASSUME NEW c, NEW S \in Seq(Frame), NEW T \in Seq(Frame), NEW m, NEW f, Inserted(S, T, m, f),
         ~Part(c, f), NEW i \in 0..Len(S)
  PROVE  SameParts(c, S, i, T, IF i < m THEN i ELSE i + 1)
<1> DEFINE j == IF i < m THEN i ELSE i + 1
           g == [k \in (i + 1)..Len(S) |-> IF k < m THEN k ELSE k + 1]
<1>1. /\ m \in Nat /\ m >= 1 /\ m <= Len(S) + 1 /\ Len(T) = Len(S) + 1 /\ T[m] = f
      /\ \A k \in 1..(m - 1) : T[k] = S[k]
      /\ \A k \in (m + 1)..Len(T) : T[k] = S[k - 1]
      /\ Len(S) \in Nat /\ i \in Nat
  BY DEF Inserted
<1>2. j \in Nat /\ ((j = i + 1 /\ i >= m) \/ (j = i /\ i < m))
  BY <1>1
<1> HIDE DEF j
<1>3. g \in [(i + 1)..Len(S) -> Int]
  BY <1>1
<1>4. \A k \in (i + 1)..Len(S) : g[k] = IF k < m THEN k ELSE k + 1
  OBVIOUS
<1> HIDE DEF g
<1>5. ASSUME NEW k \in (i + 1)..Len(S)
      PROVE  g[k] \in (j + 1)..Len(T) /\ T[g[k]] = S[k]
  <2>1. CASE k < m
    BY <1>1, <1>2, <1>4, <2>1
  <2>2. CASE k >= m
    <3>1. g[k] = k + 1 /\ k + 1 \in (m + 1)..Len(T) /\ k + 1 \in (j + 1)..Len(T) /\ (k + 1) - 1 = k
      BY <1>1, <1>2, <1>4, <2>2
    <3>2. QED
      BY <1>1, <3>1
  <2>3. QED
    BY <1>1, <2>1, <2>2
<1>6. \A k, l \in (i + 1)..Len(S) : Part(c, S[k]) /\ Part(c, S[l]) /\ k < l => g[k] < g[l]
  BY <1>1, <1>4
<1>7. ASSUME NEW l \in (j + 1)..Len(T), Part(c, T[l])
      PROVE  \E k \in (i + 1)..Len(S) : Part(c, S[k]) /\ g[k] = l
  <2>1. CASE l < m
    <3>1. l \in (i + 1)..Len(S) /\ T[l] = S[l]
      BY <1>1, <1>2, <2>1
    <3>2. g[l] = l
      BY <1>4, <2>1, <3>1
    <3>3. QED
      BY <1>7, <3>1, <3>2
  <2>2. CASE l > m
    <3>1. l - 1 \in (i + 1)..Len(S) /\ T[l] = S[l - 1] /\ ~(l - 1 < m)
      BY <1>1, <1>2, <2>2
    <3>2. g[l - 1] = l
      BY <1>1, <1>4, <3>1
    <3>3. QED
      BY <1>7, <3>1, <3>2
  <2>3. l # m
    BY <1>1, <1>7
  <2>4. QED
    BY <1>1, <1>2, <2>1, <2>2, <2>3
<1>8. SameParts(c, S, i, T, j)
  BY <1>3, <1>5, <1>6, <1>7 DEF SameParts
<1>9. QED
  BY <1>8 DEF j

\* Deliveries are kept.
LEMMA InsertKeeps ==
  ASSUME NEW c, NEW S \in Seq(Frame), NEW T \in Seq(Frame), NEW m, NEW f, Inserted(S, T, m, f),
         ~Part(c, f), ~Delivers(c, f)
  PROVE  Kept(c, S, T)
<1>1. /\ m \in Nat /\ m >= 1 /\ m <= Len(S) + 1 /\ Len(T) = Len(S) + 1 /\ T[m] = f
      /\ \A k \in 1..(m - 1) : T[k] = S[k]
      /\ \A k \in (m + 1)..Len(T) : T[k] = S[k - 1]
      /\ Len(S) \in Nat
  BY DEF Inserted
<1>2. ASSUME NEW j \in DOMAIN T, Delivers(c, T[j])
      PROVE  \E i \in DOMAIN S : S[i] = T[j] /\ SameParts(c, S, i, T, j)
  <2>1. CASE j < m
    <3>1. j \in DOMAIN S /\ S[j] = T[j] /\ j \in 0..Len(S)
      BY <1>1, <2>1
    <3>2. SameParts(c, S, j, T, IF j < m THEN j ELSE j + 1)
      BY <3>1, InsertSame
    <3>3. QED
      BY <2>1, <3>1, <3>2
  <2>2. CASE j > m
    <3> DEFINE i == j - 1
    <3>1. i \in DOMAIN S /\ S[i] = T[j] /\ i \in 0..Len(S) /\ ~(i < m) /\ i + 1 = j
      BY <1>1, <2>2
    <3> HIDE DEF i
    <3>2. SameParts(c, S, i, T, IF i < m THEN i ELSE i + 1)
      BY <3>1, InsertSame
    <3>3. QED
      BY <3>1, <3>2
  <2>3. j # m
    BY <1>1, <1>2
  <2>4. QED
    BY <1>1, <2>1, <2>2, <2>3
<1>3. QED
  BY <1>2 DEF Kept

\* A frame that moves before frames of other channels makes no difference.
LEMMA MoveKeeps ==
  ASSUME NEW c, NEW S \in Seq(Frame), NEW T \in Seq(Frame), NEW m, Moved(S, T, m),
         \A k \in 1..(m - 1) : S[k].channel # S[m].channel
  PROVE  Kept(c, S, T)
<1>1. /\ m \in Nat /\ m >= 1 /\ m <= Len(S) /\ Len(T) = Len(S) /\ T[1] = S[m]
      /\ \A k \in 2..m : T[k] = S[k - 1]
      /\ \A k \in (m + 1)..Len(S) : T[k] = S[k]
      /\ Len(S) \in Nat
  BY DEF Moved
<1>2. CASE c = S[m].channel
  <2>1. \A k \in 2..m : T[k].channel # c
    BY <1>1, <1>2
  <2>2. ASSUME NEW i \in m..Len(S), NEW j \in 1..i, i = m \/ j = i, j >= m \/ j = 1
        PROVE  SameParts(c, S, i, T, j)
    <3> DEFINE g == [k \in (i + 1)..Len(S) |-> k]
    <3>1. g \in [(i + 1)..Len(S) -> Int] /\ \A k \in (i + 1)..Len(S) : g[k] = k
      BY <1>1
    <3> HIDE DEF g
    <3>2. \A k \in (i + 1)..Len(S) : g[k] \in (j + 1)..Len(T) /\ T[g[k]] = S[k]
      BY <1>1, <3>1
    <3>3. \A k, l \in (i + 1)..Len(S) : k < l => g[k] < g[l]
      BY <3>1
    <3>4. ASSUME NEW l \in (j + 1)..Len(T), Part(c, T[l])
          PROVE  \E k \in (i + 1)..Len(S) : Part(c, S[k]) /\ g[k] = l
      <4>1. l > m
        BY <1>1, <2>1, <2>2, <3>4 DEF Part
      <4>2. l \in (i + 1)..Len(S) /\ T[l] = S[l]
        BY <1>1, <2>2, <4>1
      <4>3. QED
        BY <3>1, <3>4, <4>2
    <3>5. QED
      BY <3>1, <3>2, <3>3, <3>4 DEF SameParts
  <2>3. ASSUME NEW j \in DOMAIN T, Delivers(c, T[j])
        PROVE  \E i \in DOMAIN S : S[i] = T[j] /\ SameParts(c, S, i, T, j)
    <3>1. CASE j = 1
      <4>1. m \in m..Len(S) /\ m \in DOMAIN S /\ j \in 1..m /\ S[m] = T[j]
        BY <1>1, <3>1
      <4>2. QED
        BY <2>2, <3>1, <4>1
    <3>2. CASE j > m
      <4>1. j \in m..Len(S) /\ j \in DOMAIN S /\ j \in 1..j /\ S[j] = T[j]
        BY <1>1, <3>2
      <4>2. QED
        BY <1>1, <2>2, <3>2, <4>1
    <3>3. j = 1 \/ j > m
      BY <1>1, <2>1, <2>3 DEF Delivers
    <3>4. QED
      BY <3>1, <3>2, <3>3
  <2>4. QED
    BY <2>3 DEF Kept
<1>3. CASE c # S[m].channel
  <2>1. ~Part(c, S[m]) /\ ~Delivers(c, S[m])
    BY <1>3 DEF Part, Delivers
  <2>2. ASSUME NEW i \in 1..Len(S), NEW j \in 1..Len(S), i # m,
               (i < m /\ j = i + 1) \/ (i > m /\ j = i)
        PROVE  SameParts(c, S, i, T, j)
    <3> DEFINE g == [k \in (i + 1)..Len(S) |-> IF k < m THEN k + 1 ELSE k]
    <3>1. /\ g \in [(i + 1)..Len(S) -> Int]
          /\ \A k \in (i + 1)..Len(S) : g[k] = IF k < m THEN k + 1 ELSE k
      BY <1>1
    <3> HIDE DEF g
    <3>2. ASSUME NEW k \in (i + 1)..Len(S), Part(c, S[k])
          PROVE  g[k] \in (j + 1)..Len(T) /\ T[g[k]] = S[k]
      <4>1. k # m
        BY <2>1, <3>2
      <4>2. CASE k < m
        <5>1. g[k] = k + 1 /\ k + 1 \in 2..m /\ k + 1 \in (j + 1)..Len(T) /\ (k + 1) - 1 = k
          BY <1>1, <2>2, <3>1, <4>2
        <5>2. QED
          BY <1>1, <5>1
      <4>3. CASE k > m
        <5>1. g[k] = k
          BY <1>1, <3>1, <4>3
        <5>2. k \in (m + 1)..Len(S) /\ k >= j + 1 /\ k \in Int
          BY <1>1, <2>2, <4>3
        <5>3. QED
          BY <1>1, <5>1, <5>2
      <4>4. QED
        BY <1>1, <4>1, <4>2, <4>3
    <3>3. ASSUME NEW k \in (i + 1)..Len(S), NEW l \in (i + 1)..Len(S),
                 Part(c, S[k]), Part(c, S[l]), k < l
          PROVE  g[k] < g[l]
      <4>1. l # m /\ k \in Int /\ l \in Int
        BY <2>1, <3>3
      <4>2. /\ g[k] = IF k < m THEN k + 1 ELSE k
            /\ g[l] = IF l < m THEN l + 1 ELSE l
        BY <3>1
      <4>3. QED
        BY <1>1, <3>3, <4>1, <4>2
    <3>4. ASSUME NEW l \in (j + 1)..Len(T), Part(c, T[l])
          PROVE  \E k \in (i + 1)..Len(S) : Part(c, S[k]) /\ g[k] = l
      <4>1. CASE l <= m
        <5>1. l - 1 \in (i + 1)..Len(S) /\ T[l] = S[l - 1] /\ l - 1 < m /\ (l - 1) + 1 = l
          BY <1>1, <2>2, <4>1
        <5>2. g[l - 1] = l
          BY <3>1, <5>1
        <5>3. QED
          BY <3>4, <5>1, <5>2
      <4>2. CASE l > m
        <5>1. l \in (i + 1)..Len(S) /\ T[l] = S[l]
          BY <1>1, <2>2, <4>2
        <5>2. g[l] = l
          BY <1>1, <3>1, <4>2, <5>1
        <5>3. QED
          BY <3>4, <5>1, <5>2
      <4>3. QED
        BY <1>1, <4>1, <4>2
    <3>5. QED
      BY <3>1, <3>2, <3>3, <3>4 DEF SameParts
  <2>3. ASSUME NEW j \in DOMAIN T, Delivers(c, T[j])
        PROVE  \E i \in DOMAIN S : S[i] = T[j] /\ SameParts(c, S, i, T, j)
    <3>1. CASE j <= m
      <4>1. j # 1
        BY <1>1, <2>1, <2>3
      <4>2. /\ j - 1 \in 1..Len(S) /\ j - 1 \in DOMAIN S /\ S[j - 1] = T[j] /\ j \in 1..Len(S)
            /\ j - 1 < m /\ j = (j - 1) + 1 /\ j - 1 # m
        BY <1>1, <3>1, <4>1
      <4>3. SameParts(c, S, j - 1, T, j)
        BY <2>2, <4>2
      <4>4. QED
        BY <4>2, <4>3
    <3>2. CASE j > m
      <4>1. j \in 1..Len(S) /\ j \in DOMAIN S /\ S[j] = T[j] /\ j # m
        BY <1>1, <3>2
      <4>2. QED
        BY <2>2, <3>2, <4>1
    <3>3. QED
      BY <1>1, <3>1, <3>2
  <2>4. QED
    BY <2>3 DEF Kept
<1>4. QED
  BY <1>2, <1>3

\* Nothing changes for what is under way when something is added behind it.
LEMMA ExtendSame ==
  ASSUME NEW c, NEW S \in Seq(Frame), NEW T \in Seq(Frame), Len(S) <= Len(T),
         \A k \in DOMAIN S : T[k] = S[k], NEW i \in 0..Len(S)
  PROVE  SameParts(c, S, i, T, i)
<1> DEFINE g == [k \in (i + 1)..Len(S) |-> k]
<1>1. Len(S) \in Nat /\ Len(T) \in Nat
  OBVIOUS
<1>2. g \in [(i + 1)..Len(S) -> Int] /\ \A k \in (i + 1)..Len(S) : g[k] = k
  BY <1>1
<1> HIDE DEF g
<1>3. \A k \in (i + 1)..Len(S) : k \in DOMAIN S /\ g[k] \in (i + 1)..Len(T) /\ T[g[k]] = S[k]
  BY <1>1, <1>2
<1>4. \A k, l \in (i + 1)..Len(S) : k < l => g[k] < g[l]
  BY <1>2
<1>5. ASSUME NEW l \in (i + 1)..Len(T), Part(c, T[l])
      PROVE  \/ \E k \in (i + 1)..Len(S) : Part(c, S[k]) /\ g[k] = l
             \/ \A k \in (i + 1)..Len(S) : Part(c, S[k]) => g[k] < l
  <2>1. CASE l <= Len(S)
    <3>1. l \in (i + 1)..Len(S)
      BY <1>1, <2>1
    <3>2. QED
      BY <1>2, <1>3, <1>5, <3>1
  <2>2. CASE l > Len(S)
    BY <1>1, <1>2, <2>2
  <2>3. QED
    BY <1>1, <2>1, <2>2
<1>6. QED
  BY <1>2, <1>3, <1>4, <1>5 DEF SameParts

-----------------------------------------------------------------------------
(* Sequences of frames. *)

Before == {e \in Nat \X Nat : e[1] < e[2]}

\* A set of numbers has a least one.
LEMMA LeastExists ==
  ASSUME NEW U \in SUBSET Nat, U # {} PROVE \E x \in U : \A y \in U : x <= y
<1>1. IsWellFoundedOn(Before, Nat)
  BY NatLessThanWellFounded DEF OpToRel, Before
<1>2. PICK x \in U : \A y \in U : <<y, x>> \notin Before
  BY <1>1, WFMin
<1>3. x \in Nat /\ \A y \in U : y \in Nat /\ ~(y < x)
  BY <1>2 DEF Before
<1>4. \A y \in U : x <= y
  BY <1>3
<1>5. QED
  BY <1>4

\* Where the frames of two sequences are in their concatenation.
LEMMA Joined ==
  ASSUME NEW S \in Seq(Frame), NEW T \in Seq(Frame)
  PROVE  /\ S \o T \in Seq(Frame) /\ Len(S \o T) = Len(S) + Len(T)
         /\ Len(S) \in Nat /\ Len(T) \in Nat
         /\ \A k \in 1..Len(S) : (S \o T)[k] = S[k]
         /\ \A k \in 1..Len(T) : (S \o T)[Len(S) + k] = T[k]
         /\ \A k \in (Len(S) + 1)..(Len(S) + Len(T)) : (S \o T)[k] = T[k - Len(S)]
  OBVIOUS

\* What a step does to the frames received it does to every line.
LEMMA CutJoined ==
  ASSUME NEW R \in Seq(Frame), NEW Q \in Seq(Frame), NEW X \in Seq(Frame), NEW a, NEW b,
         Cut(R, Q, a, b)
  PROVE  Cut(R \o X, Q \o X, a, b)
<1> DEFINE S == R \o X
           T == Q \o X
           d == b - a
<1>1. /\ Len(S) = Len(R) + Len(X) /\ \A k \in 1..Len(R) : S[k] = R[k]
      /\ \A k \in (Len(R) + 1)..(Len(R) + Len(X)) : S[k] = X[k - Len(R)]
      /\ Len(R) \in Nat /\ Len(X) \in Nat
  BY Joined
<1>2. /\ Len(T) = Len(Q) + Len(X) /\ \A k \in 1..Len(Q) : T[k] = Q[k]
      /\ \A k \in (Len(Q) + 1)..(Len(Q) + Len(X)) : T[k] = X[k - Len(Q)]
      /\ Len(Q) \in Nat
  BY Joined
<1>3. /\ a \in Nat /\ b \in Nat /\ d \in Nat /\ b = a + d /\ b <= Len(R) /\ Len(Q) = Len(R) - d
      /\ \A k \in 1..a : Q[k] = R[k]
      /\ \A k \in (a + 1)..Len(Q) : Q[k] = R[k + d]
  BY DEF Cut
<1> HIDE DEF S, T, d
<1>4. \A k \in 1..a : T[k] = S[k]
  BY <1>1, <1>2, <1>3
<1>5. ASSUME NEW k \in (a + 1)..Len(T) PROVE T[k] = S[k + d]
  <2>1. CASE k <= Len(Q)
    <3>1. k \in 1..Len(Q) /\ k \in (a + 1)..Len(Q) /\ k + d \in 1..Len(R)
      BY <1>2, <1>3, <2>1
    <3>2. QED
      BY <1>1, <1>2, <1>3, <3>1
  <2>2. CASE k > Len(Q)
    <3>1. /\ k \in (Len(Q) + 1)..(Len(Q) + Len(X))
          /\ k + d \in (Len(R) + 1)..(Len(R) + Len(X)) /\ (k + d) - Len(R) = k - Len(Q)
      BY <1>1, <1>2, <1>3, <2>2
    <3>2. T[k] = X[k - Len(Q)] /\ S[k + d] = X[(k + d) - Len(R)]
      BY <1>1, <1>2, <3>1
    <3>3. QED
      BY <3>1, <3>2
  <2>3. QED
    BY <1>2, <1>3, <2>1, <2>2
<1>6. a <= b /\ b <= Len(S) /\ Len(T) = Len(S) - d
  BY <1>1, <1>2, <1>3
<1>7. Cut(S, T, a, b)
  BY <1>3, <1>4, <1>5, <1>6 DEF Cut, d
<1>8. QED
  BY <1>7 DEF S, T

\* A frame put behind R is put into the line that X goes on.
LEMMA InsertJoined ==
  ASSUME NEW R \in Seq(Frame), NEW X \in Seq(Frame), NEW f \in Frame
  PROVE  Inserted(R \o X, Append(R, f) \o X, Len(R) + 1, f)
<1> DEFINE S == R \o X
           Q == Append(R, f)
           T == Q \o X
<1>1. /\ Len(S) = Len(R) + Len(X) /\ \A k \in 1..Len(R) : S[k] = R[k]
      /\ \A k \in (Len(R) + 1)..(Len(R) + Len(X)) : S[k] = X[k - Len(R)]
      /\ Len(R) \in Nat /\ Len(X) \in Nat
  BY Joined
<1>2. /\ Q \in Seq(Frame) /\ Len(Q) = Len(R) + 1 /\ Q[Len(R) + 1] = f
      /\ \A k \in 1..Len(R) : Q[k] = R[k]
  OBVIOUS
<1> HIDE DEF Q
<1>3. /\ Len(T) = Len(Q) + Len(X) /\ \A k \in 1..Len(Q) : T[k] = Q[k]
      /\ \A k \in (Len(Q) + 1)..(Len(Q) + Len(X)) : T[k] = X[k - Len(Q)]
  BY <1>2, Joined
<1> HIDE DEF S, T
<1>4. Len(R) + 1 \in 1..(Len(S) + 1) /\ Len(T) = Len(S) + 1 /\ T[Len(R) + 1] = f
  BY <1>1, <1>2, <1>3
<1>5. \A k \in 1..((Len(R) + 1) - 1) : T[k] = S[k]
  BY <1>1, <1>2, <1>3
<1>6. ASSUME NEW k \in ((Len(R) + 1) + 1)..Len(T) PROVE T[k] = S[k - 1]
  <2>1. /\ k \in (Len(Q) + 1)..(Len(Q) + Len(X))
        /\ k - 1 \in (Len(R) + 1)..(Len(R) + Len(X)) /\ (k - 1) - Len(R) = k - Len(Q)
    BY <1>1, <1>2, <1>3
  <2>2. T[k] = X[k - Len(Q)] /\ S[k - 1] = X[(k - 1) - Len(R)]
    BY <1>1, <1>3, <2>1
  <2>3. QED
    BY <2>1, <2>2
<1>7. Inserted(S, T, Len(R) + 1, f)
  BY <1>4, <1>5, <1>6 DEF Inserted
<1>8. QED
  BY <1>7 DEF S, T, Q

\* A frame moved to the front of R is moved to the front of the line that X goes on.
LEMMA MoveJoined ==
  ASSUME NEW R \in Seq(Frame), NEW Q \in Seq(Frame), NEW X \in Seq(Frame), NEW m,
         Moved(R, Q, m)
  PROVE  Moved(R \o X, Q \o X, m)
<1> DEFINE S == R \o X
           T == Q \o X
<1>1. /\ Len(S) = Len(R) + Len(X) /\ \A k \in 1..Len(R) : S[k] = R[k]
      /\ \A k \in (Len(R) + 1)..(Len(R) + Len(X)) : S[k] = X[k - Len(R)]
      /\ Len(R) \in Nat /\ Len(X) \in Nat /\ S \in Seq(Frame)
  BY Joined
<1>2. /\ Len(T) = Len(Q) + Len(X) /\ \A k \in 1..Len(Q) : T[k] = Q[k]
      /\ \A k \in (Len(Q) + 1)..(Len(Q) + Len(X)) : T[k] = X[k - Len(Q)]
  BY Joined
<1>3. /\ m \in Nat /\ m >= 1 /\ m <= Len(R) /\ Len(Q) = Len(R) /\ Q[1] = R[m]
      /\ \A k \in 2..m : Q[k] = R[k - 1]
      /\ \A k \in (m + 1)..Len(R) : Q[k] = R[k]
  BY DEF Moved
<1> HIDE DEF S, T
<1>4. m \in DOMAIN S /\ Len(T) = Len(S) /\ T[1] = S[m]
  BY <1>1, <1>2, <1>3
<1>5. ASSUME NEW k \in 2..m PROVE T[k] = S[k - 1]
  <2>1. k \in 1..Len(Q) /\ k - 1 \in 1..Len(R)
    BY <1>1, <1>3
  <2>2. QED
    BY <1>1, <1>2, <1>3, <2>1
<1>6. ASSUME NEW k \in (m + 1)..Len(S) PROVE T[k] = S[k]
  <2>1. CASE k <= Len(R)
    BY <1>1, <1>2, <1>3, <2>1
  <2>2. CASE k > Len(R)
    <3>1. k \in (Len(R) + 1)..(Len(R) + Len(X)) /\ k \in (Len(Q) + 1)..(Len(Q) + Len(X))
      BY <1>1, <1>3, <2>2
    <3>2. T[k] = X[k - Len(Q)] /\ S[k] = X[k - Len(R)]
      BY <1>1, <1>2, <3>1
    <3>3. QED
      BY <1>3, <3>2
  <2>3. QED
    BY <1>1, <1>3, <2>1, <2>2
<1>7. Moved(S, T, m)
  BY <1>4, <1>5, <1>6 DEF Moved
<1>8. QED
  BY <1>7 DEF S, T

-----------------------------------------------------------------------------
(* The content of a message. *)

\* A content is its header, followed by all its body frames.
LEMMA ContentIsHeaderAndBodies ==
  ASSUME NEW c \in Channels, NEW n \in Nat, NEW size \in Sizes, NEW copies \in BOOLEAN
  PROVE  LET content == Content(c, n, size, copies)
         IN  /\ content \in Seq(Frame) /\ AllParts(c, content) /\ content # <<>>
             /\ content[1] = Header(c, n, size, copies) /\ Tail(content) = Bodies(c, n, 0, size)
             /\ \A k \in DOMAIN content : content[k] \in HeaderFrame \cup BodyFrame
<1> DEFINE h == Header(c, n, size, copies)
           bodies == [i \in 1..size |-> Body(c, n, i)]
           content == <<h>> \o bodies
<1>1. size \in Nat
  BY NumbersAssumption
<1>2. h \in Frame /\ h \in HeaderFrame /\ Part(c, h)
  BY <1>1 DEF Header, HeaderFrame, Frame, Part
<1>3. \A i \in 1..size : Body(c, n, i) \in Frame /\ Body(c, n, i) \in BodyFrame /\ Part(c, Body(c, n, i))
  BY <1>1 DEF Body, BodyFrame, Frame, Part
<1>4. bodies \in Seq(Frame) /\ Len(bodies) = size /\ \A i \in 1..size : bodies[i] = Body(c, n, i)
  BY <1>1, <1>3
<1>5. bodies = Bodies(c, n, 0, size)
  <2>1. size - 0 = size /\ \A k \in 1..size : 0 + k = k
    BY <1>1
  <2>2. QED
    BY <2>1 DEF Bodies
<1> HIDE DEF h, bodies
<1>6. <<h>> \in Seq(Frame) /\ Len(<<h>>) = 1 /\ <<h>>[1] = h
  BY <1>2
<1>7. /\ content \in Seq(Frame) /\ Len(content) = 1 + size /\ content[1] = h
      /\ \A k \in 2..(1 + size) : content[k] = bodies[k - 1]
  BY <1>1, <1>4, <1>6
<1>8. Tail(content) = bodies
  BY <1>1, <1>4, <1>7
<1>9. \A k \in DOMAIN content : Part(c, content[k]) /\ content[k] \in HeaderFrame \cup BodyFrame
  <2>1. ASSUME NEW k \in DOMAIN content
        PROVE  Part(c, content[k]) /\ content[k] \in HeaderFrame \cup BodyFrame
    <3>1. CASE k = 1
      BY <1>2, <1>7, <3>1
    <3>2. CASE k # 1
      <4>1. k \in 2..(1 + size) /\ k - 1 \in 1..size
        BY <1>1, <1>7, <3>2
      <4>2. content[k] = Body(c, n, k - 1)
        BY <1>4, <1>7, <4>1
      <4>3. QED
        BY <1>3, <4>1, <4>2
    <3>3. QED
      BY <3>1, <3>2
  <2>2. QED
    BY <2>1
<1>10. content # <<>>
  BY <1>1, <1>7
<1>11. content = Content(c, n, size, copies)
  BY DEF Content, h, bodies
<1>12. QED
  BY <1>5, <1>7, <1>8, <1>9, <1>10, <1>11 DEF h, AllParts

\* The next body frame, and those after it.
LEMMA BodiesGoOn ==
  ASSUME NEW c \in Channels, NEW n \in Nat, NEW size \in Nat, NEW m \in Nat, m < size
  PROVE  LET bodies == Bodies(c, n, m, size)
         IN  /\ bodies \in Seq(Frame) /\ AllParts(c, bodies) /\ bodies # <<>>
             /\ bodies[1] = Body(c, n, m + 1) /\ Tail(bodies) = Bodies(c, n, m + 1, size)
<1> DEFINE bodies == [k \in 1..(size - m) |-> Body(c, n, m + k)]
           rest == [k \in 1..(size - (m + 1)) |-> Body(c, n, (m + 1) + k)]
<1>1. \A k \in Nat : Body(c, n, m + k) \in Frame /\ Part(c, Body(c, n, m + k))
  BY DEF Body, BodyFrame, Frame, Part
<1>2. /\ bodies \in Seq(Frame) /\ Len(bodies) = size - m
      /\ \A k \in 1..(size - m) : bodies[k] = Body(c, n, m + k)
  BY <1>1
<1>3. /\ rest \in Seq(Frame) /\ Len(rest) = size - (m + 1)
      /\ \A k \in 1..(size - (m + 1)) : rest[k] = Body(c, n, (m + 1) + k)
  <2>1. \A k \in 1..(size - (m + 1)) : Body(c, n, (m + 1) + k) \in Frame
    BY DEF Body, BodyFrame, Frame
  <2>2. size - (m + 1) \in Nat
    OBVIOUS
  <2>3. QED
    BY <2>1, <2>2
<1> HIDE DEF bodies, rest
<1>4. AllParts(c, bodies) /\ bodies # <<>> /\ bodies[1] = Body(c, n, m + 1)
  <2>1. DOMAIN bodies = 1..(size - m) /\ Len(bodies) > 0 /\ 1 \in 1..(size - m)
    BY <1>2
  <2>2. ASSUME NEW k \in DOMAIN bodies PROVE Part(c, bodies[k])
    <3>1. k \in Nat /\ bodies[k] = Body(c, n, m + k)
      BY <1>2, <2>1
    <3>2. QED
      BY <1>1, <3>1
  <2>3. bodies # <<>>
    BY <2>1
  <2>4. QED
    BY <1>2, <2>1, <2>2, <2>3 DEF AllParts
<1>5. Tail(bodies) = rest
  <2>1. Tail(bodies) \in Seq(Frame) /\ Len(Tail(bodies)) = Len(rest)
    BY <1>2, <1>3, <1>4
  <2>2. ASSUME NEW k \in 1..Len(rest) PROVE Tail(bodies)[k] = rest[k]
    <3>1. /\ k + 1 \in 1..(size - m) /\ m + (k + 1) = (m + 1) + k
          /\ k \in 1..(size - (m + 1))
      BY <1>3
    <3>2. Tail(bodies)[k] = bodies[k + 1]
      BY <1>2, <1>4, <2>1
    <3>3. QED
      BY <1>2, <1>3, <3>1, <3>2
  <2>3. QED
    BY <1>3, <2>1, <2>2, SeqEqual
<1>6. QED
  BY <1>2, <1>4, <1>5 DEF bodies, rest, Bodies

\* The body frames read so far, and one more.
LEMMA BodyGrows ==
  ASSUME NEW c \in Channels, NEW n \in Nat, NEW m \in Nat
  PROVE  /\ Bodies(c, n, 0, m) \in Seq(BodyFrame) /\ Len(Bodies(c, n, 0, m)) = m
         /\ Append(Bodies(c, n, 0, m), Body(c, n, m + 1)) = Bodies(c, n, 0, m + 1)
         /\ Bodies(c, n, 0, m) = [k \in 1..m |-> Body(c, n, k)]
<1> DEFINE read == [k \in 1..m |-> Body(c, n, k)]
           more == [k \in 1..(m + 1) |-> Body(c, n, k)]
<1>1. \A k \in Nat : Body(c, n, k) \in BodyFrame
  BY DEF Body, BodyFrame
<1>2. read \in Seq(BodyFrame) /\ Len(read) = m /\ \A k \in 1..m : read[k] = Body(c, n, k)
  BY <1>1
<1>3. more \in Seq(BodyFrame) /\ Len(more) = m + 1 /\ \A k \in 1..(m + 1) : more[k] = Body(c, n, k)
  BY <1>1
<1>4. Bodies(c, n, 0, m) = read /\ Bodies(c, n, 0, m + 1) = more
  <2>1. m - 0 = m /\ (m + 1) - 0 = m + 1 /\ \A k \in Nat : 0 + k = k
    OBVIOUS
  <2>2. QED
    BY <2>1 DEF Bodies
<1> HIDE DEF read, more
<1>5. Append(read, Body(c, n, m + 1)) = more
  <2>1. Body(c, n, m + 1) \in BodyFrame
    BY <1>1
  <2> DEFINE longer == Append(read, Body(c, n, m + 1))
  <2>2. /\ longer \in Seq(BodyFrame) /\ Len(longer) = m + 1
        /\ \A k \in 1..m : longer[k] = read[k]
        /\ longer[m + 1] = Body(c, n, m + 1)
    BY <1>2, <2>1
  <2> HIDE DEF longer
  <2>3. \A k \in 1..Len(more) : longer[k] = more[k]
    BY <1>2, <1>3, <2>2
  <2>4. longer = more
    BY <1>3, <2>2, <2>3, SeqEqual
  <2>5. QED
    BY <2>4 DEF longer
<1>6. QED
  BY <1>2, <1>4, <1>5 DEF read

\* What follows behind frames that are no parts follows from the start.
LEMMA FollowFromStart ==
  ASSUME NEW c, NEW S \in Seq(Frame), NEW i \in Nat, \A k \in 1..i : ~Part(c, S[k]),
         NEW frames \in Seq(Frame), Follow(S, c, i, frames)
  PROVE  Follow(S, c, 0, frames)
<1>0. 0 + 1 = 1
  OBVIOUS
<1>1. PICK p \in [DOMAIN frames -> (i + 1)..Len(S)] :
        /\ \A k \in DOMAIN frames : S[p[k]] = frames[k]
        /\ \A k, l \in DOMAIN frames : k < l => p[k] < p[l]
        /\ \A j \in (i + 1)..Len(S) : Part(c, S[j]) =>
             (\E k \in DOMAIN frames : p[k] = j) \/ (\A k \in DOMAIN frames : p[k] < j)
  BY DEF Follow
<1>2. p \in [DOMAIN frames -> 1..Len(S)]
  BY <1>1
<1>3. \A j \in 1..Len(S) : Part(c, S[j]) => j \in (i + 1)..Len(S)
  OBVIOUS
<1>4. QED
  BY <1>0, <1>1, <1>2, <1>3 DEF Follow

-----------------------------------------------------------------------------
(* What the calls do to the frames received. *)

\* The frames are all well formed.
LEMMA LinesAreFrames ==
  ASSUME ClientInv, queue \in Seq(Frame)
  PROVE  /\ Received \in Seq(Frame) /\ inbox \in Seq(Frame)
         /\ \A c \in Channels :
              /\ broker.sending[c] \in Seq(Frame) /\ Line(c) \in Seq(Frame)
              /\ broker.sending[c] \in Seq(HeaderFrame \cup BodyFrame)
<1>1. inbox \in Seq(Frame) /\ Received \in Seq(Frame)
  BY Joined DEF Received, ClientInv
<1>2. ASSUME NEW c \in Channels
      PROVE  /\ broker.sending[c] \in Seq(Frame) /\ Line(c) \in Seq(Frame)
             /\ broker.sending[c] \in Seq(HeaderFrame \cup BodyFrame)
  <2>1. broker.sending[c] \in Seq(HeaderFrame \cup BodyFrame)
    BY DEF ClientInv, BrokerShape
  <2>2. HeaderFrame \cup BodyFrame \subseteq Frame
    BY DEF Frame
  <2>3. broker.sending[c] \in Seq(Frame)
    BY <2>1, <2>2, SeqMonotonic
  <2>4. QED
    BY <1>1, <2>1, <2>3, Joined DEF Line
<1>3. QED
  BY <1>1, <1>2

\* Storing the frame in front of the connection changes nothing of the order.
LEMMA StoringKeepsOrder ==
  ASSUME NEW Q \in Seq(Frame), NEW I \in Seq(Frame), I # <<>>
  PROVE  Append(Q, Head(I)) \o Tail(I) = Q \o I /\ Append(Q, Head(I)) \in Seq(Frame)
<1> DEFINE A == Append(Q, Head(I))
           S == A \o Tail(I)
           T == Q \o I
<1>1. /\ A \in Seq(Frame) /\ Len(A) = Len(Q) + 1 /\ A[Len(Q) + 1] = I[1]
      /\ \A k \in 1..Len(Q) : A[k] = Q[k]
      /\ Len(Q) \in Nat /\ Len(I) \in Nat /\ Len(I) >= 1
  OBVIOUS
<1>2. /\ Tail(I) \in Seq(Frame) /\ Len(Tail(I)) = Len(I) - 1
      /\ \A k \in 1..(Len(I) - 1) : Tail(I)[k] = I[k + 1]
  OBVIOUS
<1> HIDE DEF A
<1>3. /\ S \in Seq(Frame) /\ Len(S) = Len(A) + Len(Tail(I))
      /\ \A k \in 1..Len(A) : S[k] = A[k]
      /\ \A k \in (Len(A) + 1)..(Len(A) + Len(Tail(I))) : S[k] = Tail(I)[k - Len(A)]
  BY <1>1, <1>2, Joined
<1>4. /\ T \in Seq(Frame) /\ Len(T) = Len(Q) + Len(I)
      /\ \A k \in 1..Len(Q) : T[k] = Q[k]
      /\ \A k \in (Len(Q) + 1)..(Len(Q) + Len(I)) : T[k] = I[k - Len(Q)]
  BY Joined
<1> HIDE DEF S, T
<1>5. ASSUME NEW k \in 1..Len(T) PROVE S[k] = T[k]
  <2>1. CASE k <= Len(Q)
    BY <1>1, <1>3, <1>4, <2>1
  <2>2. CASE k = Len(Q) + 1
    <3>1. k \in 1..Len(A) /\ k \in (Len(Q) + 1)..(Len(Q) + Len(I)) /\ k - Len(Q) = 1
      BY <1>1, <2>2
    <3>2. S[k] = A[k] /\ T[k] = I[1]
      BY <1>3, <1>4, <3>1
    <3>3. QED
      BY <1>1, <2>2, <3>2
  <2>3. CASE k > Len(Q) + 1
    <3>1. /\ k \in (Len(A) + 1)..(Len(A) + Len(Tail(I)))
          /\ k \in (Len(Q) + 1)..(Len(Q) + Len(I))
          /\ k - Len(A) \in 1..(Len(I) - 1) /\ (k - Len(A)) + 1 = k - Len(Q)
      BY <1>1, <1>2, <1>4, <2>3
    <3>2. S[k] = Tail(I)[k - Len(A)] /\ T[k] = I[k - Len(Q)]
      BY <1>3, <1>4, <3>1
    <3>3. QED
      BY <1>2, <3>1, <3>2
  <2>4. QED
    BY <1>1, <1>4, <2>1, <2>2, <2>3
<1>6. Len(S) = Len(T)
  BY <1>1, <1>2, <1>3, <1>4
<1>7. S = T
  BY <1>3, <1>4, <1>5, <1>6, SeqEqual
<1>8. QED
  BY <1>1, <1>7 DEF S, T, A

\* A frame that leaves the front of the connection.
LEMMA TakenFromInbox ==
  ASSUME NEW Q \in Seq(Frame), NEW I \in Seq(Frame), I # <<>>
  PROVE  /\ Cut(Q \o I, Q \o Tail(I), Len(Q), Len(Q) + 1) /\ (Q \o I)[Len(Q) + 1] = Head(I)
         /\ Q \o Tail(I) \in Seq(Frame)
<1> DEFINE S == Q \o I
           T == Q \o Tail(I)
<1>1. /\ Tail(I) \in Seq(Frame) /\ Len(Tail(I)) = Len(I) - 1
      /\ \A k \in 1..(Len(I) - 1) : Tail(I)[k] = I[k + 1]
      /\ Len(Q) \in Nat /\ Len(I) \in Nat /\ Len(I) >= 1 /\ Head(I) = I[1]
  OBVIOUS
<1>2. /\ S \in Seq(Frame) /\ Len(S) = Len(Q) + Len(I)
      /\ \A k \in 1..Len(Q) : S[k] = Q[k]
      /\ \A k \in (Len(Q) + 1)..(Len(Q) + Len(I)) : S[k] = I[k - Len(Q)]
  BY Joined
<1>3. /\ T \in Seq(Frame) /\ Len(T) = Len(Q) + Len(Tail(I))
      /\ \A k \in 1..Len(Q) : T[k] = Q[k]
      /\ \A k \in (Len(Q) + 1)..(Len(Q) + Len(Tail(I))) : T[k] = Tail(I)[k - Len(Q)]
  BY <1>1, Joined
<1> HIDE DEF S, T
<1>4. S[Len(Q) + 1] = Head(I)
  <2>1. Len(Q) + 1 \in (Len(Q) + 1)..(Len(Q) + Len(I)) /\ (Len(Q) + 1) - Len(Q) = 1
    BY <1>1
  <2>2. QED
    BY <1>1, <1>2, <2>1
<1>5. ASSUME NEW k \in (Len(Q) + 1)..Len(T) PROVE T[k] = S[k + ((Len(Q) + 1) - Len(Q))]
  <2>1. /\ (Len(Q) + 1) - Len(Q) = 1
        /\ k \in (Len(Q) + 1)..(Len(Q) + Len(Tail(I)))
        /\ k + 1 \in (Len(Q) + 1)..(Len(Q) + Len(I))
        /\ (k + 1) - Len(Q) = (k - Len(Q)) + 1 /\ k - Len(Q) \in 1..(Len(I) - 1)
    BY <1>1, <1>3
  <2>2. T[k] = Tail(I)[k - Len(Q)] /\ S[k + 1] = I[(k + 1) - Len(Q)]
    BY <1>2, <1>3, <2>1
  <2>3. QED
    BY <1>1, <2>1, <2>2
<1>6. /\ Len(Q) \in Nat /\ Len(Q) + 1 \in Nat /\ Len(Q) <= Len(Q) + 1 /\ Len(Q) + 1 <= Len(S)
      /\ Len(T) = Len(S) - ((Len(Q) + 1) - Len(Q)) /\ \A k \in 1..Len(Q) : T[k] = S[k]
  BY <1>1, <1>2, <1>3
<1>7. Cut(S, T, Len(Q), Len(Q) + 1)
  BY <1>5, <1>6 DEF Cut
<1>8. QED
  BY <1>3, <1>4, <1>7 DEF S, T

\* The same frame put in front of the others.
LEMMA MovedFromInbox ==
  ASSUME NEW Q \in Seq(Frame), NEW I \in Seq(Frame), I # <<>>
  PROVE  /\ Moved(Q \o I, (<<Head(I)>> \o Q) \o Tail(I), Len(Q) + 1)
         /\ <<Head(I)>> \o Q \in Seq(Frame)
<1> DEFINE S == Q \o I
           P == <<Head(I)>> \o Q
           T == P \o Tail(I)
<1>1. /\ Tail(I) \in Seq(Frame) /\ Len(Tail(I)) = Len(I) - 1
      /\ \A k \in 1..(Len(I) - 1) : Tail(I)[k] = I[k + 1]
      /\ Len(Q) \in Nat /\ Len(I) \in Nat /\ Len(I) >= 1 /\ Head(I) = I[1] /\ Head(I) \in Frame
  OBVIOUS
<1>2. /\ S \in Seq(Frame) /\ Len(S) = Len(Q) + Len(I)
      /\ \A k \in 1..Len(Q) : S[k] = Q[k]
      /\ \A k \in (Len(Q) + 1)..(Len(Q) + Len(I)) : S[k] = I[k - Len(Q)]
  BY Joined
<1>3. /\ P \in Seq(Frame) /\ Len(P) = 1 + Len(Q) /\ P[1] = Head(I)
      /\ \A k \in 2..(1 + Len(Q)) : P[k] = Q[k - 1]
  <2>1. <<Head(I)>> \in Seq(Frame) /\ Len(<<Head(I)>>) = 1 /\ <<Head(I)>>[1] = Head(I)
    BY <1>1
  <2>2. QED
    BY <2>1, <1>1
<1> HIDE DEF P
<1>4. /\ T \in Seq(Frame) /\ Len(T) = Len(P) + Len(Tail(I))
      /\ \A k \in 1..Len(P) : T[k] = P[k]
      /\ \A k \in (Len(P) + 1)..(Len(P) + Len(Tail(I))) : T[k] = Tail(I)[k - Len(P)]
  BY <1>1, <1>3, Joined
<1> HIDE DEF S, T
<1>5. Len(Q) + 1 \in DOMAIN S /\ Len(T) = Len(S)
  BY <1>1, <1>2, <1>3, <1>4
<1>6. T[1] = S[Len(Q) + 1]
  <2>1. Len(Q) + 1 \in (Len(Q) + 1)..(Len(Q) + Len(I)) /\ (Len(Q) + 1) - Len(Q) = 1 /\ 1 \in 1..Len(P)
    BY <1>1, <1>3
  <2>2. QED
    BY <1>1, <1>2, <1>3, <1>4, <2>1
<1>7. ASSUME NEW k \in 2..(Len(Q) + 1) PROVE T[k] = S[k - 1]
  <2>1. k \in 2..(1 + Len(Q)) /\ k \in 1..Len(P) /\ k - 1 \in 1..Len(Q)
    BY <1>1, <1>3
  <2>2. QED
    BY <1>2, <1>3, <1>4, <2>1
<1>8. ASSUME NEW k \in ((Len(Q) + 1) + 1)..Len(S) PROVE T[k] = S[k]
  <2>1. /\ k \in (Len(P) + 1)..(Len(P) + Len(Tail(I)))
        /\ k \in (Len(Q) + 1)..(Len(Q) + Len(I))
        /\ k - Len(P) \in 1..(Len(I) - 1) /\ (k - Len(P)) + 1 = k - Len(Q)
    BY <1>1, <1>2, <1>3
  <2>2. T[k] = Tail(I)[k - Len(P)] /\ S[k] = I[k - Len(Q)]
    BY <1>2, <1>4, <2>1
  <2>3. QED
    BY <1>1, <2>1, <2>2
<1>9. Moved(S, T, Len(Q) + 1)
  BY <1>5, <1>6, <1>7, <1>8 DEF Moved
<1>10. QED
  BY <1>3, <1>9 DEF S, T, P

\* The queue from place d on, and behind it.
LEMMA CutFromQueue ==
  ASSUME NEW Q \in Seq(Frame), NEW d \in DOMAIN Q
  PROVE  LET rest == SubSeq(Q, d + 1, Len(Q))
         IN  /\ rest \in Seq(Frame) /\ <<Q[d]>> \o rest \in Seq(Frame)
             /\ Cut(Q, rest, 0, d) /\ Cut(Q, <<Q[d]>> \o rest, 0, d - 1)
<1> DEFINE rest == SubSeq(Q, d + 1, Len(Q))
           back == <<Q[d]>> \o rest
<1>1. d \in Nat /\ d >= 1 /\ d <= Len(Q) /\ Len(Q) \in Nat /\ Q[d] \in Frame
  OBVIOUS
<1>2. /\ rest \in Seq(Frame) /\ Len(rest) = Len(Q) - d
      /\ \A k \in 1..Len(rest) : rest[k] = Q[k + d]
  <2>1. \A k \in (d + 1)..Len(Q) : Q[k] \in Frame
    BY <1>1
  <2>2. /\ rest \in Seq(Frame)
        /\ Len(rest) = (IF d + 1 <= Len(Q) THEN Len(Q) - (d + 1) + 1 ELSE 0)
        /\ \A k \in 1..(Len(Q) - (d + 1) + 1) : rest[k] = Q[(d + 1) + k - 1]
    BY <1>1, <2>1, SubSeqProperties
  <2>3. Len(rest) = Len(Q) - d
    BY <1>1, <2>2
  <2>4. ASSUME NEW k \in 1..Len(rest) PROVE rest[k] = Q[k + d]
    <3>1. k \in 1..(Len(Q) - (d + 1) + 1) /\ (d + 1) + k - 1 = k + d
      BY <1>1, <2>3
    <3>2. QED
      BY <2>2, <3>1
  <2>5. QED
    BY <2>2, <2>3, <2>4
<1> HIDE DEF rest
<1>3. /\ back \in Seq(Frame) /\ Len(back) = 1 + Len(rest) /\ back[1] = Q[d]
      /\ \A k \in 2..(1 + Len(rest)) : back[k] = rest[k - 1]
  <2>1. <<Q[d]>> \in Seq(Frame) /\ Len(<<Q[d]>>) = 1 /\ <<Q[d]>>[1] = Q[d]
    BY <1>1
  <2>2. QED
    BY <1>2, <2>1
<1> HIDE DEF back
<1>4. Cut(Q, rest, 0, d)
  <2>1. d - 0 = d /\ 0 + 1 = 1
    BY <1>1
  <2>2. \A k \in (0 + 1)..Len(rest) : rest[k] = Q[k + (d - 0)]
    BY <1>2, <2>1
  <2>3. QED
    BY <1>1, <1>2, <2>1, <2>2 DEF Cut
<1>5. Cut(Q, back, 0, d - 1)
  <2>1. d - 1 \in Nat /\ 0 <= d - 1 /\ d - 1 <= Len(Q) /\ Len(back) = Len(Q) - ((d - 1) - 0)
    BY <1>1, <1>2, <1>3
  <2>2. ASSUME NEW k \in (0 + 1)..Len(back) PROVE back[k] = Q[k + ((d - 1) - 0)]
    <3>1. CASE k = 1
      <4>1. k + ((d - 1) - 0) = d
        BY <1>1, <3>1
      <4>2. QED
        BY <1>3, <3>1, <4>1
    <3>2. CASE k # 1
      <4>1. /\ k \in 2..(1 + Len(rest)) /\ k - 1 \in 1..Len(rest)
            /\ (k - 1) + d = k + ((d - 1) - 0)
        <5>1. k \in 1..(1 + Len(rest)) /\ Len(rest) \in Nat
          BY <1>2, <1>3
        <5>2. QED
          BY ONLY <1>1, <3>2, <5>1
      <4>2. QED
        BY <1>2, <1>3, <4>1
    <3>3. QED
      BY <3>1, <3>2
  <2>3. \A k \in 1..0 : back[k] = Q[k]
    OBVIOUS
  <2>4. QED
    BY <2>1, <2>2, <2>3 DEF Cut
<1>6. QED
  BY <1>2, <1>3, <1>4, <1>5 DEF rest, back

\* The frame that a call takes from its channel, which is the first of the channel.
LEMMA FoundOnChannel ==
  ASSUME queue \in Seq(Frame), inbox \in Seq(Frame), NEW c, NEW t, t \in NextOnChannel(c)
  PROVE  /\ t.queue \in Seq(Frame) /\ t.inbox \in Seq(Frame) /\ t.frame \in Frame
         /\ <<t.frame>> \o t.queue \in Seq(Frame) /\ t.frame.channel = c
         /\ \E a, b \in Nat :
              /\ b \in DOMAIN Received /\ Received[b] = t.frame
              /\ \A k \in 1..(b - 1) : Received[k].channel # c
              /\ Cut(Received, t.queue \o t.inbox, a, b) /\ (a = 0 \/ a = b - 1)
              /\ \/ Cut(Received, (<<t.frame>> \o t.queue) \o t.inbox, 0, b - 1)
                 \/ Moved(Received, (<<t.frame>> \o t.queue) \o t.inbox, b)
<1>1. /\ Len(Received) = Len(queue) + Len(inbox) /\ Len(queue) \in Nat /\ Len(inbox) \in Nat
      /\ \A k \in 1..Len(queue) : Received[k] = queue[k]
      /\ Received \in Seq(Frame) /\ Received = queue \o inbox
  BY Joined DEF Received
<1>2. CASE Stored(c) # {}
  <2> DEFINE d == FirstStored(c)
  <2>1. Stored(c) \in SUBSET Nat
    BY DEF Stored
  <2>2. \E i \in Stored(c) : \A j \in Stored(c) : i <= j
    BY <1>2, <2>1, LeastExists
  <2>3. d \in Stored(c) /\ \A j \in Stored(c) : d <= j
    BY <2>2 DEF FirstStored
  <2> HIDE DEF d
  <2>4. d \in DOMAIN queue /\ queue[d].channel = c /\ d \in Nat /\ d >= 1 /\ d <= Len(queue)
    BY <2>3 DEF Stored
  <2>5. \A k \in 1..(d - 1) : queue[k].channel # c
    <3>1. \A k \in 1..(d - 1) : k \in DOMAIN queue /\ ~(d <= k)
      BY <2>4
    <3>2. QED
      BY <2>3, <3>1 DEF Stored
  <2>6. t = [frame |-> queue[d], inbox |-> inbox, queue |-> SubSeq(queue, d + 1, Len(queue))]
    BY <1>2 DEF NextOnChannel, d
  <2>7. /\ t.queue \in Seq(Frame) /\ <<t.frame>> \o t.queue \in Seq(Frame)
        /\ Cut(queue, t.queue, 0, d) /\ Cut(queue, <<t.frame>> \o t.queue, 0, d - 1)
    BY <2>4, <2>6, CutFromQueue
  <2>8. t.inbox = inbox /\ t.frame = queue[d] /\ t.frame \in Frame
    BY <2>4, <2>6
  <2>9. /\ Cut(Received, t.queue \o t.inbox, 0, d)
        /\ Cut(Received, (<<t.frame>> \o t.queue) \o t.inbox, 0, d - 1)
    BY <1>1, <2>7, <2>8, CutJoined
  <2>10. d \in DOMAIN Received /\ Received[d] = t.frame
    BY <1>1, <2>4, <2>8
  <2>11. \A k \in 1..(d - 1) : Received[k].channel # c
    BY <1>1, <2>4, <2>5
  <2>12. QED
    BY <2>4, <2>7, <2>8, <2>9, <2>10, <2>11
<1>3. CASE Stored(c) = {}
  <2>1. t \in FromInbox /\ t.frame.channel = c
    BY <1>3 DEF NextOnChannel
  <2>2. t = [frame |-> Head(inbox), queue |-> queue, inbox |-> Tail(inbox)] /\ inbox # <<>>
    BY <2>1 DEF FromInbox
  <2>3. /\ t.frame = Head(inbox) /\ t.queue = queue /\ t.inbox = Tail(inbox)
        /\ t.frame \in Frame /\ t.inbox \in Seq(Frame)
    BY <2>2
  <2> DEFINE b == Len(queue) + 1
  <2>4. /\ Cut(Received, t.queue \o t.inbox, b - 1, b) /\ Received[b] = t.frame
        /\ Moved(Received, (<<t.frame>> \o t.queue) \o t.inbox, b)
        /\ <<t.frame>> \o t.queue \in Seq(Frame)
    <3>1. b - 1 = Len(queue)
      BY <1>1
    <3>2. QED
      BY <1>1, <2>2, <2>3, <3>1, TakenFromInbox, MovedFromInbox
  <2>5. b \in Nat /\ b \in DOMAIN Received /\ b - 1 \in Nat
    <3>1. Len(inbox) >= 1
      BY <2>2
    <3>2. QED
      BY <1>1, <3>1
  <2>6. \A k \in 1..(b - 1) : Received[k].channel # c
    <3>1. \A k \in 1..(b - 1) : k \in DOMAIN queue /\ Received[k] = queue[k]
      BY <1>1
    <3>2. QED
      BY <1>3, <3>1 DEF Stored
  <2> HIDE DEF b
  <2>7. QED
    BY <2>1, <2>3, <2>4, <2>5, <2>6
<1>4. QED
  BY <1>2, <1>3

\* The first frame of all, for a call that waits for no channel in particular.
LEMMA FoundFirst ==
  ASSUME queue \in Seq(Frame), inbox \in Seq(Frame), NEW t, t \in FirstFrame
  PROVE  /\ t.queue \in Seq(Frame) /\ t.inbox \in Seq(Frame) /\ t.frame \in Frame
         /\ <<t.frame>> \o t.queue \in Seq(Frame)
         /\ 1 \in DOMAIN Received /\ Received[1] = t.frame
         /\ Cut(Received, t.queue \o t.inbox, 0, 1)
         /\ (<<t.frame>> \o t.queue) \o t.inbox = Received
<1>1. /\ Len(Received) = Len(queue) + Len(inbox) /\ Len(queue) \in Nat /\ Len(inbox) \in Nat
      /\ \A k \in 1..Len(queue) : Received[k] = queue[k]
      /\ Received = queue \o inbox
  BY Joined DEF Received
<1>2. CASE queue # <<>>
  <2>1. /\ t.frame = Head(queue) /\ t.queue = Tail(queue) /\ t.inbox = inbox
        /\ 1 \in DOMAIN queue /\ Head(queue) = queue[1] /\ t.frame \in Frame
    BY <1>2 DEF FirstFrame
  <2>2. Tail(queue) = SubSeq(queue, 1 + 1, Len(queue))
    <3>1. 1 + 1 = 2
      OBVIOUS
    <3>2. QED
      BY <1>2, <3>1, HeadTailProperties
  <2>3. /\ t.queue \in Seq(Frame) /\ <<t.frame>> \o t.queue \in Seq(Frame)
        /\ Cut(queue, t.queue, 0, 1)
    BY <2>1, <2>2, CutFromQueue
  <2>4. <<t.frame>> \o t.queue = queue
    <3> DEFINE f == Head(queue)
               rest == Tail(queue)
    <3>1. /\ f \in Frame /\ rest \in Seq(Frame) /\ Len(rest) = Len(queue) - 1 /\ f = queue[1]
          /\ \A k \in 1..(Len(queue) - 1) : rest[k] = queue[k + 1]
      BY <1>2
    <3> HIDE DEF f, rest
    <3>2. <<f>> \in Seq(Frame) /\ Len(<<f>>) = 1 /\ <<f>>[1] = f
      BY <3>1
    <3> DEFINE back == <<f>> \o rest
    <3>3. /\ back \in Seq(Frame) /\ Len(back) = Len(queue) /\ back[1] = f
          /\ \A k \in 2..Len(queue) : back[k] = rest[k - 1]
      BY <1>1, <3>1, <3>2
    <3> HIDE DEF back
    <3>4. ASSUME NEW k \in 1..Len(queue) PROVE back[k] = queue[k]
      <4>1. CASE k = 1
        BY <3>1, <3>3, <4>1
      <4>2. CASE k # 1
        <5>1. k \in 2..Len(queue) /\ k - 1 \in 1..(Len(queue) - 1) /\ (k - 1) + 1 = k
          BY <1>1, <4>2
        <5>2. QED
          BY <3>1, <3>3, <5>1
      <4>3. QED
        BY <4>1, <4>2
    <3>5. back = queue
      BY <3>3, <3>4, SeqEqual
    <3>6. QED
      BY <2>1, <3>5 DEF back, f, rest
  <2>5. Cut(Received, t.queue \o t.inbox, 0, 1)
    BY <1>1, <2>1, <2>3, CutJoined
  <2>6. QED
    BY <1>1, <2>1, <2>3, <2>4, <2>5
<1>3. CASE queue = <<>>
  <2>1. t = [frame |-> Head(inbox), queue |-> queue, inbox |-> Tail(inbox)] /\ inbox # <<>>
    BY <1>3 DEF FirstFrame, FromInbox
  <2>2. /\ t.frame = Head(inbox) /\ t.queue = queue /\ t.inbox = Tail(inbox)
        /\ t.frame \in Frame /\ t.inbox \in Seq(Frame)
    BY <2>1
  <2>3. Len(queue) = 0 /\ Len(inbox) >= 1 /\ 0 + 1 = 1
    BY <1>3, <2>1
  <2>4. /\ Cut(Received, t.queue \o t.inbox, Len(queue), Len(queue) + 1)
        /\ Received[Len(queue) + 1] = t.frame
    BY <1>1, <2>1, <2>2, TakenFromInbox
  <2>5. /\ <<t.frame>> \o t.queue = Append(queue, Head(inbox))
        /\ Append(queue, Head(inbox)) \in Seq(Frame)
    BY <1>3, <2>2
  <2>6. Append(queue, Head(inbox)) \o Tail(inbox) = Received
    BY <1>1, <2>1, StoringKeepsOrder
  <2>7. QED
    BY <1>1, <2>2, <2>3, <2>4, <2>5, <2>6
<1>4. QED
  BY <1>2, <1>3

-----------------------------------------------------------------------------
(* What the steps keep. *)

\* Deliveries that are kept are announced as before.
LEMMA KeptAnnounced ==
  ASSUME NEW c \in Channels, NEW S \in Seq(Frame), NEW T \in Seq(Frame), AnnouncedOn(c, S),
         Kept(c, S, T)
  PROVE  AnnouncedOn(c, T)
<1>1. ASSUME NEW j \in DOMAIN T, Delivers(c, T[j])
      PROVE  /\ T[j].number # 0
             /\ \E size \in Sizes, copies \in BOOLEAN :
                  Follow(T, c, j, Content(c, T[j].number, size, copies))
  <2>1. PICK i \in DOMAIN S : S[i] = T[j] /\ SameParts(c, S, i, T, j)
    BY <1>1 DEF Kept
  <2>2. i \in Nat /\ j \in Nat /\ T[j] \in Frame /\ T[j].number \in Nat
    <3>1. T[j].number \in Nat
      BY DEF Frame, MethodFrame, ConnectionClose, HeaderFrame, BodyFrame, Heartbeat
    <3>2. QED
      BY <3>1
  <2>3. PICK size \in Sizes, copies \in BOOLEAN :
          Follow(S, c, i, Content(c, T[j].number, size, copies))
    BY <1>1, <2>1 DEF AnnouncedOn
  <2> DEFINE content == Content(c, T[j].number, size, copies)
  <2>4. content \in Seq(Frame) /\ AllParts(c, content)
    BY <2>2, ContentIsHeaderAndBodies
  <2>5. Follow(T, c, j, content)
    BY <2>1, <2>2, <2>3, <2>4, FollowMoved
  <2>6. T[j].number # 0
    BY <1>1, <2>1 DEF AnnouncedOn
  <2>7. QED
    BY <2>5, <2>6
<1>2. QED
  BY <1>1 DEF AnnouncedOn

\* A message that is being read is read on when the parts stay.
LEMMA GoesOnAsBefore ==
  ASSUME NEW read \in Reading, NEW S \in Seq(Frame), NEW T \in Seq(Frame), GoesOn(read, S),
         SameParts(read.channel, S, 0, T, 0)
  PROVE  GoesOn(read, T)
<1> DEFINE c == read.channel
           n == read.of
<1>1. c \in Channels /\ n \in Nat /\ read.size \in Nat /\ n # 0 /\ 0 \in Nat
  BY DEF Reading, GoesOn
<1>2. ASSUME HeaderComes(c, S, n) PROVE HeaderComes(c, T, n)
  <2>1. PICK size \in Sizes, copies \in BOOLEAN : Follow(S, c, 0, Content(c, n, size, copies))
    BY <1>2 DEF HeaderComes
  <2> DEFINE content == Content(c, n, size, copies)
  <2>2. content \in Seq(Frame) /\ AllParts(c, content)
    BY <1>1, ContentIsHeaderAndBodies
  <2>3. Follow(T, c, 0, content)
    BY <1>1, <2>1, <2>2, FollowMoved
  <2>4. QED
    BY <2>3 DEF HeaderComes
<1>3. ASSUME BodyComes(c, S, n, read.size, read.body)
      PROVE  BodyComes(c, T, n, read.size, read.body)
  <2>1. PICK m \in Nat : /\ m < read.size /\ read.body = Bodies(c, n, 0, m)
                         /\ Follow(S, c, 0, Bodies(c, n, m, read.size))
    BY <1>3 DEF BodyComes
  <2> DEFINE bodies == Bodies(c, n, m, read.size)
  <2>2. bodies \in Seq(Frame) /\ AllParts(c, bodies)
    BY <1>1, <2>1, BodiesGoOn
  <2>3. Follow(T, c, 0, bodies)
    BY <1>1, <2>1, <2>2, FollowMoved
  <2>4. QED
    BY <2>1, <2>3 DEF BodyComes
<1>4. QED
  BY <1>1, <1>2, <1>3 DEF GoesOn

\* A line that stays keeps everything.
LEMMA UnchangedKeeps ==
  ASSUME NEW c, NEW S \in Seq(Frame) PROVE Kept(c, S, S) /\ SameParts(c, S, 0, S, 0)
<1>1. \A i \in DOMAIN S : i \in 0..Len(S) /\ SameParts(c, S, i, S, i)
  <2>1. ASSUME NEW i \in DOMAIN S PROVE i \in 0..Len(S) /\ SameParts(c, S, i, S, i)
    <3>1. i \in 0..Len(S) /\ Len(S) <= Len(S) /\ \A k \in DOMAIN S : S[k] = S[k]
      OBVIOUS
    <3>2. QED
      BY <3>1, ExtendSame
  <2>2. QED
    BY <2>1
<1>2. SameParts(c, S, 0, S, 0)
  <2>1. 0 \in 0..Len(S) /\ Len(S) <= Len(S) /\ \A k \in DOMAIN S : S[k] = S[k]
    OBVIOUS
  <2>2. QED
    BY <2>1, ExtendSame
<1>3. QED
  BY <1>1, <1>2 DEF Kept

\* The lines after a step.
LEMMA LinesNext ==
  ASSUME ClientInv', queue' \in Seq(Frame), NEW c \in Channels PROVE Line(c)' \in Seq(Frame)
<1>1. /\ inbox' \in Seq(Frame) /\ broker'.sending[c] \in Seq(HeaderFrame \cup BodyFrame)
      /\ HeaderFrame \cup BodyFrame \subseteq Frame
  BY DEF ClientInv, BrokerShape, Frame
<1>2. queue' \o inbox' \in Seq(Frame) /\ broker'.sending[c] \in Seq(Frame)
  BY <1>1, Joined, SeqMonotonic
<1>3. (queue' \o inbox') \o broker'.sending[c] \in Seq(Frame)
  BY <1>2, Joined
<1>4. QED
  BY <1>3 DEF Line, Received

\* What a step keeps on the lines stays announced.
LEMMA KeptOnLines ==
  ASSUME MessagesInv, ClientInv', queue' \in Seq(Frame), NEW c \in Channels,
         Kept(c, Line(c), Line(c)')
  PROVE  Line(c) \in Seq(Frame) /\ Line(c)' \in Seq(Frame) /\ AnnouncedOn(c, Line(c)')
<1>1. Line(c) \in Seq(Frame) /\ Line(c)' \in Seq(Frame)
  BY LinesAreFrames, LinesNext DEF MessagesInv
<1>2. AnnouncedOn(c, Line(c)')
  BY <1>1, KeptAnnounced DEF MessagesInv, Announced
<1>3. QED
  BY <1>1, <1>2

\* The messages returned stay whole, and what is announced stays announced.
LEMMA AnnouncedStep ==
  ASSUME MessagesInv, ClientInv', SentOnOwn', queue' \in Seq(Frame), UNCHANGED messages,
         \A c \in Channels : AnnouncedOn(c, Line(c)'),
         \/ call'.op # "read"
         \/ call' = call /\ \A c \in Channels : SameParts(c, Line(c), 0, Line(c)', 0)
         \/ call' \in Reading /\ ReadingGoesOn'
  PROVE  MessagesInv'
<1>1. \A c \in Channels : Line(c) \in Seq(Frame) /\ Line(c)' \in Seq(Frame)
  BY LinesAreFrames, LinesNext DEF MessagesInv
<1>2. Announced'
  BY DEF Announced
<1>3. ReadingGoesOn' /\ (call'.op = "read" => call' \in Reading)
  <2>1. CASE call'.op # "read"
    BY <2>1 DEF ReadingGoesOn
  <2>2. CASE call' = call /\ \A c \in Channels : SameParts(c, Line(c), 0, Line(c)', 0)
    <3>1. CASE call.op = "read" /\ call.by = "deliver"
      <4>1. call \in Reading /\ call.channel \in Channels /\ GoesOn(call, Line(call.channel))
        BY <3>1 DEF MessagesInv, ReadingGoesOn, Reading
      <4>2. PICK c \in Channels : c = call.channel
        BY <4>1
      <4>3. GoesOn(call, Line(c)')
        BY <1>1, <2>2, <4>1, <4>2, GoesOnAsBefore
      <4>4. GoesOn(call, Line(call.channel))'
        BY <2>2, <4>2, <4>3
      <4>5. QED
        BY <2>2, <4>1, <4>4 DEF ReadingGoesOn
    <3>2. QED
      BY <2>2, <3>1 DEF ReadingGoesOn, MessagesInv
  <2>3. CASE call' \in Reading /\ ReadingGoesOn'
    BY <2>3
  <2>4. QED
    BY <2>1, <2>2, <2>3
<1>4. messages' \in Seq(Reading) /\ ConsumedIsOneDelivery'
  BY DEF MessagesInv, ConsumedIsOneDelivery, IsOneDelivery
<1>5. QED
  BY <1>2, <1>3, <1>4 DEF MessagesInv

\* A step that keeps the deliveries of every line keeps what is announced.
LEMMA KeepingStep ==
  ASSUME MessagesInv, ClientInv', SentOnOwn', queue' \in Seq(Frame), UNCHANGED messages,
         \A c \in Channels : Kept(c, Line(c), Line(c)'),
         \/ call'.op # "read"
         \/ call' = call /\ \A c \in Channels : SameParts(c, Line(c), 0, Line(c)', 0)
         \/ call' \in Reading /\ ReadingGoesOn'
  PROVE  MessagesInv'
<1>1. \A c \in Channels : AnnouncedOn(c, Line(c)')
  BY KeptOnLines
<1>2. QED
  BY <1>1, AnnouncedStep

\* What a step does to the call that reads a message, when it does not read it on itself.
CallKept ==
  call'.op # "read" \/ call' = call \/ (call' \in Reading /\ call'.by # "deliver")

\* A step that leaves the frames as they are.
LEMMA QuietStep ==
  ASSUME MessagesInv, ClientInv', queue' \in Seq(Frame), Received' = Received,
         UNCHANGED <<messages, broker.sending>>, CallKept
  PROVE  MessagesInv'
<1>1. ASSUME NEW c \in Channels
      PROVE  Kept(c, Line(c), Line(c)') /\ SameParts(c, Line(c), 0, Line(c)', 0)
  <2>1. Line(c) \in Seq(Frame) /\ Line(c)' = Line(c)
    BY LinesAreFrames DEF MessagesInv, Line
  <2>2. QED
    BY <2>1, UnchangedKeeps
<1>2. SentOnOwn'
  BY DEF MessagesInv, SentOnOwn
<1>3. QED
  BY <1>1, <1>2, KeepingStep DEF CallKept, ReadingGoesOn

\* What is cut from the frames received is cut from every line.
LEMMA LinesAreCut ==
  ASSUME MessagesInv, ClientInv', queue' \in Seq(Frame), NEW a, NEW b,
         Cut(Received, Received', a, b), UNCHANGED broker.sending, NEW c \in Channels
  PROVE  /\ Line(c) \in Seq(Frame) /\ Line(c)' \in Seq(Frame) /\ Cut(Line(c), Line(c)', a, b)
         /\ \A k \in DOMAIN Received : k \in DOMAIN Line(c) /\ Line(c)[k] = Received[k]
<1> DEFINE X == broker.sending[c]
           R == Received
           Q == Received'
<1>1. /\ R \in Seq(Frame) /\ X \in Seq(Frame) /\ Line(c) \in Seq(Frame)
      /\ Line(c) = R \o X /\ Line(c)' = Q \o X
  BY LinesAreFrames DEF MessagesInv, Line
<1>2. Q \in Seq(Frame)
  <2>1. inbox' \in Seq(Frame)
    BY DEF ClientInv
  <2>2. QED
    BY <2>1, Joined DEF Received
<1>3. Cut(R, Q, a, b)
  OBVIOUS
<1> HIDE DEF X, R, Q
<1>4. Q \o X \in Seq(Frame) /\ Cut(R \o X, Q \o X, a, b)
  BY <1>1, <1>2, <1>3, Joined, CutJoined
<1>5. \A k \in DOMAIN R : k \in DOMAIN (R \o X) /\ (R \o X)[k] = R[k]
  BY <1>1, Joined
<1>6. QED
  BY <1>1, <1>4, <1>5 DEF R

\* A step that takes a frame which is no part of a message.
LEMMA TakingOutStep ==
  ASSUME MessagesInv, ClientInv', queue' \in Seq(Frame), NEW a \in Nat,
         Cut(Received, Received', a, a + 1), Received[a + 1].type \notin {"HEADER", "BODY"},
         UNCHANGED <<messages, broker.sending>>, CallKept
  PROVE  MessagesInv'
<1>1. ASSUME NEW c \in Channels
      PROVE  Kept(c, Line(c), Line(c)') /\ SameParts(c, Line(c), 0, Line(c)', 0)
  <2> DEFINE S == Line(c)
             T == Line(c)'
  <2>1. /\ S \in Seq(Frame) /\ T \in Seq(Frame) /\ Cut(S, T, a, a + 1)
        /\ \A k \in DOMAIN Received : k \in DOMAIN S /\ S[k] = Received[k]
    BY LinesAreCut
  <2>2. \A k \in (a + 1)..(a + 1) : ~Part(c, S[k])
    <3>1. Received \in Seq(Frame) /\ a + 1 \in 1..Len(Received)
      BY LinesAreFrames DEF MessagesInv, Cut
    <3>2. \A k \in (a + 1)..(a + 1) : k = a + 1
      OBVIOUS
    <3>3. QED
      BY <2>1, <3>1, <3>2 DEF Part
  <2> HIDE DEF S, T
  <2>3. Kept(c, S, T)
    BY <2>1, <2>2, CutKeeps
  <2>4. SameParts(c, S, 0, T, 0)
    <3>1. 0 \in 0..Len(S) /\ 0 <= a /\ ~(0 >= a + 1)
      BY <2>1
    <3>2. SameParts(c, S, 0, T, IF 0 >= a + 1 THEN 0 - ((a + 1) - a) ELSE 0)
      BY <2>1, <2>2, <3>1, CutSame
    <3>3. QED
      BY <3>1, <3>2
  <2>5. QED
    BY <2>3, <2>4 DEF S, T
<1>2. SentOnOwn'
  BY DEF MessagesInv, SentOnOwn
<1>3. QED
  BY <1>1, <1>2, KeepingStep DEF CallKept, ReadingGoesOn

\* Requests, and the ends of waits that no frame ends.
LEMMA QuietSteps ==
  ASSUME MessagesInv, ClientInv',
         \/ RpcFails \/ RpcTimeout \/ StartConsume \/ ConsumeTimeout \/ MessageFails
         \/ \E c \in Channels : \E r \in Requests : Request(c, r)
  PROVE  MessagesInv'
<1>1. UNCHANGED <<inbox, queue, messages>> /\ queue' \in Seq(Frame)
  BY DEF RpcFails, RpcTimeout, StartConsume, ConsumeTimeout, MessageFails, Request, MessagesInv
<1>2. Received' = Received
  BY <1>1 DEF Received
<1>3. UNCHANGED broker.sending
  BY DEF RpcFails, RpcTimeout, StartConsume, ConsumeTimeout, MessageFails, Request, MessagesInv,
         ClientInv, BrokerShape
<1>4. call'.op # "read"
  <2>1. CASE RpcFails \/ RpcTimeout
    BY <2>1 DEF RpcFails, RpcTimeout, AfterSetup, NoCall, Crashed
  <2>2. CASE StartConsume \/ ConsumeTimeout \/ MessageFails
    BY <2>2 DEF StartConsume, ConsumeTimeout, MessageFails, Fail, NoCall, Stopped
  <2>3. CASE \E c \in Channels : \E r \in Requests : Request(c, r)
    BY <2>3 DEF Request, AfterSetup, NoCall, Crashed
  <2>4. QED
    BY <2>1, <2>2, <2>3
<1>5. QED
  BY <1>1, <1>2, <1>3, <1>4, QuietStep DEF CallKept

\* Joining frames is associative.
LEMMA Regrouped ==
  ASSUME NEW S \in Seq(Frame), NEW T \in Seq(Frame), NEW U \in Seq(Frame)
  PROVE  (S \o T) \o U = S \o (T \o U)
  BY ConcatAssociative

\* The two parts of a sequence make it up.
LEMMA SplitIsJoined ==
  ASSUME NEW S \in Seq(Frame), NEW k \in 0..Len(S)
  PROVE  /\ SubSeq(S, 1, k) \in Seq(Frame) /\ SubSeq(S, k + 1, Len(S)) \in Seq(Frame)
         /\ SubSeq(S, 1, k) \o SubSeq(S, k + 1, Len(S)) = S
<1> DEFINE A == SubSeq(S, 1, k)
           B == SubSeq(S, k + 1, Len(S))
<1>1. Len(S) \in Nat /\ k \in Nat /\ k <= Len(S)
  OBVIOUS
<1>2. /\ A \in Seq(Frame) /\ Len(A) = k /\ \A i \in 1..k : A[i] = S[i]
  BY <1>1
<1>3. /\ B \in Seq(Frame) /\ Len(B) = Len(S) - k
      /\ \A i \in 1..(Len(S) - k) : B[i] = S[k + i]
  BY <1>1
<1> HIDE DEF A, B
<1>4. /\ A \o B \in Seq(Frame) /\ Len(A \o B) = Len(S)
      /\ \A i \in 1..k : (A \o B)[i] = A[i]
      /\ \A i \in (k + 1)..Len(S) : (A \o B)[i] = B[i - k]
  BY <1>1, <1>2, <1>3, Joined
<1>5. ASSUME NEW i \in 1..Len(S) PROVE (A \o B)[i] = S[i]
  <2>1. CASE i \in 1..k
    BY <1>2, <1>4, <2>1
  <2>2. CASE i \in (k + 1)..Len(S)
    <3>1. i - k \in 1..(Len(S) - k) /\ k + (i - k) = i
      BY <1>1, <2>2
    <3>2. (A \o B)[i] = B[i - k] /\ B[i - k] = S[k + (i - k)]
      BY <1>3, <1>4, <2>2, <3>1
    <3>3. QED
      BY <3>1, <3>2
  <2>3. i \in 1..k \/ i \in (k + 1)..Len(S)
    BY <1>1
  <2>4. QED
    BY <2>1, <2>2, <2>3
<1>6. A \o B = S
  BY <1>1, <1>4, <1>5, SeqEqual
<1>7. QED
  BY <1>2, <1>3, <1>6 DEF A, B

\* Publishing stores what has arrived.
LEMMA PublishQuietly ==
  ASSUME MessagesInv, ClientInv', NEW c \in Channels, Publish(c) PROVE MessagesInv'
<1>1. PICK k \in 0..Len(inbox) :
        queue' = queue \o SubSeq(inbox, 1, k) /\ inbox' = SubSeq(inbox, k + 1, Len(inbox))
  BY DEF Publish
<1>2. inbox \in Seq(Frame) /\ queue \in Seq(Frame)
  BY DEF MessagesInv, ClientInv
<1> DEFINE A == SubSeq(inbox, 1, k)
           B == SubSeq(inbox, k + 1, Len(inbox))
<1>3. A \in Seq(Frame) /\ B \in Seq(Frame) /\ A \o B = inbox
  BY <1>2, SplitIsJoined
<1>4. queue' = queue \o A /\ inbox' = B
  BY <1>1
<1> HIDE DEF A, B
<1>5. (queue \o A) \o B = queue \o (A \o B) /\ queue \o A \in Seq(Frame)
  <2>1. (queue \o A) \o B = queue \o (A \o B)
    BY <1>2, <1>3, Regrouped
  <2>2. queue \o A \in Seq(Frame)
    BY <1>2, <1>3
  <2>3. QED
    BY <2>1, <2>2
<1>6. Received' = Received /\ queue' \in Seq(Frame)
  BY <1>3, <1>4, <1>5 DEF Received
<1>7. UNCHANGED <<messages, broker.sending>> /\ UNCHANGED call
  BY DEF Publish, MessagesInv, ClientInv, BrokerShape
<1>8. QED
  BY <1>6, <1>7, QuietStep DEF CallKept

\* A stored frame stays where it is among the others.
LEMMA StoreOtherStep ==
  ASSUME MessagesInv, ClientInv', StoreOther PROVE MessagesInv'
<1>1. PICK t \in FromInbox : StoreFrame(t)
  BY DEF StoreOther
<1>2. /\ inbox # <<>> /\ queue' = Append(queue, Head(inbox)) /\ inbox' = Tail(inbox)
      /\ queue \in Seq(Frame) /\ inbox \in Seq(Frame)
  BY <1>1 DEF StoreFrame, FromInbox, MessagesInv, ClientInv
<1>3. Received' = Received /\ queue' \in Seq(Frame)
  BY <1>2, StoringKeepsOrder DEF Received
<1>4. QED
  BY <1>3, QuietStep DEF StoreOther, CallKept

\* A heartbeat is taken off and thrown away (wait_frame_inner).
LEMMA SkipHeartbeatStep ==
  ASSUME MessagesInv, ClientInv', SkipHeartbeat PROVE MessagesInv'
<1>1. /\ inbox # <<>> /\ queue' = queue /\ inbox' = Tail(inbox) /\ Head(inbox) = Heartbeat
      /\ queue \in Seq(Frame) /\ inbox \in Seq(Frame) /\ UNCHANGED <<messages, broker, call>>
  BY DEF SkipHeartbeat, MessagesInv, ClientInv
<1>2. /\ Cut(Received, Received', Len(queue), Len(queue) + 1)
      /\ Received[Len(queue) + 1] = Heartbeat
  BY <1>1, TakenFromInbox DEF Received
<1>3. Heartbeat.type \notin {"HEADER", "BODY"} /\ Len(queue) \in Nat
  BY <1>1 DEF Heartbeat
<1>4. QED
  BY <1>1, <1>2, <1>3, TakingOutStep DEF CallKept

\* A wait for a reply stores what does not answer it.
LEMMA RpcFrameKeeps ==
  ASSUME MessagesInv, ClientInv', RpcFrame PROVE MessagesInv'
<1>1. PICK t \in FromInbox :
        IF ~Concerns(t.frame) THEN StoreFrame(t) /\ UNCHANGED <<call, next, answer>>
        ELSE /\ Take(t)
             /\ IF t.frame.id = "get_ok"
                THEN call' = Read(t.frame) /\ UNCHANGED next
                ELSE AfterSetup(call.request, ~IsClose(t.frame))
  BY DEF RpcFrame
<1>2. /\ inbox # <<>> /\ t.frame = Head(inbox) /\ t.queue = queue /\ t.inbox = Tail(inbox)
      /\ queue \in Seq(Frame) /\ inbox \in Seq(Frame) /\ t.frame \in Frame
      /\ UNCHANGED <<messages, broker>>
  BY DEF FromInbox, MessagesInv, ClientInv, RpcFrame
<1>3. CASE ~Concerns(t.frame)
  <2>1. queue' = Append(queue, Head(inbox)) /\ inbox' = Tail(inbox) /\ UNCHANGED call
    BY <1>1, <1>2, <1>3 DEF StoreFrame
  <2>2. Received' = Received /\ queue' \in Seq(Frame)
    BY <1>2, <2>1, StoringKeepsOrder DEF Received
  <2>3. QED
    BY <1>2, <2>1, <2>2, QuietStep DEF CallKept
<1>4. CASE Concerns(t.frame)
  <2>1. queue' = queue /\ inbox' = Tail(inbox)
    BY <1>1, <1>2, <1>4 DEF Take
  <2>2. /\ Cut(Received, Received', Len(queue), Len(queue) + 1)
        /\ Received[Len(queue) + 1] = t.frame
    BY <1>2, <2>1, TakenFromInbox DEF Received
  <2>3. t.frame.type = "METHOD" /\ Len(queue) \in Nat
    BY <1>2, <1>4 DEF Concerns
  <2>4. CallKept
    <3>1. CASE t.frame.id = "get_ok"
      <4>1. t.frame.channel \in Channels /\ t.frame.number \in Nat
        BY <1>2, <3>1 DEF Frame, MethodFrame, ConnectionClose, HeaderFrame, BodyFrame, Heartbeat
      <4>2. call' = Read(t.frame)
        BY <1>1, <1>4, <3>1
      <4>3. call' \in Reading /\ call'.by # "deliver"
        BY <3>1, <4>1, <4>2 DEF Read, Reading
      <4>4. QED
        BY <4>3 DEF CallKept
    <3>2. CASE t.frame.id # "get_ok"
      BY <1>1, <1>4, <3>2 DEF AfterSetup, NoCall, Crashed, CallKept
    <3>3. QED
      BY <3>1, <3>2
  <2>5. QED
    BY <1>2, <2>1, <2>2, <2>3, <2>4, TakingOutStep
<1>5. QED
  BY <1>3, <1>4

\* The content of a delivery that amqp_consume_message takes comes next on its channel.
LEMMA ConsumeFrameKeeps ==
  ASSUME MessagesInv, ClientInv', ConsumeFrame PROVE MessagesInv'
<1>1. PICK t \in FirstFrame :
        IF t.frame.id = "deliver" THEN Take(t) /\ call' = Read(t.frame)
        ELSE PutBack(t) /\ Fail
  BY DEF ConsumeFrame
<1>2. /\ queue \in Seq(Frame) /\ inbox \in Seq(Frame) /\ UNCHANGED <<messages, broker>>
  BY DEF MessagesInv, ClientInv, ConsumeFrame
<1>3. /\ t.queue \in Seq(Frame) /\ t.inbox \in Seq(Frame) /\ t.frame \in Frame
      /\ <<t.frame>> \o t.queue \in Seq(Frame)
      /\ 1 \in DOMAIN Received /\ Received[1] = t.frame
      /\ Cut(Received, t.queue \o t.inbox, 0, 1)
      /\ (<<t.frame>> \o t.queue) \o t.inbox = Received
  BY <1>2, FoundFirst
<1>4. CASE t.frame.id # "deliver"
  <2>1. Received' = Received /\ queue' \in Seq(Frame)
    BY <1>1, <1>3, <1>4 DEF PutBack, Received
  <2>2. call'.op # "read"
    BY <1>1, <1>4 DEF Fail, NoCall, Stopped
  <2>3. QED
    BY <1>2, <2>1, <2>2, QuietStep DEF CallKept
<1>5. CASE t.frame.id = "deliver"
  <2> DEFINE f == t.frame
             d == f.channel
             n == f.number
  <2>1. d \in Channels /\ n \in Nat /\ f.type = "METHOD"
    BY <1>3, <1>5 DEF Frame, MethodFrame, ConnectionClose, HeaderFrame, BodyFrame, Heartbeat
  <2>2. Cut(Received, Received', 0, 1) /\ queue' \in Seq(Frame) /\ call' = Read(f)
    BY <1>1, <1>3, <1>5 DEF Take, Received
  <2>3. Received[1] = f /\ f.id = "deliver" /\ 1 \in DOMAIN Received
    BY <1>3, <1>5
  <2> HIDE DEF f
  <2>4. ASSUME NEW c \in Channels
        PROVE  /\ Line(c) \in Seq(Frame) /\ Line(c)' \in Seq(Frame)
               /\ Cut(Line(c), Line(c)', 0, 1) /\ 1 \in DOMAIN Line(c) /\ Line(c)[1] = f
    BY <1>2, <2>2, <2>3, LinesAreCut
  <2>5. ASSUME NEW c \in Channels PROVE Kept(c, Line(c), Line(c)')
    <3>1. \A i \in 1..0 : ~Delivers(c, Line(c)[i])
      OBVIOUS
    <3>2. QED
      BY <2>4, <3>1, CutKeeps
  <2>6. n # 0 /\ HeaderComes(d, Line(d)', n)
    <3> DEFINE S == Line(d)
               T == Line(d)'
    <3>1. /\ S \in Seq(Frame) /\ T \in Seq(Frame) /\ Cut(S, T, 0, 1) /\ 1 \in DOMAIN S
          /\ S[1] = f
      BY <2>1, <2>4
    <3>2. AnnouncedOn(d, S)
      BY <2>1 DEF MessagesInv, Announced
    <3> HIDE DEF S, T
    <3>3. Delivers(d, S[1]) /\ S[1].number = n
      BY <2>3, <3>1 DEF Delivers
    <3>4. n # 0
      BY <3>1, <3>2, <3>3 DEF AnnouncedOn
    <3>5. PICK size \in Sizes, copies \in BOOLEAN : Follow(S, d, 1, Content(d, n, size, copies))
      BY <3>1, <3>2, <3>3 DEF AnnouncedOn
    <3>6. SameParts(d, S, 1, T, 0)
      <4>1. 1 \in 0..Len(S) /\ 1 >= 1 /\ 1 - (1 - 0) = 0
        BY <3>1
      <4>2. SameParts(d, S, 1, T, IF 1 >= 1 THEN 1 - (1 - 0) ELSE 1)
        BY <3>1, <4>1, CutSame
      <4>3. QED
        BY <4>1, <4>2
    <3> DEFINE content == Content(d, n, size, copies)
    <3>7. content \in Seq(Frame) /\ AllParts(d, content)
      BY <2>1, ContentIsHeaderAndBodies
    <3>8. Follow(T, d, 0, content)
      BY <3>1, <3>5, <3>6, <3>7, FollowMoved
    <3>9. HeaderComes(d, T, n)
      BY <3>8 DEF HeaderComes
    <3>10. QED
      BY <3>4, <3>9 DEF T
  <2>7. /\ call' \in Reading /\ call'.channel = d /\ call'.of = n /\ call'.header = 0
        /\ call'.body = <<>>
    BY <2>1, <2>2, <2>3 DEF Read, Reading
  <2>8. GoesOn(call', Line(d)')
    BY <2>6, <2>7 DEF GoesOn
  <2>9. ReadingGoesOn'
    <3>1. GoesOn(call, Line(call.channel))'
      BY <2>7, <2>8
    <3>2. QED
      BY <3>1 DEF ReadingGoesOn
  <2>10. SentOnOwn'
    BY <1>2 DEF MessagesInv, SentOnOwn
  <2>11. QED
    BY <1>2, <2>2, <2>5, <2>7, <2>9, <2>10, KeepingStep
<1>6. QED
  BY <1>4, <1>5

\* The frame f is the first of S for channel c; what is behind it there is left in T.
Leaves(c, S, T, f) ==
  \E a, b \in Nat :
    /\ b \in DOMAIN S /\ S[b] = f /\ SameParts(c, S, b, T, a)
    /\ \A j \in 1..(b - 1) : ~Part(c, S[j])
    /\ \A j \in 1..a : ~Part(c, T[j])

\* The next part on a channel is the one that comes next, and the others follow.
LEMMA NextPart ==
  ASSUME NEW c, NEW S \in Seq(Frame), NEW T \in Seq(Frame), NEW f, Leaves(c, S, T, f),
         Part(c, f),
         NEW frames \in Seq(Frame), AllParts(c, frames), frames # <<>>, Follow(S, c, 0, frames)
  PROVE  f = frames[1] /\ Follow(T, c, 0, Tail(frames))
<1>0. PICK a \in Nat, b \in Nat :
    /\ b \in DOMAIN S /\ S[b] = f /\ SameParts(c, S, b, T, a)
    /\ \A j \in 1..(b - 1) : ~Part(c, S[j])
    /\ \A j \in 1..a : ~Part(c, T[j])
  BY DEF Leaves
<1>1. S[b] = frames[1] /\ Follow(S, c, b, Tail(frames))
  BY <1>0, FirstFollows
<1> DEFINE rest == Tail(frames)
<1>2. rest \in Seq(Frame)
  OBVIOUS
<1>3. AllParts(c, rest)
  <2>1. \A k \in DOMAIN rest : k + 1 \in DOMAIN frames /\ rest[k] = frames[k + 1]
    OBVIOUS
  <2>2. QED
    BY <2>1 DEF AllParts
<1>4. Follow(S, c, b, rest)
  BY <1>1
<1> HIDE DEF rest
<1>5. Follow(T, c, a, rest)
  BY <1>0, <1>2, <1>3, <1>4, FollowMoved
<1>6. Follow(T, c, 0, rest)
  BY <1>0, <1>2, <1>5, FollowFromStart
<1>7. QED
  BY <1>0, <1>1, <1>6 DEF rest

\* What a call that reads a message takes is the first frame of its channel; with it
\* frames of other channels may go, and every delivery that stays keeps its content.
LEMMA TakingOnChannel ==
  ASSUME MessagesInv, ClientInv', call.op = "read", NEW t, t \in NextOnChannel(call.channel),
         Take(t), UNCHANGED broker.sending
  PROVE  /\ queue' \in Seq(Frame) /\ t.frame \in Frame /\ t.frame.channel = call.channel
         /\ \A c \in Channels : Kept(c, Line(c), Line(c)')
         /\ \A c \in Channels : c = call.channel => Leaves(c, Line(c), Line(c)', t.frame)
<1>1. queue \in Seq(Frame) /\ inbox \in Seq(Frame) /\ call.channel \in Channels
  BY DEF MessagesInv, ClientInv, Reading
<1>2. /\ t.queue \in Seq(Frame) /\ t.frame \in Frame /\ t.frame.channel = call.channel
      /\ queue' = t.queue /\ inbox' = t.inbox
  BY <1>1, FoundOnChannel DEF Take
<1>3. PICK a, b \in Nat :
        /\ b \in DOMAIN Received /\ Received[b] = t.frame
        /\ \A k \in 1..(b - 1) : Received[k].channel # call.channel
        /\ Cut(Received, t.queue \o t.inbox, a, b) /\ (a = 0 \/ a = b - 1)
        /\ \/ Cut(Received, (<<t.frame>> \o t.queue) \o t.inbox, 0, b - 1)
           \/ Moved(Received, (<<t.frame>> \o t.queue) \o t.inbox, b)
  BY <1>1, FoundOnChannel
<1>4. Cut(Received, Received', a, b)
  BY <1>2, <1>3 DEF Received
<1>5. ASSUME NEW c \in Channels
      PROVE  /\ Line(c) \in Seq(Frame) /\ Line(c)' \in Seq(Frame)
             /\ Cut(Line(c), Line(c)', a, b)
             /\ \A k \in DOMAIN Received : k \in DOMAIN Line(c) /\ Line(c)[k] = Received[k]
  BY <1>2, <1>4, LinesAreCut
<1>6. Len(Received) \in Nat /\ DOMAIN Received = 1..Len(Received) /\ b >= 1 /\ b <= Len(Received)
  BY <1>3, LinesAreFrames DEF MessagesInv
<1>7. ASSUME NEW c \in Channels PROVE Kept(c, Line(c), Line(c)')
  <2> DEFINE S == Line(c)
  <2>1. ASSUME NEW k \in (a + 1)..b, Part(c, S[k]), NEW i \in 1..a PROVE ~Delivers(c, S[i])
    <3>1. a # 0 /\ a = b - 1 /\ k = b
      BY <1>3, <1>6
    <3>2. i \in 1..(b - 1) /\ i \in DOMAIN Received
      BY <1>6, <3>1
    <3>3. S[b] = Received[b] /\ S[i] = Received[i]
      BY <1>3, <1>5, <3>2
    <3>4. S[b] = t.frame /\ S[i].channel # call.channel
      BY <1>3, <3>2, <3>3
    <3>5. QED
      BY <1>2, <2>1, <3>1, <3>4 DEF Part, Delivers
  <2>2. QED
    BY <1>5, <2>1, CutKeeps
<1>8. ASSUME NEW c \in Channels, c = call.channel
      PROVE  Leaves(c, Line(c), Line(c)', t.frame)
  <2> DEFINE S == Line(c)
             T == Line(c)'
  <2>1. /\ S \in Seq(Frame) /\ T \in Seq(Frame) /\ Cut(S, T, a, b)
        /\ b \in DOMAIN S /\ S[b] = t.frame
        /\ \A k \in 1..(b - 1) : S[k].channel # c
    <3>1. \A k \in 1..(b - 1) : k \in DOMAIN Received
      BY <1>6
    <3>2. /\ S \in Seq(Frame) /\ T \in Seq(Frame) /\ Cut(S, T, a, b)
          /\ \A k \in DOMAIN Received : k \in DOMAIN S /\ S[k] = Received[k]
      BY <1>5
    <3> HIDE DEF S, T
    <3>3. b \in DOMAIN S /\ S[b] = t.frame
      BY <1>3, <3>2
    <3>4. \A k \in 1..(b - 1) : S[k].channel # c
      BY <1>3, <1>8, <3>1, <3>2
    <3>5. QED
      BY <3>2, <3>3, <3>4
  <2> HIDE DEF S, T
  <2>2. \A j \in 1..(b - 1) : ~Part(c, S[j])
    BY <2>1 DEF Part
  <2>3. \A j \in 1..a : ~Part(c, T[j])
    <3>1. \A j \in 1..a : T[j] = S[j]
      BY <2>1 DEF Cut
    <3>2. \A j \in 1..a : j \in 1..(b - 1)
      BY <1>3
    <3>3. QED
      BY <2>2, <3>1, <3>2
  <2>4. SameParts(c, S, b, T, a)
    <3>1. b \in 0..Len(S) /\ b >= b /\ b - (b - a) = a
      BY <2>1
    <3>2. SameParts(c, S, b, T, IF b >= b THEN b - (b - a) ELSE b)
      BY <2>1, <3>1, CutSame
    <3>3. QED
      BY <3>1, <3>2
  <2>5. Leaves(c, S, T, t.frame)
    BY <2>1, <2>2, <2>3, <2>4 DEF Leaves
  <2>6. QED
    BY <2>5 DEF S, T
<1>9. QED
  BY <1>1, <1>2, <1>7, <1>8

\* Nothing is lost of the deliveries that stay when a frame is put back.
LEMMA PuttingBackOnChannel ==
  ASSUME MessagesInv, ClientInv', call.op = "read", NEW t, t \in NextOnChannel(call.channel),
         PutBack(t), UNCHANGED broker.sending
  PROVE  queue' \in Seq(Frame) /\ \A c \in Channels : Kept(c, Line(c), Line(c)')
<1>1. queue \in Seq(Frame) /\ inbox \in Seq(Frame) /\ call.channel \in Channels
  BY DEF MessagesInv, ClientInv, Reading
<1>2. /\ <<t.frame>> \o t.queue \in Seq(Frame) /\ t.frame.channel = call.channel
      /\ queue' = <<t.frame>> \o t.queue /\ inbox' = t.inbox
  BY <1>1, FoundOnChannel DEF PutBack
<1>3. PICK b \in Nat :
        /\ b \in DOMAIN Received /\ Received[b] = t.frame
        /\ \A k \in 1..(b - 1) : Received[k].channel # call.channel
        /\ \/ Cut(Received, (<<t.frame>> \o t.queue) \o t.inbox, 0, b - 1)
           \/ Moved(Received, (<<t.frame>> \o t.queue) \o t.inbox, b)
  BY <1>1, FoundOnChannel
<1>4. Cut(Received, Received', 0, b - 1) \/ Moved(Received, Received', b)
  BY <1>2, <1>3 DEF Received
<1>5. ASSUME NEW c \in Channels PROVE Kept(c, Line(c), Line(c)')
  <2>1. CASE Cut(Received, Received', 0, b - 1)
    <3>1. /\ Line(c) \in Seq(Frame) /\ Line(c)' \in Seq(Frame)
          /\ Cut(Line(c), Line(c)', 0, b - 1)
      BY <1>2, <2>1, LinesAreCut
    <3>2. \A i \in 1..0 : ~Delivers(c, Line(c)[i])
      OBVIOUS
    <3>3. QED
      BY <3>1, <3>2, CutKeeps
  <2>2. CASE Moved(Received, Received', b)
    <3> DEFINE X == broker.sending[c]
               R == Received
               Q == Received'
    <3>1. /\ R \in Seq(Frame) /\ X \in Seq(Frame) /\ Line(c) = R \o X /\ Line(c)' = Q \o X
      BY LinesAreFrames DEF MessagesInv, Line
    <3>2. Q \in Seq(Frame)
      <4>1. inbox' \in Seq(Frame)
        BY DEF ClientInv
      <4>2. QED
        BY <1>2, <4>1, Joined DEF Received
    <3>3. Moved(R, Q, b) /\ b \in DOMAIN R /\ \A k \in 1..(b - 1) : R[k].channel # R[b].channel
      BY <1>2, <1>3, <2>2
    <3> HIDE DEF X, R, Q
    <3>4. /\ R \o X \in Seq(Frame) /\ Q \o X \in Seq(Frame) /\ Moved(R \o X, Q \o X, b)
      BY <3>1, <3>2, <3>3, Joined, MoveJoined
    <3>5. \A k \in 1..(b - 1) : (R \o X)[k].channel # (R \o X)[b].channel
      <4>1. \A k \in 1..b : (R \o X)[k] = R[k]
        BY <3>1, <3>3, Joined
      <4>2. QED
        BY <3>3, <4>1
    <3>6. QED
      BY <3>1, <3>4, <3>5, MoveKeeps
  <2>3. QED
    BY <1>4, <2>1, <2>2
<1>6. QED
  BY <1>2, <1>5

\* A message that is returned is whole, one that is not goes on.
LEMMA GoingOnStep ==
  ASSUME MessagesInv, ClientInv', queue' \in Seq(Frame), UNCHANGED broker.sending,
         \A c \in Channels : Kept(c, Line(c), Line(c)'), NEW read \in Reading, GoOnReading(read),
         read.by = "deliver" =>
           /\ AllRead(read.size, read.body) => IsOneDelivery(read)
           /\ ~AllRead(read.size, read.body) => GoesOn(read, Line(read.channel)')
  PROVE  MessagesInv'
<1>1. SentOnOwn'
  BY DEF MessagesInv, SentOnOwn
<1>2. CASE AllRead(read.size, read.body)
  <2>1. messages' = Append(messages, read) /\ call' = NoCall
    BY <1>2 DEF GoOnReading
  <2>2. messages \in Seq(Reading) /\ messages' \in Seq(Reading)
    BY <2>1 DEF MessagesInv
  <2>3. ASSUME NEW i \in DOMAIN messages', messages'[i].by = "deliver"
        PROVE  IsOneDelivery(messages'[i])
    <3>1. CASE i \in DOMAIN messages
      <4>1. messages'[i] = messages[i]
        BY <2>1, <2>2, <3>1
      <4>2. QED
        BY <2>3, <3>1, <4>1 DEF MessagesInv, ConsumedIsOneDelivery
    <3>2. CASE i \notin DOMAIN messages
      <4>1. messages'[i] = read
        BY <2>1, <2>2, <3>2
      <4>2. QED
        BY <1>2, <2>3, <4>1
    <3>3. QED
      BY <3>1, <3>2
  <2>4. ConsumedIsOneDelivery'
    BY <2>3 DEF ConsumedIsOneDelivery, IsOneDelivery
  <2>5. ReadingGoesOn' /\ call'.op # "read"
    BY <2>1 DEF NoCall, ReadingGoesOn
  <2>6. \A c \in Channels : AnnouncedOn(c, Line(c)')
    BY KeptOnLines
  <2>7. Announced'
    BY <2>6 DEF Announced
  <2>8. QED
    BY <1>1, <2>2, <2>4, <2>5, <2>7 DEF MessagesInv
<1>3. CASE ~AllRead(read.size, read.body)
  <2>1. call' = read /\ UNCHANGED messages
    BY <1>3 DEF GoOnReading
  <2>2. ReadingGoesOn'
    <3>1. CASE read.by = "deliver"
      <4>1. GoesOn(read, Line(read.channel)') /\ read.channel \in Channels
        BY <1>3, <3>1 DEF Reading
      <4>2. GoesOn(call, Line(call.channel))'
        BY <2>1, <4>1
      <4>3. QED
        BY <4>2 DEF ReadingGoesOn
    <3>2. QED
      BY <2>1, <3>1 DEF ReadingGoesOn
  <2>3. QED
    BY <1>1, <2>1, <2>2, KeepingStep
<1>4. QED
  BY <1>2, <1>3

\* The header that a call reads is that of its delivery, and the body comes next.
LEMMA HeaderIsOwn ==
  ASSUME NEW c \in Channels, NEW n \in Nat, NEW f, Part(c, f),
         NEW S \in Seq(Frame), NEW T \in Seq(Frame), Leaves(c, S, T, f), HeaderComes(c, S, n)
  PROVE  \E size \in Sizes, copies \in BOOLEAN :
           f = Header(c, n, size, copies) /\ Follow(T, c, 0, Bodies(c, n, 0, size))
<1>1. PICK size \in Sizes, copies \in BOOLEAN : Follow(S, c, 0, Content(c, n, size, copies))
  BY DEF HeaderComes
<1> DEFINE content == Content(c, n, size, copies)
<1>2. /\ content \in Seq(Frame) /\ AllParts(c, content) /\ content # <<>>
      /\ content[1] = Header(c, n, size, copies) /\ Tail(content) = Bodies(c, n, 0, size)
  BY ContentIsHeaderAndBodies
<1>3. Follow(S, c, 0, content)
  BY <1>1
<1> HIDE DEF content
<1>4. f = content[1] /\ Follow(T, c, 0, Tail(content))
  BY <1>2, <1>3, NextPart
<1>5. QED
  BY <1>2, <1>4

\* The body frame that a call reads is the next one of its delivery.
LEMMA BodyIsOwn ==
  ASSUME NEW c \in Channels, NEW n \in Nat, NEW f, Part(c, f), NEW size \in Nat, NEW body,
         NEW S \in Seq(Frame), NEW T \in Seq(Frame), Leaves(c, S, T, f),
         BodyComes(c, S, n, size, body)
  PROVE  \E m \in Nat : /\ m <= size /\ Append(body, f) = Bodies(c, n, 0, m)
                        /\ Follow(T, c, 0, Bodies(c, n, m, size))
<1>1. PICK m \in Nat : /\ m < size /\ body = Bodies(c, n, 0, m)
                       /\ Follow(S, c, 0, Bodies(c, n, m, size))
  BY DEF BodyComes
<1> DEFINE bodies == Bodies(c, n, m, size)
<1>2. /\ bodies \in Seq(Frame) /\ AllParts(c, bodies) /\ bodies # <<>>
      /\ bodies[1] = Body(c, n, m + 1) /\ Tail(bodies) = Bodies(c, n, m + 1, size)
  BY <1>1, BodiesGoOn
<1>3. Follow(S, c, 0, bodies)
  BY <1>1
<1> HIDE DEF bodies
<1>4. f = bodies[1] /\ Follow(T, c, 0, Tail(bodies))
  BY <1>2, <1>3, NextPart
<1>5. Append(body, f) = Bodies(c, n, 0, m + 1)
  <2>1. Append(Bodies(c, n, 0, m), Body(c, n, m + 1)) = Bodies(c, n, 0, m + 1)
    BY BodyGrows
  <2>2. QED
    BY <1>1, <1>2, <1>4, <2>1
<1>6. m + 1 \in Nat /\ m + 1 <= size
  BY <1>1
<1>7. QED
  BY <1>2, <1>4, <1>5, <1>6

\* A message of which m body frames are read is whole, or the others come next.
LEMMA WholeOrGoesOn ==
  ASSUME NEW c \in Channels, NEW n \in Nat, n # 0, NEW size \in Nat, NEW m \in Nat, m <= size,
         NEW T, Follow(T, c, 0, Bodies(c, n, m, size)), NEW by, NEW read,
         read = [op |-> "read", by |-> by, channel |-> c, of |-> n,
                 header |-> n, size |-> size, body |-> Bodies(c, n, 0, m)]
  PROVE  /\ AllRead(read.size, read.body) => IsOneDelivery(read)
         /\ ~AllRead(read.size, read.body) => GoesOn(read, T)
<1> DEFINE body == Bodies(c, n, 0, m)
<1>1. Len(body) = m /\ body = [k \in 1..m |-> Body(c, n, k)]
  BY BodyGrows
<1>2. /\ read.channel = c /\ read.of = n /\ read.header = n /\ read.size = size
      /\ read.body = body
  OBVIOUS
<1> HIDE DEF body
<1>3. ASSUME AllRead(size, body) PROVE IsOneDelivery(read)
  <2>1. m = size
    BY <1>1, <1>3 DEF AllRead
  <2>2. body = [k \in 1..size |-> Body(c, n, k)]
    BY <1>1, <2>1
  <2>3. QED
    BY <1>2, <2>2 DEF IsOneDelivery
<1>4. ASSUME ~AllRead(size, body) PROVE GoesOn(read, T)
  <2>1. m < size
    BY <1>1, <1>4 DEF AllRead
  <2>2. BodyComes(c, T, n, size, body)
    BY <2>1 DEF BodyComes, body
  <2>3. QED
    BY <1>2, <2>2 DEF GoesOn
<1>5. QED
  BY <1>2, <1>3, <1>4

\* A call that gives up leaves what it has not read.
LEMMA GivingUpStep ==
  ASSUME MessagesInv, ClientInv', UNCHANGED broker.sending, call.op = "read",
         NEW t, t \in NextOnChannel(call.channel), Take(t) \/ PutBack(t), Fail,
         UNCHANGED messages
  PROVE  MessagesInv'
<1>1. queue' \in Seq(Frame) /\ \A c \in Channels : Kept(c, Line(c), Line(c)')
  BY TakingOnChannel, PuttingBackOnChannel
<1>2. SentOnOwn' /\ call'.op # "read"
  BY DEF MessagesInv, SentOnOwn, Fail, NoCall, Stopped
<1>3. QED
  BY <1>1, <1>2, KeepingStep

\* A call that reads on has the next frame of its channel.
LEMMA ReadingOnStep ==
  ASSUME MessagesInv, ClientInv', UNCHANGED broker.sending, call.op = "read",
         NEW t, t \in NextOnChannel(call.channel), Take(t), NEW c \in Channels,
         NEW before, before = call, c = call.channel,
         NEW read \in Reading, read.channel = c, read.by = before.by, GoOnReading(read),
         \A S, T \in Seq(Frame) :
           (before.by = "deliver" /\ Leaves(c, S, T, t.frame) /\ GoesOn(before, S)) =>
             /\ AllRead(read.size, read.body) => IsOneDelivery(read)
             /\ ~AllRead(read.size, read.body) => GoesOn(read, T)
  PROVE  MessagesInv'
<1>1. queue' \in Seq(Frame) /\ \A d \in Channels : Kept(d, Line(d), Line(d)')
  BY TakingOnChannel
<1>2. Leaves(c, Line(c), Line(c)', t.frame)
  BY TakingOnChannel
<1>3. Line(c) \in Seq(Frame) /\ Line(c)' \in Seq(Frame)
  BY <1>1, KeptOnLines
<1>4. before.by = "deliver" => GoesOn(before, Line(c))
  BY DEF MessagesInv, ReadingGoesOn
<1>5. read.by = "deliver" =>
        /\ AllRead(read.size, read.body) => IsOneDelivery(read)
        /\ ~AllRead(read.size, read.body) => GoesOn(read, Line(c)')
  BY <1>2, <1>3, <1>4
<1>6. Line(read.channel)' = Line(c)'
  OBVIOUS
<1>7. QED
  BY <1>1, <1>5, <1>6, GoingOnStep

\* amqp_read_message takes the header that belongs to the delivery, or gives up.
LEMMA ReadHeaderStep ==
  ASSUME MessagesInv, ClientInv', ReadHeader PROVE MessagesInv'
<1>1. PICK t \in NextOnChannel(call.channel) :
       \/ /\ t.frame.type = "HEADER" /\ t.frame.copies
          /\ Take(t) /\ GoOnReading([call EXCEPT !.header = t.frame.number, !.size = t.frame.size])
       \/ /\ (t.frame.type = "HEADER" /\ ~t.frame.copies) \/ IsClose(t.frame)
          /\ Take(t) /\ Fail /\ UNCHANGED messages
       \/ /\ t.frame.type # "HEADER" /\ ~IsClose(t.frame)
          /\ PutBack(t) /\ Fail /\ UNCHANGED messages
  BY DEF ReadHeader
<1>2. /\ call.op = "read" /\ call.header = 0 /\ call \in Reading /\ UNCHANGED broker.sending
  BY DEF ReadHeader, MessagesInv
<1>3. CASE (Take(t) \/ PutBack(t)) /\ Fail /\ UNCHANGED messages
  BY <1>2, <1>3, GivingUpStep
<1>4. CASE /\ t.frame.type = "HEADER" /\ t.frame.copies /\ Take(t)
           /\ GoOnReading([call EXCEPT !.header = t.frame.number, !.size = t.frame.size])
  <2>1. PICK before \in Reading : before = call
    BY <1>2
  <2>2. PICK c \in Channels : c = before.channel
    BY DEF Reading
  <2>3. PICK f : f = t.frame
    OBVIOUS
  <2>4. f \in HeaderFrame /\ f.channel = c /\ Part(c, f)
    <3>1. f \in Frame /\ f.channel = c
      BY <1>2, <1>4, <2>1, <2>2, <2>3, TakingOnChannel
    <3>2. f.type = "HEADER"
      BY <1>4, <2>3
    <3>3. QED
      BY <3>1, <3>2 DEF Part, Frame, MethodFrame, ConnectionClose, BodyFrame, Heartbeat
  <2>5. PICK n \in Nat : n = before.of
    BY DEF Reading
  <2> DEFINE read == [op |-> "read", by |-> before.by, channel |-> c, of |-> n,
                      header |-> f.number, size |-> f.size, body |-> before.body]
  <2>6. [before EXCEPT !.header = f.number, !.size = f.size] = read /\ read \in Reading
    <3>1. before = [op |-> "read", by |-> before.by, channel |-> c, of |-> n,
                    header |-> before.header, size |-> before.size, body |-> before.body]
      BY <2>2, <2>5 DEF Reading
    <3>2. f.number \in Nat /\ f.size \in Nat
      BY <2>4 DEF HeaderFrame
    <3>3. read \in Reading
      BY <2>2, <2>5, <3>2 DEF Reading
    <3>4. PICK by, header, size, body :
            before = [op |-> "read", by |-> by, channel |-> c, of |-> n,
                      header |-> header, size |-> size, body |-> body]
      BY <3>1
    <3>5. [before EXCEPT !.header = f.number, !.size = f.size] =
            [op |-> "read", by |-> by, channel |-> c, of |-> n,
             header |-> f.number, size |-> f.size, body |-> body]
      <4>1. PICK p, q : p = f.number /\ q = f.size
        OBVIOUS
      <4>2. PICK mid : mid = [before EXCEPT !.header = p]
        OBVIOUS
      <4>3. mid = [op |-> "read", by |-> by, channel |-> c, of |-> n,
                   header |-> p, size |-> size, body |-> body]
        BY <3>4, <4>2
      <4>4. [mid EXCEPT !.size = q] = [op |-> "read", by |-> by, channel |-> c, of |-> n,
                                       header |-> p, size |-> q, body |-> body]
        BY <4>3
      <4>5. [before EXCEPT !.header = p, !.size = q] =
              [[before EXCEPT !.header = p] EXCEPT !.size = q]
        OBVIOUS
      <4>6. QED
        BY <4>1, <4>2, <4>4, <4>5
    <3>6. before.by = by /\ before.body = body
      BY <3>4
    <3>7. QED
      BY <3>3, <3>5, <3>6
  <2>7. ASSUME NEW S \in Seq(Frame), NEW T \in Seq(Frame), Leaves(c, S, T, f),
               GoesOn(before, S)
        PROVE  /\ AllRead(read.size, read.body) => IsOneDelivery(read)
               /\ ~AllRead(read.size, read.body) => GoesOn(read, T)
    <3>1. n # 0 /\ before.body = <<>> /\ HeaderComes(c, S, n)
      BY <1>2, <2>1, <2>2, <2>5, <2>7 DEF GoesOn
    <3>2. PICK size \in Sizes, copies \in BOOLEAN :
            f = Header(c, n, size, copies) /\ Follow(T, c, 0, Bodies(c, n, 0, size))
      BY <2>4, <2>7, <3>1, HeaderIsOwn
    <3>3. size \in Nat /\ 0 \in Nat /\ 0 <= size /\ f.number = n /\ f.size = size
      BY <3>2, NumbersAssumption DEF Header
    <3>4. before.body = Bodies(c, n, 0, 0)
      <4>1. Bodies(c, n, 0, 0) \in Seq(BodyFrame) /\ Len(Bodies(c, n, 0, 0)) = 0
        BY BodyGrows
      <4>2. QED
        BY <3>1, <4>1
    <3>5. read = [op |-> "read", by |-> before.by, channel |-> c, of |-> n,
                  header |-> n, size |-> size, body |-> Bodies(c, n, 0, 0)]
      BY <3>3, <3>4
    <3> HIDE DEF read
    <3>6. QED
      BY <3>1, <3>2, <3>3, <3>5, WholeOrGoesOn
  <2>8. GoOnReading(read)
    BY <1>4, <2>1, <2>3, <2>6
  <2>9. read.channel = c /\ read.by = before.by /\ read \in Reading
    BY <2>6
  <2> HIDE DEF read
  <2>10. \A S, T \in Seq(Frame) :
           (before.by = "deliver" /\ Leaves(c, S, T, t.frame) /\ GoesOn(before, S)) =>
             /\ AllRead(read.size, read.body) => IsOneDelivery(read)
             /\ ~AllRead(read.size, read.body) => GoesOn(read, T)
    BY <2>3, <2>7
  <2>11. QED
    BY <1>2, <1>4, <2>1, <2>2, <2>8, <2>9, <2>10, ReadingOnStep
<1>5. QED
  BY <1>1, <1>3, <1>4

\* It takes the body frames of the delivery, in their order, or gives up.
LEMMA ReadBodyStep ==
  ASSUME MessagesInv, ClientInv', ReadBody PROVE MessagesInv'
<1>1. PICK t \in NextOnChannel(call.channel) :
       /\ Take(t)
       /\ IF t.frame.type = "BODY" THEN GoOnReading([call EXCEPT !.body = Append(@, t.frame)])
          ELSE Fail /\ UNCHANGED messages
  BY DEF ReadBody
<1>2. /\ call.op = "read" /\ call.header # 0 /\ call \in Reading /\ UNCHANGED broker.sending
  BY DEF ReadBody, MessagesInv
<1>3. CASE t.frame.type # "BODY"
  BY <1>1, <1>2, <1>3, GivingUpStep
<1>4. CASE t.frame.type = "BODY"
  <2>1. PICK before \in Reading : before = call
    BY <1>2
  <2>2. PICK c \in Channels : c = before.channel
    BY DEF Reading
  <2>3. PICK f : f = t.frame
    OBVIOUS
  <2>4. f \in BodyFrame /\ f.channel = c /\ Part(c, f)
    <3>1. f \in Frame /\ f.channel = c
      BY <1>1, <1>2, <2>1, <2>2, <2>3, TakingOnChannel
    <3>2. f.type = "BODY"
      BY <1>4, <2>3
    <3>3. QED
      BY <3>1, <3>2 DEF Part, Frame, MethodFrame, ConnectionClose, HeaderFrame, Heartbeat
  <2>5. PICK n \in Nat, size \in Nat : n = before.of /\ size = before.size
    BY DEF Reading
  <2> DEFINE body == Append(before.body, f)
             read == [op |-> "read", by |-> before.by, channel |-> c, of |-> n,
                      header |-> before.header, size |-> size, body |-> body]
  <2>6. [before EXCEPT !.body = Append(before.body, f)] = read /\ read \in Reading
    <3>1. body \in Seq(BodyFrame)
      BY <2>4 DEF Reading
    <3> HIDE DEF body
    <3>2. [before EXCEPT !.body = body] = read /\ read \in Reading
      BY <2>2, <2>5, <3>1 DEF Reading
    <3>3. QED
      BY <3>2 DEF body
  <2>7. ASSUME NEW S \in Seq(Frame), NEW T \in Seq(Frame), Leaves(c, S, T, f),
               GoesOn(before, S)
        PROVE  /\ AllRead(read.size, read.body) => IsOneDelivery(read)
               /\ ~AllRead(read.size, read.body) => GoesOn(read, T)
    <3>1. n # 0 /\ before.header = n /\ BodyComes(c, S, n, size, before.body)
      BY <1>2, <2>1, <2>2, <2>5, <2>7 DEF GoesOn
    <3>2. PICK m \in Nat : /\ m <= size /\ body = Bodies(c, n, 0, m)
                           /\ Follow(T, c, 0, Bodies(c, n, m, size))
      BY <2>4, <2>7, <3>1, BodyIsOwn
    <3>3. read = [op |-> "read", by |-> before.by, channel |-> c, of |-> n,
                  header |-> n, size |-> size, body |-> Bodies(c, n, 0, m)]
      BY <3>1, <3>2
    <3> HIDE DEF read
    <3>4. QED
      BY <3>1, <3>2, <3>3, WholeOrGoesOn
  <2>8. GoOnReading(read)
    BY <1>1, <1>4, <2>1, <2>3, <2>6
  <2>9. read.channel = c /\ read.by = before.by /\ read \in Reading
    BY <2>6
  <2> HIDE DEF read
  <2>10. \A S, T \in Seq(Frame) :
           (before.by = "deliver" /\ Leaves(c, S, T, t.frame) /\ GoesOn(before, S)) =>
             /\ AllRead(read.size, read.body) => IsOneDelivery(read)
             /\ ~AllRead(read.size, read.body) => GoesOn(read, T)
    BY <2>3, <2>7
  <2>11. QED
    BY <1>1, <1>2, <2>1, <2>2, <2>8, <2>9, <2>10, ReadingOnStep
<1>5. QED
  BY <1>3, <1>4

-----------------------------------------------------------------------------
(* What the broker sends. *)

\* A frame that the broker sends arrives behind the others.
LEMMA SentBehind ==
  ASSUME MessagesInv, NEW f \in Frame, Sends(<<f>>)
  PROVE  /\ Received' = Append(Received, f) /\ queue' \in Seq(Frame)
         /\ UNCHANGED <<messages, call>>
<1>1. /\ queue \in Seq(Frame) /\ inbox \in Seq(Frame) /\ <<f>> \in Seq(Frame)
      /\ inbox' = inbox \o <<f>> /\ UNCHANGED <<queue, messages, call>>
  BY DEF MessagesInv, ClientInv, Sends
<1>2. queue \o (inbox \o <<f>>) = (queue \o inbox) \o <<f>>
  BY <1>1, Regrouped
<1>3. Received \in Seq(Frame)
  BY LinesAreFrames DEF MessagesInv
<1>4. Received \o <<f>> = Append(Received, f)
  BY <1>3
<1>5. QED
  BY <1>1, <1>2, <1>4 DEF Received

\* A method or a heartbeat which is no delivery changes nothing for the messages.
LEMMA OtherFrameSent ==
  ASSUME MessagesInv, NEW f \in Frame, Sends(<<f>>), NEW c \in Channels,
         ~Part(c, f), ~Delivers(c, f), broker'.sending[c] = broker.sending[c]
  PROVE  Kept(c, Line(c), Line(c)') /\ SameParts(c, Line(c), 0, Line(c)', 0)
<1> DEFINE R == Received
           X == broker.sending[c]
           S == R \o X
           T == Append(R, f) \o X
<1>1. R \in Seq(Frame) /\ X \in Seq(Frame) /\ Line(c) = S
  BY LinesAreFrames DEF MessagesInv, Line
<1>2. Line(c)' = T
  BY SentBehind DEF Line
<1> HIDE DEF R, X
<1>3. S \in Seq(Frame) /\ T \in Seq(Frame) /\ Inserted(S, T, Len(R) + 1, f)
  BY <1>1, Joined, InsertJoined
<1>4. Len(R) + 1 > 0
  BY <1>1
<1> HIDE DEF S, T
<1>5. Kept(c, S, T)
  BY <1>3, InsertKeeps
<1>6. SameParts(c, S, 0, T, 0)
  <2>1. 0 \in 0..Len(S) /\ 0 < Len(R) + 1
    BY <1>3, <1>4
  <2>2. SameParts(c, S, 0, T, IF 0 < Len(R) + 1 THEN 0 ELSE 0 + 1)
    BY <1>3, <2>1, InsertSame
  <2>3. QED
    BY <2>1, <2>2
<1>7. QED
  BY <1>1, <1>2, <1>5, <1>6

\* A step of the broker leaves the call that reads a message alone.
LEMMA BrokerKeepsStep ==
  ASSUME MessagesInv, ClientInv', SentOnOwn', queue' \in Seq(Frame),
         UNCHANGED <<messages, call>>,
         \A c \in Channels :
           AnnouncedOn(c, Line(c)') /\ SameParts(c, Line(c), 0, Line(c)', 0)
  PROVE  MessagesInv'
  BY AnnouncedStep

\* A method or a heartbeat which is no delivery arrives, and the contents stay as they are.
LEMMA OtherFrameStepKeeps ==
  ASSUME MessagesInv, ClientInv', NEW f \in Frame, Sends(<<f>>), UNCHANGED broker.sending,
         f.type \notin {"HEADER", "BODY"}, f.id # "deliver"
  PROVE  MessagesInv'
<1>1. \A c \in Channels : ~Part(c, f) /\ ~Delivers(c, f)
  BY DEF Part, Delivers
<1>2. \A c \in Channels :
        Kept(c, Line(c), Line(c)') /\ SameParts(c, Line(c), 0, Line(c)', 0)
  BY <1>1, OtherFrameSent
<1>3. SentOnOwn'
  BY DEF MessagesInv, SentOnOwn
<1>4. \A c \in Channels : AnnouncedOn(c, Line(c)')
  BY <1>2, SentBehind, KeptOnLines
<1>5. QED
  BY <1>2, <1>3, <1>4, SentBehind, BrokerKeepsStep

\* What moves from the broker to the client stays where it is on its line.
LEMMA SendContentKeeps ==
  ASSUME MessagesInv, ClientInv', NEW c \in Channels, SendContent(c) PROVE MessagesInv'
<1> DEFINE X == broker.sending[c]
           f == Head(X)
           rest == Tail(X)
<1>1. /\ X \in Seq(Frame) /\ X # <<>> /\ Sends(<<f>>) /\ AllParts(c, X)
      /\ broker' = [broker EXCEPT !.sending[c] = rest]
  BY LinesAreFrames DEF SendContent, MessagesInv, SentOnOwn, AllParts
<1>2. /\ f \in Frame /\ rest \in Seq(Frame) /\ Part(c, f) /\ f.channel = c /\ f.id # "deliver"
      /\ X = <<f>> \o rest /\ AllParts(c, rest)
  <2>1. X \in Seq(Frame) /\ X # <<>> /\ AllParts(c, X)
    BY <1>1
  <2>2. f \in Frame /\ rest \in Seq(Frame) /\ f = X[1] /\ 1 \in DOMAIN X
    BY <2>1
  <2>3. Part(c, f)
    BY <2>1, <2>2 DEF AllParts
  <2>4. f.channel = c /\ f.id # "deliver"
    BY <2>2, <2>3 DEF Part, Frame, MethodFrame, ConnectionClose, HeaderFrame, BodyFrame, Heartbeat
  <2>5. AllParts(c, rest)
    <3>1. \A k \in DOMAIN rest : k + 1 \in DOMAIN X /\ rest[k] = X[k + 1]
      BY <2>1
    <3>2. QED
      BY <2>1, <3>1 DEF AllParts
  <2>6. X = <<f>> \o rest
    <3>1. SubSeq(X, 1, 1) \o SubSeq(X, 1 + 1, Len(X)) = X /\ Len(X) >= 1
      BY <2>1, SplitIsJoined
    <3>2. SubSeq(X, 1, 1) = <<f>>
      <4> DEFINE A == SubSeq(X, 1, 1)
      <4>1. A \in Seq(Frame) /\ Len(A) = 1 /\ A[1] = X[1]
        BY <2>1, <2>2
      <4> HIDE DEF A
      <4>2. A = <<f>>
        BY <2>2, <4>1
      <4>3. QED
        BY <4>2 DEF A
    <3>3. SubSeq(X, 1 + 1, Len(X)) = rest
      BY <2>1, TailIsSubSeq
    <3>4. QED
      BY <3>1, <3>2, <3>3
  <2>7. QED
    BY <2>2, <2>3, <2>4, <2>5, <2>6
<1> HIDE DEF X, f, rest
<1>3. /\ broker'.sending[c] = rest
      /\ \A d \in Channels : d # c => broker'.sending[d] = broker.sending[d]
  <2>1. broker = [requests |-> broker.requests, consuming |-> broker.consuming,
                  closed |-> broker.closed, sending |-> broker.sending]
    BY DEF MessagesInv, ClientInv, BrokerShape
  <2>2. broker'.sending = [broker.sending EXCEPT ![c] = rest]
    BY <1>1, <2>1
  <2>3. broker.sending \in [Channels -> Seq(HeaderFrame \cup BodyFrame)]
    BY DEF MessagesInv, ClientInv, BrokerShape
  <2>4. QED
    BY <2>2, <2>3
<1>4. SentOnOwn'
  <2>1. ASSUME NEW d \in Channels, NEW k \in DOMAIN broker'.sending[d]
        PROVE  Part(d, broker'.sending[d][k])
    <3>1. CASE d = c
      BY <1>2, <1>3, <2>1, <3>1 DEF AllParts
    <3>2. CASE d # c
      BY <1>3, <2>1, <3>2 DEF MessagesInv, SentOnOwn
    <3>3. QED
      BY <3>1, <3>2
  <2>2. QED
    BY <2>1 DEF SentOnOwn, Part
<1>5. /\ Received' = Append(Received, f) /\ queue' \in Seq(Frame)
      /\ UNCHANGED <<messages, call>>
  BY <1>1, <1>2, SentBehind
<1>6. Line(c)' = Line(c) /\ Line(c) \in Seq(Frame)
  <2> DEFINE R == Received
  <2>1. R \in Seq(Frame) /\ Line(c) = R \o X /\ Line(c) \in Seq(Frame)
    BY LinesAreFrames DEF MessagesInv, Line, X
  <2>2. Line(c)' = Append(R, f) \o rest
    BY <1>3, <1>5 DEF Line
  <2> HIDE DEF R
  <2>3. Append(R, f) = R \o <<f>> /\ <<f>> \in Seq(Frame)
    BY <1>2, <2>1
  <2>4. (R \o <<f>>) \o rest = R \o (<<f>> \o rest)
    BY <1>2, <2>1, <2>3, Regrouped
  <2>5. QED
    BY <1>2, <2>1, <2>2, <2>3, <2>4
<1>7. ASSUME NEW d \in Channels
      PROVE  Kept(d, Line(d), Line(d)') /\ SameParts(d, Line(d), 0, Line(d)', 0)
  <2>1. CASE d = c
    BY <1>6, <2>1, UnchangedKeeps
  <2>2. CASE d # c
    <3>1. ~Part(d, f) /\ ~Delivers(d, f) /\ broker'.sending[d] = broker.sending[d]
      BY <1>2, <1>3, <2>2 DEF Part, Delivers
    <3>2. QED
      BY <1>1, <1>2, <3>1, OtherFrameSent
  <2>3. QED
    BY <2>1, <2>2
<1>8. \A d \in Channels : AnnouncedOn(d, Line(d)')
  BY <1>5, <1>7, KeptOnLines
<1>9. QED
  BY <1>4, <1>5, <1>7, <1>8, BrokerKeepsStep

\* The lines when a method starts a message: its content comes behind it.
LEMMA MessageStarts ==
  ASSUME MessagesInv, ClientInv', NEW c \in Channels, NEW id \in {"deliver", "get_ok"},
         NEW requests, StartMessage(c, id, requests)
  PROVE  MessagesInv'
<1> DEFINE n == count.messages + 1
           f == Method(c, id, n)
<1>1. n \in Nat /\ n # 0
  BY DEF MessagesInv, ClientInv, BrokerShape
<1>2. /\ f \in Frame /\ f.number = n /\ f.channel = c /\ f.id = id
      /\ \A d \in Channels : ~Part(d, f)
  BY <1>1 DEF Method, Frame, MethodFrame, Part
<1>3. /\ broker.sending[c] = <<>> /\ Sends(<<f>>)
      /\ \E size \in Sizes, copies \in BOOLEAN :
           broker' = [broker EXCEPT !.sending[c] = Content(c, n, size, copies), !.requests = requests]
  BY DEF StartMessage
<1> HIDE DEF n, f
<1>4. PICK size \in Sizes, copies \in BOOLEAN :
        broker' = [broker EXCEPT !.sending[c] = Content(c, n, size, copies), !.requests = requests]
  BY <1>3
<1> DEFINE content == Content(c, n, size, copies)
<1>5. content \in Seq(Frame) /\ AllParts(c, content)
  BY <1>1, ContentIsHeaderAndBodies
<1>6. broker' = [broker EXCEPT !.sending[c] = content, !.requests = requests]
  BY <1>4
<1>7. /\ broker'.sending[c] = content
      /\ \A d \in Channels : d # c => broker'.sending[d] = broker.sending[d]
  <2> HIDE DEF content
  <2>1. broker = [requests |-> broker.requests, consuming |-> broker.consuming,
                  closed |-> broker.closed, sending |-> broker.sending]
    BY DEF MessagesInv, ClientInv, BrokerShape
  <2>2. broker'.sending = [broker.sending EXCEPT ![c] = content]
    BY <1>6, <2>1
  <2>3. broker.sending \in [Channels -> Seq(HeaderFrame \cup BodyFrame)]
    BY DEF MessagesInv, ClientInv, BrokerShape
  <2>4. QED
    BY <2>2, <2>3
<1>8. /\ Received' = Append(Received, f) /\ queue' \in Seq(Frame)
      /\ UNCHANGED <<messages, call>>
  BY <1>2, <1>3, SentBehind
<1>9. SentOnOwn'
  <2> HIDE DEF content
  <2>1. ASSUME NEW d \in Channels, NEW k \in DOMAIN broker'.sending[d]
        PROVE  Part(d, broker'.sending[d][k])
    <3>1. CASE d = c
      BY <1>5, <1>7, <2>1, <3>1 DEF AllParts
    <3>2. CASE d # c
      BY <1>7, <2>1, <3>2 DEF MessagesInv, SentOnOwn
    <3>3. QED
      BY <3>1, <3>2
  <2>2. QED
    BY <2>1 DEF SentOnOwn, Part
<1>10. PICK S \in Seq(Frame), T \in Seq(Frame) :
         /\ S = Line(c) /\ T = Line(c)' /\ T = Append(S, f) \o content
  <2> HIDE DEF content
  <2>1. Received \in Seq(Frame) /\ Received \o <<>> = Received
    BY LinesAreFrames DEF MessagesInv
  <2>2. Line(c) = Received /\ Line(c) \in Seq(Frame)
    BY <1>3, <2>1 DEF Line
  <2>3. Line(c)' = Append(Received, f) \o content
    BY <1>7, <1>8 DEF Line
  <2>4. Append(Received, f) \in Seq(Frame)
    BY <1>2, <2>1
  <2>5. Append(Received, f) \o content \in Seq(Frame)
    BY <1>5, <2>4, Joined
  <2>6. QED
    BY <2>2, <2>3, <2>5
<1>11. /\ Len(T) = Len(S) + 1 + Len(content) /\ Len(S) \in Nat /\ Len(content) \in Nat
       /\ \A k \in 1..Len(S) : T[k] = S[k]
       /\ T[Len(S) + 1] = f
       /\ \A k \in DOMAIN content : T[Len(S) + 1 + k] = content[k]
  <2> HIDE DEF content
  <2> DEFINE A == Append(S, f)
  <2>1. /\ A \in Seq(Frame) /\ Len(A) = Len(S) + 1 /\ A[Len(S) + 1] = f
        /\ \A k \in 1..Len(S) : A[k] = S[k]
    BY <1>2
  <2>2. T = A \o content
    BY <1>10
  <2> HIDE DEF A
  <2>3. /\ Len(A \o content) = Len(A) + Len(content) /\ Len(content) \in Nat
        /\ \A k \in 1..Len(A) : (A \o content)[k] = A[k]
        /\ \A k \in 1..Len(content) : (A \o content)[Len(A) + k] = content[k]
    BY <1>5, <2>1, Joined
  <2>4. DOMAIN content = 1..Len(content)
    BY <1>5
  <2>5. \A k \in 1..Len(S) : T[k] = S[k]
    BY <2>1, <2>2, <2>3
  <2>6. T[Len(S) + 1] = f
    BY <2>1, <2>2, <2>3
  <2>7. QED
    BY <2>1, <2>2, <2>3, <2>4, <2>5, <2>6
<1> HIDE DEF content
<1>12. \A k \in DOMAIN S : k \in 1..Len(S) /\ T[k] = S[k]
  BY <1>11
<1>13. ASSUME NEW i \in 0..Len(S) PROVE SameParts(c, S, i, T, i)
  <2>1. Len(S) <= Len(T)
    BY <1>11
  <2>2. QED
    BY <1>12, <2>1, ExtendSame
<1>14. Follow(T, c, Len(S) + 1, content)
  <2> DEFINE b == Len(S) + 1
             p == [k \in DOMAIN content |-> b + k]
  <2>1. DOMAIN content = 1..Len(content) /\ b \in Nat /\ Len(T) = b + Len(content)
    BY <1>5, <1>11
  <2>2. \A k \in DOMAIN content : T[b + k] = content[k]
    BY <1>11
  <2> HIDE DEF b
  <2>3. \A k \in DOMAIN content : p[k] = b + k /\ b + k \in (b + 1)..Len(T) /\ k \in Nat
    BY <1>11, <2>1
  <2>4. p \in [DOMAIN content -> (b + 1)..Len(T)]
    BY <2>3
  <2> HIDE DEF p
  <2>5. \A k, l \in DOMAIN content : k < l => p[k] < p[l]
    BY <2>1, <2>3
  <2>6. \A j \in (b + 1)..Len(T) : \E k \in DOMAIN content : p[k] = j
    <3>1. ASSUME NEW j \in (b + 1)..Len(T) PROVE \E k \in DOMAIN content : p[k] = j
      <4>1. j - b \in DOMAIN content /\ b + (j - b) = j
        BY <1>11, <2>1
      <4>2. p[j - b] = b + (j - b)
        BY <2>3, <4>1
      <4>3. QED
        BY <4>1, <4>2
    <3>2. QED
      BY <3>1
  <2>7. Follow(T, c, b, content)
    BY <2>2, <2>3, <2>4, <2>5, <2>6 DEF Follow
  <2>8. QED
    BY <2>7 DEF b
<1>15. AnnouncedOn(c, T)
  <2>1. ASSUME NEW j \in DOMAIN T, Delivers(c, T[j])
        PROVE  /\ T[j].number # 0
               /\ \E z \in Sizes, y \in BOOLEAN : Follow(T, c, j, Content(c, T[j].number, z, y))
    <3>1. CASE j \in 1..Len(S)
      <4>1. j \in DOMAIN S /\ T[j] = S[j] /\ j \in 0..Len(S) /\ j \in Nat /\ S[j] \in Frame
        BY <1>11, <3>1
      <4>2. AnnouncedOn(c, S)
        BY <1>10 DEF MessagesInv, Announced
      <4>3. PICK z \in Sizes, y \in BOOLEAN : Follow(S, c, j, Content(c, S[j].number, z, y))
        BY <2>1, <4>1, <4>2 DEF AnnouncedOn
      <4>4. S[j].number \in Nat /\ S[j].number # 0
        <5>1. S[j].number # 0
          BY <2>1, <4>1, <4>2 DEF AnnouncedOn
        <5>2. S[j].number \in Nat
          BY <4>1 DEF Frame, MethodFrame, ConnectionClose, HeaderFrame, BodyFrame, Heartbeat
        <5>3. QED
          BY <5>1, <5>2
      <4> DEFINE other == Content(c, S[j].number, z, y)
      <4>5. other \in Seq(Frame) /\ AllParts(c, other)
        BY <4>4, ContentIsHeaderAndBodies
      <4>6. Follow(T, c, j, other)
        BY <1>13, <4>1, <4>3, <4>5, FollowMoved
      <4>7. QED
        BY <4>1, <4>4, <4>6
    <3>2. CASE j = Len(S) + 1
      BY <1>1, <1>2, <1>11, <1>14, <3>2 DEF content
    <3>3. CASE j > Len(S) + 1
      <4>1. j - (Len(S) + 1) \in DOMAIN content /\ Len(S) + 1 + (j - (Len(S) + 1)) = j
        BY <1>5, <1>11, <3>3
      <4>2. T[j] = content[j - (Len(S) + 1)]
        BY <1>11, <4>1
      <4>3. Part(c, T[j]) /\ T[j] \in Frame
        BY <1>5, <4>1, <4>2 DEF AllParts
      <4>4. T[j].id # "deliver"
        BY <4>3 DEF Part, Frame, MethodFrame, ConnectionClose, HeaderFrame, BodyFrame, Heartbeat
      <4>5. QED
        BY <2>1, <4>4 DEF Delivers
    <3>4. QED
      BY <1>11, <3>1, <3>2, <3>3
  <2>2. QED
    BY <2>1 DEF AnnouncedOn
<1>16. ASSUME NEW d \in Channels
       PROVE  AnnouncedOn(d, Line(d)') /\ SameParts(d, Line(d), 0, Line(d)', 0)
  <2>1. CASE d = c
    <3>1. 0 \in 0..Len(S)
      BY <1>11
    <3>2. QED
      BY <1>10, <1>13, <1>15, <2>1, <3>1
  <2>2. CASE d # c
    <3>1. ~Part(d, f) /\ ~Delivers(d, f) /\ broker'.sending[d] = broker.sending[d]
      BY <1>2, <1>7, <2>2 DEF Delivers
    <3>2. Kept(d, Line(d), Line(d)') /\ SameParts(d, Line(d), 0, Line(d)', 0)
      BY <1>2, <1>3, <3>1, OtherFrameSent
    <3>3. Line(d) \in Seq(Frame) /\ Line(d)' \in Seq(Frame)
      BY <1>8, LinesNext, LinesAreFrames DEF MessagesInv
    <3>4. QED
      BY <3>2, <3>3, KeptAnnounced DEF MessagesInv, Announced
  <2>3. QED
    BY <2>1, <2>2
<1>17. QED
  BY <1>8, <1>9, <1>16, BrokerKeepsStep

\* The socket closes with everything that is stored or received.
LEMMA CloseSocketKeeps ==
  ASSUME MessagesInv, ClientInv', CloseSocket PROVE MessagesInv'
<1>1. /\ UNCHANGED <<inbox, queue, call, broker, messages>> /\ queue' \in Seq(Frame)
  BY DEF CloseSocket, MessagesInv
<1>2. Received' = Received /\ UNCHANGED broker.sending /\ call' = call
  BY <1>1 DEF Received
<1>3. QED
  BY <1>1, <1>2, QuietStep DEF CallKept

\* A heartbeat arrives (amqp_try_recv and wait_frame_inner pass it over).
LEMMA SendHeartbeatKeeps ==
  ASSUME MessagesInv, ClientInv', SendHeartbeat PROVE MessagesInv'
<1>1. Heartbeat \in Frame /\ Sends(<<Heartbeat>>) /\ UNCHANGED broker.sending
  BY DEF SendHeartbeat, Frame
<1>2. Heartbeat.type \notin {"HEADER", "BODY"} /\ Heartbeat.id # "deliver"
  BY DEF Heartbeat
<1>3. QED
  BY <1>1, <1>2, OtherFrameStepKeeps

\* The broker says that the connection is closed.
LEMMA CloseConnectionKeeps ==
  ASSUME MessagesInv, ClientInv', CloseConnection PROVE MessagesInv'
<1>1. PICK f : f = Method(0, "connection_close", 0)
  OBVIOUS
<1>2. f \in Frame /\ f.type \notin {"HEADER", "BODY"} /\ f.id # "deliver"
  BY <1>1 DEF Method, Frame, ConnectionClose
<1>3. Sends(<<f>>)
  BY <1>1 DEF CloseConnection
<1>4. UNCHANGED broker.sending
  BY DEF CloseConnection, MessagesInv, ClientInv, BrokerShape
<1>5. QED
  BY <1>2, <1>3, <1>4, OtherFrameStepKeeps

\* An answer is a method that is no delivery, starts the message of a get_ok, or is none.
LEMMA AnswerKeeps ==
  ASSUME MessagesInv, ClientInv', Answer PROVE MessagesInv'
<1> DEFINE r == Head(broker.requests)
           rest == Tail(broker.requests)
<1>1. broker.requests # <<>> /\ broker.requests \in Seq(Pending)
  BY DEF Answer, MessagesInv, ClientInv, BrokerShape
<1>2. r \in Pending
  BY <1>1
<1>3. /\ r.channel \in Channels /\ r.number \in Nat
      /\ r.request \in Requests \cup {"publish"}
  BY <1>2 DEF Pending
<1>4. broker = [requests |-> broker.requests, consuming |-> broker.consuming,
                closed |-> broker.closed, sending |-> broker.sending]
  BY DEF MessagesInv, ClientInv, BrokerShape
<1>5. ASSUME NEW id \in Requests \cup {"get_empty", "channel_close"},
             Sends(<<Method(r.channel, id, r.number)>>), UNCHANGED broker.sending
      PROVE  MessagesInv'
  <2>1. PICK f : f = Method(r.channel, id, r.number)
    OBVIOUS
  <2>2. f \in Frame /\ f.type \notin {"HEADER", "BODY"} /\ f.id # "deliver"
    BY <1>3, <2>1 DEF Method, Frame, MethodFrame, Requests
  <2>3. QED
    BY <1>5, <2>1, <2>2, OtherFrameStepKeeps
<1>6. CASE /\ r.request \notin {"publish", "basic_get"}
           /\ Sends(<<Method(r.channel, r.request, r.number)>>)
           /\ broker' = [broker EXCEPT !.requests = rest,
                !.consuming = IF r.request = "basic_consume" THEN @ \cup {r.channel} ELSE @]
  <2>1. UNCHANGED broker.sending
    BY <1>4, <1>6
  <2>2. QED
    BY <1>3, <1>5, <1>6, <2>1
<1>7. CASE StartMessage(r.channel, "get_ok", rest)
  BY <1>3, <1>7, MessageStarts
<1>8. CASE /\ Sends(<<Method(r.channel, "get_empty", r.number)>>)
           /\ broker' = [broker EXCEPT !.requests = rest]
  <2>1. UNCHANGED broker.sending
    BY <1>4, <1>8
  <2>2. QED
    BY <1>5, <1>8, <2>1
<1>9. CASE /\ Sends(<<Method(r.channel, "channel_close", r.number)>>)
           /\ broker' = [broker EXCEPT !.requests = rest, !.closed = @ \cup {r.channel}]
  <2>1. UNCHANGED broker.sending
    BY <1>4, <1>9
  <2>2. QED
    BY <1>5, <1>9, <2>1
<1>10. CASE /\ Sends(<<>>)
            /\ broker' = [broker EXCEPT !.requests = rest]
  <2>1. UNCHANGED broker.sending
    BY <1>4, <1>10
  <2>2. /\ queue \in Seq(Frame) /\ inbox \in Seq(Frame)
        /\ inbox' = inbox \o <<>> /\ UNCHANGED <<queue, call, messages>>
    BY <1>10 DEF Sends, MessagesInv, ClientInv
  <2>3. inbox' = inbox /\ Received' = Received
    BY <2>2 DEF Received
  <2>4. QED
    BY <2>1, <2>2, <2>3, QuietStep DEF CallKept
<1>11. QED
  BY <1>6, <1>7, <1>8, <1>9, <1>10 DEF Answer

-----------------------------------------------------------------------------
(* The theorems about messages. *)

\* Every step keeps the invariant: one action at a time.
LEMMA MessagesInvStep == MessagesInv /\ [Next]_vars => MessagesInv'
<1> SUFFICES ASSUME MessagesInv, [Next]_vars PROVE MessagesInv'
  OBVIOUS
<1>0. ClientInv'
  BY ClientInvStep DEF MessagesInv
<1>1. CASE Listen
  <2>1. next \in 1..4 /\ 1 \in Channels /\ Request(1, Setup[next])
    BY <1>1, ListenerChannel DEF Listen, Setup, MessagesInv, ClientInv, CallShape
  <2>2. Setup[next] \in Requests
    BY <2>1 DEF Setup, Requests
  <2>3. QED
    BY <1>0, <2>1, <2>2, QuietSteps
<1>2. ASSUME NEW c \in Channels, Ask(c) PROVE MessagesInv'
  <2>1. PICK request \in {"queue_declare", "basic_get"} : Request(c, request)
    BY <1>2 DEF Ask
  <2>2. request \in Requests
    BY DEF Requests
  <2>3. QED
    BY <1>0, <2>1, <2>2, QuietSteps
<1>3. CASE UNCHANGED vars
  <2>1. UNCHANGED <<inbox, queue, call, messages>> /\ UNCHANGED broker.sending
    BY <1>3 DEF vars
  <2>2. Received' = Received /\ queue' \in Seq(Frame)
    BY <2>1 DEF Received, MessagesInv
  <2>3. QED
    BY <1>0, <2>1, <2>2, QuietStep DEF CallKept
<1>4. CASE Client
  <2>1. CASE Works
    BY <1>0, <1>1, <2>1, RpcFrameKeeps, QuietSteps, SkipHeartbeatStep, ConsumeFrameKeeps,
       ReadHeaderStep, ReadBodyStep, StoreOtherStep DEF Works
  <2>2. CASE RpcTimeout \/ ConsumeTimeout
    BY <1>0, <2>2, QuietSteps
  <2>3. CASE \E c \in Channels : Ask(c) \/ Publish(c)
    BY <1>0, <1>2, <2>3, PublishQuietly
  <2>4. QED
    BY <1>4, <2>1, <2>2, <2>3 DEF Client
<1>5. CASE Broker
  <2>1. ASSUME NEW c \in Channels, Deliver(c) PROVE MessagesInv'
    BY <1>0, <2>1, MessageStarts DEF Deliver
  <2>2. ASSUME NEW c \in Channels, SendContent(c) PROVE MessagesInv'
    BY <1>0, <2>2, SendContentKeeps
  <2>3. QED
    BY <1>0, <1>5, <2>1, <2>2, AnswerKeeps, SendHeartbeatKeeps, CloseConnectionKeeps,
       CloseSocketKeeps DEF Broker
<1>6. QED
  BY <1>3, <1>4, <1>5 DEF Next, Ended

\* Every delivery is followed, on its channel, by exactly its own content, through all that
\* stores frames and puts them back, and what is still to be read of a message comes first
\* (amqp_queue_frame, amqp_put_back_frame, amqp_simple_wait_frame_on_channel).
THEOREM MessagesInvariance == Spec => []MessagesInv
<1>1. Init => MessagesInv
  <2> SUFFICES ASSUME Init PROVE MessagesInv
    OBVIOUS
  <2>1. /\ queue = <<>> /\ inbox = <<>> /\ call = NoCall /\ messages = <<>>
        /\ broker.sending = [c \in Channels |-> <<>>]
    BY DEF Init
  <2>2. ClientInv
    BY DEF Init, ClientInv, BrokerShape, CallShape, CloseIsLast, UnderWay, ReplyIsExpected,
           RequestIsExpected, OneUnderWay, ReplyIsOwn, NoCall
  <2>3. SentOnOwn /\ queue \in Seq(Frame) /\ messages \in Seq(Reading)
    BY <2>1 DEF SentOnOwn
  <2>4. call.op # "read"
    BY <2>1 DEF NoCall
  <2>5. \A c \in Channels : Line(c) = <<>>
    <3>1. \A c \in Channels : broker.sending[c] = <<>>
      BY <2>1
    <3>2. <<>> \in Seq(Frame) /\ <<>> \o <<>> = <<>>
      OBVIOUS
    <3>3. Received = <<>>
      BY <2>1, <3>2 DEF Received
    <3>4. QED
      BY <3>1, <3>2, <3>3 DEF Line
  <2>6. Announced
    BY <2>5 DEF Announced, AnnouncedOn
  <2>7. ConsumedIsOneDelivery
    BY <2>1 DEF ConsumedIsOneDelivery
  <2>8. QED
    BY <2>2, <2>3, <2>4, <2>6, <2>7 DEF MessagesInv, ReadingGoesOn
<1>2. QED
  BY <1>1, MessagesInvStep, PTL DEF Spec

\* A message that amqp_consume_message returns has the header and the whole body, in order,
\* of the delivery that announced it, whatever was stored, put back, thrown away or closed
\* in between, on any number of channels.
THEOREM ConsumedMessagesAreWhole == Spec => []ConsumedIsOneDelivery
<1>1. MessagesInv => ConsumedIsOneDelivery
  BY DEF MessagesInv
<1>2. QED
  BY <1>1, MessagesInvariance, PTL

==============================================================================
