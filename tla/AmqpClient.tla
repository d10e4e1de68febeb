------------------------------ MODULE AmqpClient -----------------------------
(* A client on rabbitmq-c, once logged in: the listener of echo-worker-cpp    *)
(* (messaging.cpp), which sets a channel up and then consumes messages, or a  *)
(* client that does what the library also offers: repeated requests,          *)
(* basic.get, publishing, timeouts.  The library has one thread: a call that  *)
(* waits reads frames off the connection and stores the ones it is not        *)
(* waiting for in a queue for later calls.                                    *)
(*                                                                            *)
(* A frame is one element of inbox: AmqpInput shows that octets become frames *)
(* whole and in order.  Time is left open: a timed wait may end whenever      *)
(* there is nothing to read.                                                  *)
EXTENDS Integers, Sequences

CONSTANTS
  Channels,       \* the channels the client uses, numbers above 0
  Sizes,          \* the body frames of a message
  Clients,        \* whether the client does more than the listener: a set of Booleans
  MaxMessages, MaxRequests, MaxHeartbeats,  \* bounds on what the broker and the other client send
  MaxInbox        \* the most frames under way

ASSUME ListenerChannel == 1 \in Channels
ASSUME NumbersAssumption == Channels \subseteq Nat \ {0} /\ Sizes \subseteq Nat

VARIABLES
  others,     \* the client does more than the listener
  inbox,      \* frames the broker has sent and no call has read
  queue,      \* first_queued_frame .. last_queued_frame
  call,       \* the call in progress
  next,       \* the listener: its next step
  socket,     \* open, closed by the client, or reset by the broker
  broker,     \* requests under way, channels with a consumer, closed channels (0: all),
              \* and what is left of the message sent on each channel
  count,      \* messages, requests and heartbeats so far
  messages,   \* the messages returned to the client, in order
  answer      \* the last reply returned to the client

vars == <<others, inbox, queue, call, next, socket, broker, count, messages, answer>>

------------------------------------------------------------------------------
(* Frames *)

Method(c, id, n) == [type |-> "METHOD", channel |-> c, id |-> id, number |-> n]
Header(c, n, size, copies) ==
  [type |-> "HEADER", channel |-> c, id |-> "none", number |-> n, size |-> size, copies |-> copies]
Body(c, n, i) == [type |-> "BODY", channel |-> c, id |-> "none", number |-> n, part |-> i]
Heartbeat == [type |-> "HEARTBEAT", channel |-> 0, id |-> "none", number |-> 0]

IsClose(f) == f.type = "METHOD" /\ f.id \in {"channel_close", "connection_close"}

\* What Listener::init and listen request, in their order.
Setup == <<"channel_open", "queue_declare", "queue_bind", "basic_consume">>

NoCall == [op |-> "none"]
Stopped == [op |-> "stopped"]
Crashed == [op |-> "crashed"]

Init ==
  /\ others \in Clients
  /\ inbox = <<>> /\ queue = <<>> /\ call = NoCall /\ next = 1 /\ socket = "open"
  /\ broker = [requests |-> <<>>, consuming |-> IF others THEN Channels ELSE {}, closed |-> {},
               sending |-> [c \in Channels |-> <<>>]]
  /\ count = [messages |-> 0, requests |-> 0, heartbeats |-> 0]
  /\ messages = <<>> /\ answer = [request |-> 0, reply |-> 0, kind |-> "none"]

------------------------------------------------------------------------------
(* The broker *)

Live(c) == c \notin broker.closed /\ 0 \notin broker.closed

Sends(frames) ==
  /\ inbox' = inbox \o frames /\ Len(inbox') <= MaxInbox
  /\ UNCHANGED <<others, queue, call, next, socket, messages, answer>>

Content(c, n, size, copies) ==
  <<Header(c, n, size, copies)>> \o [i \in 1..size |-> Body(c, n, i)]

\* A method starts message n on channel c.
StartMessage(c, id, requests) ==
  LET n == count.messages + 1
  IN  /\ n <= MaxMessages /\ broker.sending[c] = <<>>
      /\ Sends(<<Method(c, id, n)>>)
      /\ \E size \in Sizes, copies \in BOOLEAN :
           broker' = [broker EXCEPT !.sending[c] = Content(c, n, size, copies), !.requests = requests]
      /\ count' = [count EXCEPT !.messages = n]

\* The first request is answered, or refused by closing its channel; a publish
\* has no answer; a closed channel answers nothing.
Answer ==
  /\ broker.requests # <<>>
  /\ LET r == Head(broker.requests)
         rest == Tail(broker.requests)
     IN  \/ /\ Live(r.channel) /\ r.request \notin {"publish", "basic_get"}
            /\ Sends(<<Method(r.channel, r.request, r.number)>>)
            /\ broker' = [broker EXCEPT !.requests = rest,
                 !.consuming = IF r.request = "basic_consume" THEN @ \cup {r.channel} ELSE @]
            /\ UNCHANGED count
         \/ /\ Live(r.channel) /\ r.request = "basic_get"
            /\ \/ StartMessage(r.channel, "get_ok", rest)
               \/ /\ Sends(<<Method(r.channel, "get_empty", r.number)>>)
                  /\ broker' = [broker EXCEPT !.requests = rest]
                  /\ UNCHANGED count
         \/ /\ Live(r.channel) /\ r.request # "channel_open" /\ broker.sending[r.channel] = <<>>
            /\ Sends(<<Method(r.channel, "channel_close", r.number)>>)
            /\ broker' = [broker EXCEPT !.requests = rest, !.closed = @ \cup {r.channel}]
            /\ UNCHANGED count
         \/ /\ ~Live(r.channel) \/ r.request = "publish"
            /\ Sends(<<>>)
            /\ broker' = [broker EXCEPT !.requests = rest]
            /\ UNCHANGED count

Deliver(c) ==
  /\ Live(c) /\ c \in broker.consuming
  /\ StartMessage(c, "deliver", broker.requests)

\* The frames of a message follow each other on their channel, with other
\* channels' frames in between.
SendContent(c) ==
  /\ 0 \notin broker.closed /\ broker.sending[c] # <<>>
  /\ Sends(<<Head(broker.sending[c])>>)
  /\ broker' = [broker EXCEPT !.sending[c] = Tail(@)]
  /\ UNCHANGED count

\* The listener turns heartbeats off when it logs in.
SendHeartbeat ==
  /\ others /\ 0 \notin broker.closed /\ count.heartbeats < MaxHeartbeats
  /\ Sends(<<Heartbeat>>)
  /\ count' = [count EXCEPT !.heartbeats = @ + 1]
  /\ UNCHANGED broker

CloseConnection ==
  /\ 0 \notin broker.closed
  /\ Sends(<<Method(0, "connection_close", 0)>>)
  /\ broker' = [broker EXCEPT !.closed = @ \cup {0}]
  /\ UNCHANGED count

\* Nobody answers connection.close, so the broker drops the connection.
CloseSocket ==
  /\ 0 \in broker.closed /\ socket = "open"
  /\ socket' = "reset"
  /\ UNCHANGED <<others, inbox, queue, call, next, broker, count, messages, answer>>

------------------------------------------------------------------------------
(* Taking and storing frames *)

\* The frame at the front of the connection, unless it is a heartbeat, which
\* wait_frame_inner passes over.
FromInbox ==
  IF inbox # <<>> /\ Head(inbox) # Heartbeat
  THEN {[frame |-> Head(inbox), queue |-> queue, inbox |-> Tail(inbox)]} ELSE {}

\* amqp_simple_wait_frame_noblock
FirstFrame ==
  IF queue # <<>> THEN {[frame |-> Head(queue), queue |-> Tail(queue), inbox |-> inbox]}
  ELSE FromInbox

Stored(c) == {i \in DOMAIN queue : queue[i].channel = c}

\* Mutant: the search goes on to the last stored frame of the channel.
LastStored(c) == CHOOSE i \in Stored(c) : \A j \in Stored(c) : i >= j

FirstStored(c) == CHOOSE i \in Stored(c) : \A j \in Stored(c) : i <= j

\* amqp_simple_wait_frame_on_channel: the first stored frame of the channel,
\* and with it the frames stored before it leave the queue.
NextOnChannel(c) ==
  IF Stored(c) # {}
  THEN {[frame |-> queue[FirstStored(c)], inbox |-> inbox,
         queue |-> SubSeq(queue, FirstStored(c) + 1, Len(queue))]}
  ELSE {t \in FromInbox : t.frame.channel = c}

Take(t) == queue' = t.queue /\ inbox' = t.inbox

\* amqp_put_back_frame
PutBack(t) == queue' = <<t.frame>> \o t.queue /\ inbox' = t.inbox

\* amqp_queue_frame
StoreFrame(t) == queue' = Append(t.queue, t.frame) /\ inbox' = t.inbox

SkipHeartbeat ==
  /\ call.op \in {"rpc", "consume", "read"} /\ inbox # <<>> /\ Head(inbox) = Heartbeat
  /\ call.op = "consume" => queue = <<>>
  /\ call.op = "read" => Stored(call.channel) = {}
  /\ inbox' = Tail(inbox)
  /\ UNCHANGED <<others, queue, call, next, socket, broker, count, messages, answer>>

------------------------------------------------------------------------------
(* Requests *)

\* The listener goes on whatever its requests return, and uses the result of
\* queue_declare, a null pointer when it failed, to get at the queue's name.
AfterSetup(request, ok) ==
  /\ next' = IF others THEN next ELSE next + 1
  /\ call' = IF ~others /\ ~ok /\ request = "queue_declare" THEN Crashed ELSE NoCall

Request(c, request) ==
  /\ call = NoCall /\ (others => count.requests < MaxRequests)
  /\ count' = [count EXCEPT !.requests = @ + 1]
  /\ LET r == [channel |-> c, request |-> request, number |-> count.requests + 1]
     IN  IF socket # "open" THEN AfterSetup(request, FALSE) /\ UNCHANGED broker
         ELSE /\ broker' = [broker EXCEPT !.requests = Append(@, r)]
              /\ call' = [op |-> "rpc", channel |-> c, request |-> request, number |-> r.number]
              /\ UNCHANGED next
  /\ UNCHANGED <<others, inbox, queue, socket, messages, answer>>

RepliesTo(request) == IF request = "basic_get" THEN {"get_ok", "get_empty"} ELSE {request}

\* simple_rpc_inner: what answers the request.
Concerns(f) ==
  /\ f.type = "METHOD"
  /\ \/ f.channel = call.channel /\ f.id \in RepliesTo(call.request) \cup {"channel_close"}
     \/ f.channel = 0 /\ f.id = "connection_close"

\* The message that method f announces is read next.
Read(f) ==
  [op |-> "read", by |-> f.id, channel |-> f.channel, of |-> f.number,
   header |-> 0, size |-> 0, body |-> <<>>]

\* The client reads the message that follows a get_ok.
RpcFrame ==
  /\ call.op = "rpc"
  /\ \E t \in FromInbox :
       IF ~Concerns(t.frame) THEN StoreFrame(t) /\ UNCHANGED <<call, next, answer>>
       ELSE /\ Take(t)
            /\ answer' = [request |-> call.number, reply |-> t.frame.number, kind |-> t.frame.id]
            /\ IF t.frame.id = "get_ok" THEN call' = Read(t.frame) /\ UNCHANGED next
               ELSE AfterSetup(call.request, ~IsClose(t.frame))
  /\ UNCHANGED <<others, socket, broker, count, messages>>

\* Mutant: the connection goes on after a timeout.
RpcTimeoutOnly ==
  /\ others /\ call.op = "rpc" /\ inbox = <<>>
  /\ call' = NoCall
  /\ UNCHANGED <<others, inbox, queue, next, socket, broker, count, messages, answer>>

\* amqp_set_rpc_timeout, which the listener does not use: the socket is closed.
RpcTimeout ==
  /\ others /\ call.op = "rpc" /\ inbox = <<>>
  /\ socket' = "closed" /\ call' = NoCall
  /\ UNCHANGED <<others, inbox, queue, next, broker, count, messages, answer>>

\* Nothing comes from a socket that is gone.
RpcFails ==
  /\ call.op = "rpc" /\ socket # "open" /\ inbox = <<>>
  /\ AfterSetup(call.request, FALSE)
  /\ UNCHANGED <<others, inbox, queue, socket, broker, count, messages, answer>>

\* amqp_basic_publish, when a heartbeat is due: amqp_try_recv stores what has
\* arrived, heartbeats with it, then the message is sent.
Publish(c) ==
  /\ others /\ call = NoCall /\ socket = "open" /\ count.requests < MaxRequests
  /\ \E k \in 0..Len(inbox) : queue' = queue \o SubSeq(inbox, 1, k) /\ inbox' = SubSeq(inbox, k + 1, Len(inbox))
  /\ count' = [count EXCEPT !.requests = @ + 1]
  /\ broker' = [broker EXCEPT !.requests = Append(@, [channel |-> c, request |-> "publish", number |-> count.requests + 1])]
  /\ UNCHANGED <<others, call, next, socket, messages, answer>>

------------------------------------------------------------------------------
(* Messages *)

\* Listener::listen ends at the first call that does not return a message.
Fail == call' = IF others THEN NoCall ELSE Stopped

StartConsume ==
  /\ call = NoCall /\ (others \/ next > Len(Setup))
  /\ call' = [op |-> "consume"]
  /\ UNCHANGED <<others, inbox, queue, next, socket, broker, count, messages, answer>>

\* amqp_consume_message takes the first frame, of whichever channel.
ConsumeFrame ==
  /\ call.op = "consume"
  /\ \E t \in FirstFrame :
       IF t.frame.id = "deliver" THEN Take(t) /\ call' = Read(t.frame)
       ELSE PutBack(t) /\ Fail
  /\ UNCHANGED <<others, next, socket, broker, count, messages, answer>>

\* Only the wait for the first frame has a timeout.
ConsumeTimeout ==
  /\ others /\ call.op = "consume" /\ queue = <<>> /\ inbox = <<>>
  /\ call' = NoCall
  /\ UNCHANGED <<others, inbox, queue, next, socket, broker, count, messages, answer>>

\* Mutant: the loop reads at least one body frame.
AllReadAfterOne(size, body) == Len(body) >= size /\ body # <<>>

AllRead(size, body) == Len(body) >= size

\* The call goes on, or returns the message.
GoOnReading(read) ==
  IF AllRead(read.size, read.body)
  THEN messages' = Append(messages, read) /\ call' = NoCall
  ELSE call' = read /\ UNCHANGED messages

\* amqp_read_message: the header of the message, then its body.
ReadHeader ==
  /\ call.op = "read" /\ call.header = 0
  /\ \E t \in NextOnChannel(call.channel) :
       \/ /\ t.frame.type = "HEADER" /\ t.frame.copies
          /\ Take(t) /\ GoOnReading([call EXCEPT !.header = t.frame.number, !.size = t.frame.size])
       \/ /\ (t.frame.type = "HEADER" /\ ~t.frame.copies) \/ IsClose(t.frame)
          /\ Take(t) /\ Fail /\ UNCHANGED messages
       \/ /\ t.frame.type # "HEADER" /\ ~IsClose(t.frame)
          /\ PutBack(t) /\ Fail /\ UNCHANGED messages
  /\ UNCHANGED <<others, next, socket, broker, count, answer>>

ReadBody ==
  /\ call.op = "read" /\ call.header # 0
  /\ \E t \in NextOnChannel(call.channel) :
       /\ Take(t)
       /\ IF t.frame.type = "BODY" THEN GoOnReading([call EXCEPT !.body = Append(@, t.frame)])
          ELSE Fail /\ UNCHANGED messages
  /\ UNCHANGED <<others, next, socket, broker, count, answer>>

\* The frames of other channels are stored while a message is read.
StoreOther ==
  /\ call.op = "read" /\ Stored(call.channel) = {}
  /\ \E t \in FromInbox : t.frame.channel # call.channel /\ StoreFrame(t)
  /\ UNCHANGED <<others, call, next, socket, broker, count, messages, answer>>

MessageFails ==
  /\ \/ call.op = "consume" /\ queue = <<>>
     \/ call.op = "read" /\ Stored(call.channel) = {}
  /\ socket # "open" /\ inbox = <<>>
  /\ Fail
  /\ UNCHANGED <<others, inbox, queue, next, socket, broker, count, messages, answer>>

------------------------------------------------------------------------------
(* Specification *)

\* The listener sets its channel up.
Listen == ~others /\ next <= Len(Setup) /\ Request(1, Setup[next])

\* Another client asks again, or gets a message.
Ask(c) == others /\ \E r \in {"queue_declare", "basic_get"} : Request(c, r)

Works ==
  \/ Listen \/ RpcFrame \/ RpcFails \/ SkipHeartbeat
  \/ StartConsume \/ ConsumeFrame \/ ReadHeader \/ ReadBody \/ StoreOther \/ MessageFails

Client ==
  \/ Works \/ RpcTimeout \/ ConsumeTimeout
  \/ \E c \in Channels : Ask(c) \/ Publish(c)

Broker ==
  \/ Answer \/ SendHeartbeat \/ CloseConnection \/ CloseSocket
  \/ \E c \in Channels : Deliver(c) \/ SendContent(c)

Ended == call \in {Stopped, Crashed} /\ UNCHANGED vars

Next == Client \/ Broker \/ Ended

\* The thread of the client goes on while it can; the broker answers, finishes
\* the messages it has begun, and closes the sockets of closed connections.
Fairness ==
  /\ WF_vars(Works) /\ WF_vars(Answer) /\ WF_vars(CloseSocket)
  /\ \A c \in Channels : WF_vars(SendContent(c))

Spec == Init /\ [][Next]_vars /\ Fairness

------------------------------------------------------------------------------
(* Properties *)

IsOneDelivery(m) == m.header = m.of /\ m.body = [k \in 1..m.size |-> Body(m.channel, m.of, k)]

\* A message that amqp_consume_message returns has the header and the whole body,
\* in order, of the delivery that announced it, on any channel, whatever was
\* stored, put back, thrown away or closed in between.
ConsumedIsOneDelivery ==
  \A i \in DOMAIN messages : messages[i].by = "deliver" => IsOneDelivery(messages[i])

\* The same of all messages, those announced by a get_ok with them: what
\* amqp_read_message is documented to return.  The code does not keep it.
MessageIsOneDelivery == \A i \in DOMAIN messages : IsOneDelivery(messages[i])

\* A reply answers the request it is returned for (simple_rpc_inner): replies
\* do not name their request, so a late one must never be read.
ReplyIsOwn ==
  answer.kind \notin {"get_ok", "channel_close", "connection_close"} => answer.reply = answer.request

\* Every message delivered to the listener is returned to it, or the listener
\* has ended: Listener::listen waits for no frame that is not to come.
EveryDeliveryReturns ==
  \A n \in 1..MaxMessages :
    (~others /\ count.messages >= n)
      ~> (call \in {Stopped, Crashed} \/ \E i \in DOMAIN messages : messages[i].of = n)

==============================================================================
