----------------------------- MODULE AmqpSession -----------------------------
(* A rabbitmq-c connection against time: amqp_login, then calls that wait for *)
(* a frame or publish a message, with the heartbeats that both sides owe each *)
(* other.  What is waited for afterwards is the subject of AmqpClient.        *)
(*                                                                            *)
(* The clock is not a variable: a time (amqp_time_t) is what is left until it,*)
(* in the seconds of the heartbeat interval, Infinite for "never"; Tick takes *)
(* one from all of them.  A tick is taken only when the client has nothing to *)
(* do but wait, or between its calls.                                         *)
EXTENDS Integers, Sequences, FiniteSets

CONSTANTS
  Limits,      \* what either side may ask for: records [channel_max, frame_max, heartbeat]
  Timeouts,    \* of the handshake and of waits, in ticks
  FrameSize,   \* octets of a frame
  Capacity,    \* octets the socket takes before the broker reads
  MaxQuiet     \* ticks of silence; longer silences are not told apart

Infinite == 1000

ASSUME SizesArePositive == FrameSize \in Nat \ {0} /\ Capacity \in Nat \ {0}
ASSUME TimesAreBounded ==
  /\ Timeouts \subseteq Int
  /\ MaxQuiet \in Nat /\ 2 * MaxQuiet < Infinite
  /\ \A l \in Limits : l.heartbeat \in 0..MaxQuiet

VARIABLES
  client, server,   \* what each side asks for
  tuned,            \* what the connection uses
  stage,            \* what the login waits for, then ready, refused or failed
  call,             \* between calls, or the call in progress
  out,              \* the frames being sent and what is left of the first, in octets
  socket,           \* open, closed by the client, reset by the broker
  sendIn, recvIn,   \* next_send_heartbeat, next_recv_heartbeat
  deadline,         \* of the login or of the wait
  arrived, buffer,  \* frames in the socket, and read from it but not used
  room,             \* octets the socket takes
  got, torn,        \* the broker: octets of an unfinished frame; a frame began inside another
  gaveUp,           \* a publish took the broker for dead
  alive,            \* the broker answers, reads, and sends what it owes
  asked,            \* the last frame of the login the broker has yet to answer
  quiet, unheard    \* ticks since the broker, the client sent something

times == <<sendIn, recvIn, deadline>>
stream == <<out, room, got, torn, gaveUp>>
brokerVars == <<alive, asked, quiet>>
vars == <<client, server, tuned, stage, call, socket, arrived, buffer, unheard, times, stream, brokerVars>>

\* amqp_time_first
First(s, t) == IF s < t THEN s ELSE t

\* amqp_time_s_from_now: no interval means never.
FromNow(seconds) == IF seconds <= 0 THEN Infinite ELSE seconds

\* amqp_time_has_past
HasPast(t) == t < 0

\* A poll until t ends when t is reached.
Reached(t) == t <= 0

\* How long past a time is does not matter.
Later(t) == IF t = Infinite \/ t < 0 THEN t ELSE t - 1

\* amqp_heartbeat_send, amqp_heartbeat_recv
SendInterval == tuned.heartbeat
RecvInterval == 2 * tuned.heartbeat

NothingToSend == [frames |-> <<>>, left |-> FrameSize]
Sending == out.frames # <<>>
Waiting == call = "wait" /\ ~Sending

Init ==
  /\ client \in Limits /\ server \in Limits
  /\ tuned = [channel_max |-> 0, frame_max |-> 0, heartbeat |-> 0]
  /\ stage = "start" /\ call = "wait" /\ out = [frames |-> <<"header">>, left |-> FrameSize]
  /\ socket = "open"
  /\ sendIn = Infinite /\ recvIn = Infinite /\ deadline \in Timeouts
  /\ arrived = <<>> /\ buffer = <<>>
  /\ room = Capacity /\ got = 0 /\ torn = FALSE /\ gaveUp = FALSE
  /\ alive = TRUE /\ asked = "none" /\ quiet = 0 /\ unheard = 0

------------------------------------------------------------------------------
(* Sending: amqp_send_frame_inner and amqp_try_send *)

Send(frames) == out' = [frames |-> frames, left |-> FrameSize]

\* Octets reach the broker, which takes them for the rest of the frame it has
\* begun to read.  What the login sends fits the socket's buffer.
Octets(k) ==
  /\ room' = IF stage = "ready" THEN room - k ELSE room
  /\ got' = (got + k) % FrameSize
  /\ torn' = (torn \/ got # FrameSize - out.left)

\* Mutant: the whole frame is sent again.
RestIsAll(k) == IF k = out.left THEN 0 ELSE FrameSize

\* What is left of a frame after a part of it was sent.
Rest(k) == out.left - k

Write ==
  /\ Sending /\ socket = "open" /\ room > 0
  /\ \E k \in 1..First(room, out.left) :
       /\ Octets(k)
       /\ IF k = out.left
          THEN /\ out' = [frames |-> Tail(out.frames), left |-> FrameSize]
               /\ sendIn' = FromNow(SendInterval)
               /\ unheard' = 0
               /\ asked' = IF stage = "ready" THEN asked ELSE Head(out.frames)
               /\ call' = IF call = "publish" /\ Len(out.frames) = 1 THEN "none" ELSE call
          ELSE out' = [out EXCEPT !.left = Rest(k)] /\ UNCHANGED <<sendIn, unheard, asked, call>>
  /\ UNCHANGED <<client, server, tuned, stage, socket, arrived, buffer, recvIn, deadline, gaveUp, alive, quiet>>

\* The call fails and leaves the connection as it is.
GiveUp ==
  /\ call' = "none" /\ out' = NothingToSend
  /\ gaveUp' = TRUE
  /\ UNCHANGED <<room, got, torn>>

\* amqp_try_recv, with no time to wait: what was read is stored for later calls
\* and what has arrived is read; nothing there means that the broker is dead.
TryRecv ==
  IF arrived # <<>>
  THEN /\ buffer' = arrived /\ arrived' = <<>> /\ recvIn' = FromNow(RecvInterval)
       /\ UNCHANGED <<call, stream>>
  ELSE buffer' = <<>> /\ GiveUp /\ UNCHANGED <<arrived, recvIn>>

\* The socket takes nothing until the broker's heartbeat is overdue.
SendTimeout ==
  /\ Sending /\ socket = "open" /\ room = 0 /\ Reached(recvIn)
  /\ TryRecv
  /\ UNCHANGED <<client, server, tuned, stage, socket, sendIn, deadline, unheard, brokerVars>>

SendFails ==
  /\ Sending /\ socket # "open"
  /\ call' = "none" /\ out' = NothingToSend
  /\ stage' = IF stage = "ready" THEN stage ELSE "failed"
  /\ UNCHANGED <<client, server, tuned, socket, arrived, buffer, unheard, times, room, got, torn, gaveUp, brokerVars>>

------------------------------------------------------------------------------
(* Waiting: wait_frame_inner *)

\* Mutant: the wait does not end for the client's own heartbeat.
PollUntilReply == First(deadline, recvIn)

\* Mutant: the wait does not end for the broker's heartbeat.
PollUntilOwn == First(deadline, sendIn)

\* What the client polls for.
PollUntil == First(deadline, First(recvIn, sendIn))

\* The client's own heartbeat is due, and no poll is under way.
Due == HasPast(sendIn) /\ Reached(PollUntil)

\* A heartbeat that is due goes out before the client waits.
SendHeartbeat ==
  /\ Waiting /\ buffer = <<>> /\ Due
  /\ Send(<<"heartbeat">>)
  /\ UNCHANGED <<client, server, tuned, stage, call, socket, arrived, buffer, unheard, times, room, got, torn, gaveUp, brokerVars>>

\* Mutant: the time of the next heartbeat is not moved.
RecvHeartbeatOnce == recvIn

\* recv_with_timeout: whatever comes puts the broker's heartbeat off.
RecvHeartbeat == FromNow(RecvInterval)

Recv ==
  /\ Waiting /\ buffer = <<>> /\ ~Due /\ arrived # <<>> /\ socket # "closed"
  /\ buffer' = arrived /\ arrived' = <<>>
  /\ recvIn' = RecvHeartbeat
  /\ UNCHANGED <<client, server, tuned, stage, call, socket, sendIn, deadline, unheard, stream, brokerVars>>

\* Mutant: a login that times out leaves the connection open.
CloseUnlessLogin == socket' = IF stage = "ready" THEN "closed" ELSE socket

\* A login that fails, and a heartbeat that does not come, close the socket.
Close == socket' = "closed"

\* The end of the poll: the broker's heartbeat is overdue, or the time of the
\* call is up; for the client's own heartbeat the loop goes on.
WaitTimeout ==
  /\ Waiting /\ socket = "open" /\ buffer = <<>> /\ arrived = <<>> /\ ~Due
  /\ Reached(PollUntil) /\ PollUntil \in {recvIn, deadline}
  /\ call' = "none"
  /\ IF PollUntil = recvIn \/ stage # "ready" THEN Close ELSE UNCHANGED socket
  /\ stage' = IF stage = "ready" THEN stage ELSE "failed"
  /\ UNCHANGED <<client, server, tuned, arrived, buffer, unheard, times, stream, brokerVars>>

\* The end of the stream, or a socket that is closed already.
RecvFails ==
  /\ Waiting /\ socket # "open" /\ buffer = <<>> /\ (arrived = <<>> \/ socket = "closed")
  /\ call' = "none"
  /\ stage' = IF stage = "ready" THEN stage ELSE "failed"
  /\ UNCHANGED <<client, server, tuned, socket, arrived, buffer, unheard, times, stream, brokerVars>>

NextFrame(f) == Waiting /\ buffer # <<>> /\ Head(buffer) = f /\ buffer' = Tail(buffer)

SkipHeartbeat ==
  /\ NextFrame("heartbeat")
  /\ UNCHANGED <<client, server, tuned, stage, call, socket, arrived, unheard, times, stream, brokerVars>>

------------------------------------------------------------------------------
(* Login: amqp_login_inner *)

\* The broker speaks another version or offers no mechanism of ours.
UnfitStart ==
  /\ stage = "start" /\ NextFrame("unfit_start")
  /\ stage' = "failed" /\ call' = "none" /\ Close
  /\ UNCHANGED <<client, server, tuned, arrived, unheard, times, stream, brokerVars>>

Start ==
  /\ stage = "start" /\ NextFrame("start")
  /\ stage' = "tune" /\ Send(<<"start_ok">>)
  /\ UNCHANGED <<client, server, tuned, call, socket, arrived, unheard, times, room, got, torn, gaveUp, brokerVars>>

\* A close is an answer, and leaves the socket to the application.
Refused ==
  /\ stage \in {"tune", "open"} /\ NextFrame("close")
  /\ stage' = "refused" /\ call' = "none"
  /\ UNCHANGED <<client, server, tuned, socket, arrived, unheard, times, stream, brokerVars>>

MaxChannel == 65535

\* The lower of the two, where 0 from the broker means no limit.
Lowest(c, s) == IF s # 0 /\ s < c THEN s ELSE c

\* For the channels 0 from the client means no limit, too.
LowestChannel(c, s) ==
  IF s # 0 /\ (s < c \/ c = 0) THEN s
  ELSE IF s = 0 /\ c = 0 THEN MaxChannel ELSE c

\* amqp_tune_connection
Tune ==
  /\ stage = "tune" /\ NextFrame("tune")
  /\ tuned' = [channel_max |-> LowestChannel(client.channel_max, server.channel_max),
               frame_max |-> Lowest(client.frame_max, server.frame_max),
               heartbeat |-> Lowest(client.heartbeat, server.heartbeat)]
  /\ sendIn' = FromNow(tuned'.heartbeat) /\ recvIn' = FromNow(2 * tuned'.heartbeat)
  /\ stage' = "open" /\ Send(<<"tune_ok", "open">>)
  /\ quiet' = 0
  /\ UNCHANGED <<client, server, call, socket, arrived, unheard, deadline, room, got, torn, gaveUp, alive, asked>>

Open ==
  /\ stage = "open" /\ NextFrame("open_ok")
  /\ stage' = "ready" /\ call' = "none"
  /\ UNCHANGED <<client, server, tuned, socket, arrived, unheard, times, stream, brokerVars>>

------------------------------------------------------------------------------
(* Calls on an open connection *)

StartWait ==
  /\ stage = "ready" /\ call = "none" /\ socket = "open"
  /\ call' = "wait" /\ deadline' \in Timeouts
  /\ UNCHANGED <<client, server, tuned, stage, socket, arrived, buffer, unheard, sendIn, recvIn, stream, brokerVars>>

WaitReturns ==
  /\ stage = "ready" /\ NextFrame("frame")
  /\ call' = "none"
  /\ UNCHANGED <<client, server, tuned, stage, socket, arrived, unheard, times, stream, brokerVars>>

\* amqp_basic_publish: an overdue heartbeat is looked for first.
Publish ==
  /\ stage = "ready" /\ call = "none" /\ socket = "open"
  /\ IF HasPast(recvIn) /\ arrived = <<>>
     THEN buffer' = <<>> /\ gaveUp' = TRUE /\ UNCHANGED <<call, out, room, got, torn, arrived, recvIn>>
     ELSE /\ call' = "publish" /\ Send(<<"publish", "content">>)
          /\ IF HasPast(recvIn) THEN buffer' = arrived /\ arrived' = <<>> /\ recvIn' = FromNow(RecvInterval)
             ELSE UNCHANGED <<buffer, arrived, recvIn>>
          /\ UNCHANGED <<room, got, torn, gaveUp>>
  /\ UNCHANGED <<client, server, tuned, stage, socket, sendIn, deadline, unheard, brokerVars>>

------------------------------------------------------------------------------
(* The broker and the clock *)

\* Nothing more happens after a failed login or on a closed connection.
Over == stage \in {"failed", "refused"} \/ (call = "none" /\ socket # "open")

MaxArrived == 1   \* more frames under way are not told apart

Arrives(f) ==
  /\ alive /\ socket = "open" /\ ~Over /\ quiet' = 0
  /\ arrived' = IF Len(arrived) < MaxArrived THEN Append(arrived, f) ELSE arrived
  /\ UNCHANGED <<client, server, tuned, stage, call, socket, buffer, unheard, times, stream, alive>>

Answers ==
  CASE asked = "header" -> {"start", "unfit_start"}
    [] asked = "start_ok" -> {"tune", "close"}
    [] asked = "open" -> {"open_ok", "close"}
    [] OTHER -> {}

Answer == Len(arrived) < MaxArrived /\ asked' = "none" /\ \E f \in Answers : Arrives(f)

\* Frames on the open connection, and at most a heartbeat in a tick.
BrokerSends ==
  /\ \/ stage = "ready" /\ Arrives("frame")
     \/ stage \in {"open", "ready"} /\ tuned.heartbeat > 0 /\ quiet > 0 /\ Arrives("heartbeat")
  /\ UNCHANGED asked

BrokerReads ==
  /\ alive /\ room < Capacity
  /\ room' = Capacity
  /\ UNCHANGED <<client, server, tuned, stage, call, socket, arrived, buffer, unheard, times, out, got, torn, gaveUp, brokerVars>>

BrokerDies ==
  /\ alive /\ ~Over /\ alive' = FALSE
  /\ socket' \in {socket, IF socket = "open" THEN "reset" ELSE socket}
  /\ UNCHANGED <<client, server, tuned, stage, call, arrived, buffer, unheard, times, stream, asked, quiet>>

\* What the client waits for has not come.
Blocked ==
  \/ call = "none"
  \/ Sending /\ socket = "open" /\ room = 0 /\ ~Reached(recvIn)
  \/ /\ Waiting /\ socket = "open" /\ buffer = <<>> /\ arrived = <<>>
     /\ ~Due /\ (Reached(PollUntil) => PollUntil = sendIn /\ ~Reached(First(deadline, recvIn)))

\* Once the connection is tuned a broker that is alive sends in every interval.
BrokerIsOnTime ==
  alive /\ stage \in {"open", "ready"} /\ tuned.heartbeat > 0 => quiet < tuned.heartbeat

Tick ==
  /\ Blocked /\ BrokerIsOnTime /\ ~Over
  /\ sendIn' = Later(sendIn) /\ recvIn' = Later(recvIn)
  /\ deadline' = IF call = "wait" THEN Later(deadline) ELSE deadline
  /\ quiet' = First(quiet + 1, MaxQuiet) /\ unheard' = First(unheard + 1, MaxQuiet)
  /\ UNCHANGED <<client, server, tuned, stage, call, socket, arrived, buffer, stream, alive, asked>>

------------------------------------------------------------------------------
(* Specification *)

Works ==
  \/ Write \/ SendTimeout \/ SendFails
  \/ SendHeartbeat \/ Recv \/ WaitTimeout \/ RecvFails \/ SkipHeartbeat
  \/ UnfitStart \/ Start \/ Refused \/ Tune \/ Open \/ WaitReturns

Next ==
  \/ Works \/ StartWait \/ Publish
  \/ Answer \/ BrokerSends \/ BrokerReads \/ BrokerDies \/ Tick
  \/ Over /\ UNCHANGED vars

\* A call in progress goes on, time passes, and the broker sends what is due
\* unless it is dead.
Spec ==
  /\ Init /\ [][Next]_vars
  /\ WF_vars(Works) /\ WF_vars(Tick) /\ WF_vars(~BrokerIsOnTime /\ BrokerSends)

------------------------------------------------------------------------------
(* Properties *)

\* The broker reads whole frames one after the other, however the socket cuts
\* them, unless a publish was given up (amqp_send_frame_inner goes on where the
\* last partial send ended).
FramesAreWhole == torn => gaveUp

\* A broker that keeps its heartbeats up is not given up: neither a wait nor a
\* publish after a long pause takes it for dead (next_recv_heartbeat).
LiveBrokerIsBelieved ==
  alive /\ stage = "ready" => socket = "open" /\ ~gaveUp

\* While the client waits the broker hears from it in every interval, to within
\* a second: the poll ends for next_send_heartbeat in wait_frame_inner.
WaitingClientIsHeard ==
  [][Waiting /\ stage = "ready" /\ tuned.heartbeat > 0 /\ unheard' > unheard
       => unheard <= tuned.heartbeat]_vars

\* A login with a handshake timeout ends, and one that failed has left no open
\* connection behind (amqp_login_inner).
LoginEnds ==
  deadline # Infinite ~> \/ stage \in {"ready", "refused"}
                         \/ stage = "failed" /\ socket # "open"

\* With heartbeats every call ends on a connection whose broker is dead.
DeadBrokerIsNoticed ==
  (~alive /\ stage = "ready" /\ tuned.heartbeat > 0) ~> (call = "none")

==============================================================================
