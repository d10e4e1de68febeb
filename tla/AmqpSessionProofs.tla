-------------------------- MODULE AmqpSessionProofs --------------------------
(***************************************************************************)
(* Proofs about AmqpSession, for frames and heartbeats of any size.        *)
(*                                                                         *)
(* TimeType and OutType bound times and octets.  On it rest three parts    *)
(* that do not need each other: Aligned (what the broker has read of a     *)
(* frame and what the client has left of it make a frame), Believed (the   *)
(* broker's heartbeat is never overdue while nothing has arrived) and      *)
(* Heard (the client's own heartbeat is due before an interval is over).   *)
(***************************************************************************)
EXTENDS AmqpSession, SequenceTheorems, TLAPS

\* The times of the connection and of its broker.
TimeType ==
  /\ client.heartbeat \in 0..MaxQuiet /\ server.heartbeat \in 0..MaxQuiet
  /\ tuned.heartbeat \in 0..MaxQuiet
  /\ sendIn \in Int /\ recvIn \in Int /\ deadline \in Int
  /\ quiet \in Nat /\ unheard \in Nat

\* What is being sent.
SentFrames == {"header", "start_ok", "tune_ok", "open", "heartbeat", "publish", "content"}
OutType ==
  /\ out = [frames |-> out.frames, left |-> out.left]
  /\ out.frames \in Seq(SentFrames)
  /\ out.left \in 1..FrameSize
  /\ room \in Int

\* What is not being sent is not begun; between calls nothing is.
NothingLeft ==
  /\ ~Sending => out.left = FrameSize
  /\ call = "none" => ~Sending

\* What the broker has of a frame is what the client has sent of it.
Aligned ==
  ~gaveUp => ~torn /\ (socket = "open" => got = FrameSize - out.left)

\* Before the connection is tuned there is no heartbeat; afterwards a silence
\* of the broker ends in time.
Believed ==
  alive /\ stage \in {"start", "tune", "open", "ready"} =>
    /\ socket = "open" /\ ~gaveUp
    /\ stage \in {"start", "tune"} => tuned.heartbeat = 0
    /\ tuned.heartbeat = 0 => recvIn = Infinite
    /\ tuned.heartbeat > 0 =>
         /\ quiet <= tuned.heartbeat
         /\ arrived = <<>> => recvIn + quiet >= 2 * tuned.heartbeat

\* The client's heartbeats count from the time its tune_ok is sent.
Counted == \/ stage = "ready"
           \/ stage = "open" /\ call = "wait" /\ ~Sending

\* A client that has sent nothing for an interval is due, so it does not wait on.
Heard ==
  /\ Counted /\ tuned.heartbeat > 0 /\ sendIn >= 0
  => sendIn + unheard <= tuned.heartbeat

SessionInv == TimeType /\ OutType /\ NothingLeft /\ Aligned /\ Believed /\ Heard

------------------------------------------------------------------------------
\* What amqp_time_s_from_now and the passing of time do to a time.
LEMMA TimesAreIntegers ==
  /\ \A n \in Int : FromNow(n) \in Int
  /\ \A t \in Int : Later(t) \in Int
  /\ \A s, t \in Int : First(s, t) \in Int /\ First(s, t) <= s /\ First(s, t) <= t
  /\ \A c, s \in 0..MaxQuiet : Lowest(c, s) \in 0..MaxQuiet
BY TimesAreBounded DEF FromNow, Later, First, Lowest, Infinite

\* A frame of which k octets are sent, when the broker has got the rest.
LEMMA OctetsFit ==
  ASSUME NEW left \in 1..FrameSize, NEW k \in 1..left
  PROVE  (FrameSize - left + k) % FrameSize = IF k = left THEN 0 ELSE FrameSize - (left - k)
<1>1. CASE k = left
  BY <1>1, SizesArePositive
<1>2. CASE k # left
  <2>1. FrameSize - left + k \in 0..FrameSize - 1
    BY <1>2, SizesArePositive
  <2>2. \A a \in 0..FrameSize - 1 : a % FrameSize = a
    BY SizesArePositive
  <2>3. QED
    BY <1>2, <2>1, <2>2, SizesArePositive
<1>3. QED
  BY <1>1, <1>2

\* Every step keeps the types of what is sent.
LEMMA OutTypeStep == OutType /\ [Next]_vars => OutType'
<1> SUFFICES ASSUME OutType, [Next]_vars PROVE OutType'
  OBVIOUS
<1> USE SizesArePositive DEF OutType
<1>1. CASE Write
  <2>1. PICK k \in 1..First(room, out.left) :
          /\ room' = IF stage = "ready" THEN room - k ELSE room
          /\ IF k = out.left
             THEN out' = [frames |-> Tail(out.frames), left |-> FrameSize]
             ELSE out' = [out EXCEPT !.left = Rest(k)]
    BY <1>1 DEF Write, Octets
  <2>2. First(room, out.left) \in Int /\ First(room, out.left) <= out.left
    BY DEF First
  <2>3. k \in Int /\ 1 <= k /\ k <= out.left
    BY <2>1, <2>2
  <2>4. room' \in Int
    BY <2>1, <2>3
  <2>5. CASE k = out.left
    <3>1. Tail(out.frames) \in Seq(SentFrames)
      BY <1>1 DEF Write, Sending
    <3>2. out' = [frames |-> Tail(out.frames), left |-> FrameSize]
      BY <2>1, <2>5
    <3>3. QED
      BY <2>4, <3>1, <3>2
  <2>6. CASE k # out.left
    <3>1. Rest(k) \in 1..FrameSize
      BY <2>3, <2>6 DEF Rest
    <3>2. out' = [out EXCEPT !.left = Rest(k)]
      BY <2>1, <2>6
    <3>3. out' = [frames |-> out.frames, left |-> Rest(k)]
      BY <3>2
    <3>4. QED
      BY <2>4, <3>1, <3>3
  <2>7. QED
    BY <2>5, <2>6
<1>2. CASE SendTimeout
  <2>1. CASE GiveUp
    BY <2>1 DEF GiveUp, NothingToSend
  <2>2. CASE UNCHANGED stream
    BY <2>2 DEF stream
  <2>3. QED
    BY <1>2, <2>1, <2>2 DEF SendTimeout, TryRecv, stream
<1>3. CASE SendFails
  BY <1>3 DEF SendFails, NothingToSend
<1>4. \A frames \in Seq(SentFrames) : Send(frames) /\ UNCHANGED room => OutType'
  BY DEF Send
<1>5. CASE SendHeartbeat
  <2>1. <<"heartbeat">> \in Seq(SentFrames)
    BY DEF SentFrames
  <2>2. QED
    BY <1>4, <1>5, <2>1 DEF SendHeartbeat
<1>6. CASE Start
  <2>1. <<"start_ok">> \in Seq(SentFrames)
    BY DEF SentFrames
  <2>2. QED
    BY <1>4, <1>6, <2>1 DEF Start
<1>7. CASE Tune
  <2>1. <<"tune_ok", "open">> \in Seq(SentFrames)
    BY DEF SentFrames
  <2>2. QED
    BY <1>4, <1>7, <2>1 DEF Tune
<1>8. CASE Publish
  <2>1. <<"publish", "content">> \in Seq(SentFrames)
    BY DEF SentFrames
  <2>2. QED
    BY <1>4, <1>8, <2>1 DEF Publish
<1>9. CASE BrokerReads
  BY <1>9 DEF BrokerReads
<1>10. CASE UNCHANGED stream
  BY <1>10 DEF stream
<1>11. CASE \/ Recv \/ WaitTimeout \/ RecvFails \/ SkipHeartbeat \/ UnfitStart \/ Refused
            \/ Open \/ WaitReturns
  BY <1>10, <1>11 DEF Recv, WaitTimeout, RecvFails, SkipHeartbeat, UnfitStart, Refused, Open, WaitReturns
<1>12. CASE StartWait \/ Answer \/ BrokerSends \/ BrokerDies \/ Tick
  BY <1>10, <1>12 DEF StartWait, Answer, BrokerSends, Arrives, BrokerDies, Tick
<1>13. CASE UNCHANGED vars
  BY <1>10, <1>13 DEF vars, stream
<1>14. QED
  BY <1>1, <1>2, <1>3, <1>5, <1>6, <1>7, <1>8, <1>9, <1>11, <1>12, <1>13 DEF Next, Works

\* Every step keeps the types of the times.
LEMMA TimeTypeStep == TimeType /\ [Next]_vars => TimeType'
<1> SUFFICES ASSUME TimeType, [Next]_vars PROVE TimeType'
  OBVIOUS
<1> USE DEF TimeType
<1>1. /\ FromNow(SendInterval) \in Int /\ FromNow(RecvInterval) \in Int
      /\ \A t \in {sendIn, recvIn, deadline} : Later(t) \in Int
  <2>1. SendInterval \in Int /\ RecvInterval \in Int
    BY TimesAreBounded DEF SendInterval, RecvInterval
  <2>2. QED
    BY <2>1, TimesAreIntegers
<1>2. CASE Write
  BY <1>1, <1>2 DEF Write, brokerVars
<1>3. CASE SendTimeout
  BY <1>1, <1>3 DEF SendTimeout, TryRecv, brokerVars
<1>4. CASE Recv
  BY <1>1, <1>4 DEF Recv, RecvHeartbeat, brokerVars
<1>5. CASE Tune
  <2>1. tuned'.heartbeat = Lowest(client.heartbeat, server.heartbeat)
    BY <1>5 DEF Tune
  <2>2. tuned'.heartbeat \in 0..MaxQuiet
    BY <2>1 DEF Lowest
  <2>3. tuned'.heartbeat \in Int /\ 2 * tuned'.heartbeat \in Int
    BY <2>2, TimesAreBounded
  <2>4. sendIn' \in Int /\ recvIn' \in Int
    BY <1>5, <2>3, TimesAreIntegers DEF Tune
  <2>5. QED
    BY <1>5, <2>2, <2>4 DEF Tune
<1>6. CASE StartWait
  BY <1>6, TimesAreBounded DEF StartWait, brokerVars
<1>7. CASE Publish
  BY <1>1, <1>7 DEF Publish, brokerVars
<1>8. CASE Tick
  <2>1. sendIn' \in Int /\ recvIn' \in Int /\ deadline' \in Int
    BY <1>1, <1>8 DEF Tick
  <2>2. quiet' \in Nat /\ unheard' \in Nat
    BY <1>8, TimesAreBounded DEF Tick, First
  <2>3. QED
    BY <1>8, <2>1, <2>2 DEF Tick
<1>9. CASE Answer \/ BrokerSends
  BY <1>9 DEF Answer, BrokerSends, Arrives, times
<1>10. CASE BrokerReads \/ BrokerDies
  BY <1>10 DEF BrokerReads, BrokerDies, times, brokerVars
<1>11. CASE SendFails \/ WaitTimeout \/ RecvFails \/ SkipHeartbeat
  BY <1>11 DEF SendFails, WaitTimeout, RecvFails, SkipHeartbeat, times, brokerVars
<1>12. CASE SendHeartbeat \/ UnfitStart \/ Start \/ Refused \/ Open \/ WaitReturns
  BY <1>12 DEF SendHeartbeat, UnfitStart, Start, Refused, Open, WaitReturns, times, brokerVars
<1>13. CASE UNCHANGED vars
  BY <1>13 DEF vars, times, brokerVars
<1>14. QED
  BY <1>2, <1>3, <1>4, <1>5, <1>6, <1>7, <1>8, <1>9, <1>10, <1>11, <1>12, <1>13
     DEF Next, Works

------------------------------------------------------------------------------
\* What is not being sent is not begun.
LEMMA NothingLeftStep == OutType /\ NothingLeft /\ [Next]_vars => NothingLeft'
<1> SUFFICES ASSUME OutType, NothingLeft, [Next]_vars PROVE NothingLeft'
  OBVIOUS
<1> USE DEF NothingLeft, Sending
<1>1. CASE Write
  <2>1. PICK k \in 1..First(room, out.left) :
          IF k = out.left
          THEN /\ out' = [frames |-> Tail(out.frames), left |-> FrameSize]
               /\ call' = IF call = "publish" /\ Len(out.frames) = 1 THEN "none" ELSE call
          ELSE out' = [out EXCEPT !.left = Rest(k)] /\ UNCHANGED call
    BY <1>1 DEF Write
  <2>2. out.frames # <<>> /\ call # "none"
    BY <1>1 DEF Write
  <2>3. Len(out.frames) = 1 => Tail(out.frames) = <<>>
    <3>1. SUFFICES ASSUME Len(out.frames) = 1 PROVE Tail(out.frames) = <<>>
      OBVIOUS
    <3>2. Tail(out.frames) \in Seq(SentFrames) /\ Len(Tail(out.frames)) = 0
      BY <2>2, <3>1, HeadTailProperties DEF OutType
    <3>3. QED
      BY <3>2, EmptySeq
  <2>4. CASE k = out.left
    <3>1. out'.frames = Tail(out.frames) /\ out'.left = FrameSize
      BY <2>1, <2>4
    <3>2. call' = "none" => Tail(out.frames) = <<>>
      BY <2>1, <2>2, <2>3, <2>4
    <3>3. QED
      BY <3>1, <3>2
  <2>5. CASE k # out.left
    <3>1. out' = [frames |-> out.frames, left |-> Rest(k)] /\ call' = call
      BY <2>1, <2>5 DEF OutType
    <3>2. QED
      BY <2>2, <3>1
  <2>6. QED
    BY <2>4, <2>5
<1>2. CASE SendTimeout
  <2>1. CASE GiveUp
    BY <2>1 DEF GiveUp, NothingToSend
  <2>2. CASE UNCHANGED <<call, stream>>
    BY <2>2 DEF stream
  <2>3. QED
    BY <1>2, <2>1, <2>2 DEF SendTimeout, TryRecv
<1>3. CASE SendFails
  BY <1>3 DEF SendFails, NothingToSend
<1>4. CASE SendHeartbeat \/ Start \/ Tune
  <2>1. call' = "wait" /\ out'.left = FrameSize
    BY <1>4 DEF SendHeartbeat, Start, Tune, NextFrame, Waiting, Send
  <2>2. QED
    BY <2>1
<1>5. CASE Publish
  BY <1>5 DEF Publish, Send
<1>6. CASE UNCHANGED <<call, out>>
  BY <1>6
<1>7. CASE WaitTimeout \/ RecvFails \/ UnfitStart \/ Refused \/ Open \/ WaitReturns
  <2>1. ~Sending /\ out' = out
    BY <1>7 DEF WaitTimeout, RecvFails, UnfitStart, Refused, Open, WaitReturns, NextFrame, Waiting, stream
  <2>2. QED
    BY <2>1
<1>8. CASE StartWait
  BY <1>8 DEF StartWait, stream
<1>9. CASE Recv \/ SkipHeartbeat \/ Answer \/ BrokerSends \/ BrokerReads \/ BrokerDies \/ Tick
  BY <1>6, <1>9 DEF Recv, SkipHeartbeat, Answer, BrokerSends, Arrives, BrokerReads, BrokerDies, Tick, stream
<1>10. CASE UNCHANGED vars
  BY <1>6, <1>10 DEF vars, stream
<1>11. QED
  BY <1>1, <1>2, <1>3, <1>4, <1>5, <1>7, <1>8, <1>9, <1>10 DEF Next, Works

\* The broker's part of a frame and the client's part make a frame.
LEMMA AlignedStep ==
  OutType /\ NothingLeft /\ Aligned /\ [Next]_vars => Aligned'
<1> SUFFICES ASSUME OutType, NothingLeft, Aligned, [Next]_vars, ~gaveUp' PROVE ~torn' /\ (socket' = "open" => got' = FrameSize - out'.left)
  BY DEF Aligned
<1> USE DEF Aligned
<1>0. socket' = "open" => socket = "open"
  <2>1. CASE Works
    BY <2>1 DEF Works, Write, SendTimeout, SendFails, SendHeartbeat, Recv, WaitTimeout, RecvFails,
       SkipHeartbeat, UnfitStart, Start, Refused, Tune, Open, WaitReturns, Close
  <2>2. CASE ~Works
    BY <2>2 DEF Next, StartWait, Publish, Answer, BrokerSends, Arrives, BrokerReads, BrokerDies, Tick, vars
  <2>3. QED
    BY <2>1, <2>2
<1>1. CASE Write
  <2>1. PICK k \in 1..First(room, out.left) :
          /\ got' = (got + k) % FrameSize
          /\ torn' = (torn \/ got # FrameSize - out.left)
          /\ IF k = out.left
             THEN out' = [frames |-> Tail(out.frames), left |-> FrameSize]
             ELSE out' = [out EXCEPT !.left = Rest(k)]
    BY <1>1 DEF Write, Octets
  <2>2. ~gaveUp /\ socket = "open"
    BY <1>1 DEF Write
  <2>3. got = FrameSize - out.left /\ ~torn
    BY <2>2
  <2>4. k \in 1..out.left
    BY <1>1 DEF OutType, First
  <2>5. got' = IF k = out.left THEN 0 ELSE FrameSize - (out.left - k)
    BY <2>1, <2>3, <2>4, OctetsFit DEF OutType
  <2>6. out'.left = IF k = out.left THEN FrameSize ELSE out.left - k
    <3>1. CASE k = out.left
      BY <2>1, <3>1
    <3>2. CASE k # out.left
      <4>1. out' = [frames |-> out.frames, left |-> Rest(k)]
        BY <2>1, <3>2 DEF OutType
      <4>2. QED
        BY <3>2, <4>1 DEF Rest
    <3>3. QED
      BY <3>1, <3>2
  <2>7. ~torn'
    BY <2>1, <2>3, ZenonT(30)
  <2>8. got' = FrameSize - out'.left
    BY <2>5, <2>6, <2>4, SizesArePositive DEF OutType
  <2>9. QED
    BY <2>7, <2>8
<1>2. CASE SendTimeout
  BY <1>2 DEF SendTimeout, TryRecv, GiveUp, stream
<1>3. CASE SendFails
  BY <1>3 DEF SendFails
<1>4. CASE SendHeartbeat \/ Start \/ Tune
  <2>1. /\ UNCHANGED <<got, torn, gaveUp, socket>> /\ ~Sending
        /\ out'.left = FrameSize
    BY <1>4 DEF SendHeartbeat, Start, Tune, NextFrame, Waiting, Send
  <2>2. QED
    BY <2>1 DEF NothingLeft
<1>5. CASE Publish
  <2>1. /\ UNCHANGED <<got, torn, gaveUp, socket>> /\ ~Sending
        /\ out'.left = FrameSize
    BY <1>5 DEF Publish, Send, NothingLeft
  <2>2. QED
    BY <2>1 DEF NothingLeft
<1>6. CASE UNCHANGED stream
  BY <1>0, <1>6 DEF stream
<1>7. CASE \/ Recv \/ WaitTimeout \/ RecvFails \/ SkipHeartbeat \/ UnfitStart \/ Refused
           \/ Open \/ WaitReturns
  BY <1>6, <1>7 DEF Recv, WaitTimeout, RecvFails, SkipHeartbeat, UnfitStart, Refused, Open, WaitReturns
<1>8. CASE BrokerReads
  BY <1>8 DEF BrokerReads
<1>9. CASE StartWait \/ Answer \/ BrokerSends \/ BrokerDies \/ Tick
  BY <1>6, <1>9 DEF StartWait, Answer, BrokerSends, Arrives, BrokerDies, Tick
<1>10. CASE UNCHANGED vars
  BY <1>6, <1>10 DEF vars, stream
<1>11. QED
  BY <1>1, <1>2, <1>3, <1>4, <1>5, <1>7, <1>8, <1>9, <1>10 DEF Next, Works

------------------------------------------------------------------------------
\* FromNow of an interval of the connection, and what passes of a time.
LEMMA IntervalsAreShort ==
  ASSUME NEW h \in 0..MaxQuiet
  PROVE  /\ FromNow(h) = IF h = 0 THEN Infinite ELSE h
         /\ FromNow(2 * h) = IF h = 0 THEN Infinite ELSE 2 * h
         /\ h \in Int /\ 0 <= h /\ h < Infinite /\ 2 * h < Infinite
BY TimesAreBounded DEF FromNow, Infinite

\* While the broker keeps its heartbeats up, its deadline is not reached when
\* nothing has arrived, so nobody gives it up.
BelievedNow == Believed /\ alive /\ stage \in {"start", "tune", "open", "ready"}

LEMMA RecvIsNotReached ==
  ASSUME TimeType, BelievedNow, arrived = <<>>
  PROVE  ~Reached(recvIn) /\ ~HasPast(recvIn)
BY TimesAreBounded DEF TimeType, BelievedNow, Believed, Reached, HasPast, Infinite

LEMMA BelievedStep == TimeType /\ OutType /\ NothingLeft /\ Believed /\ [Next]_vars => Believed'
<1> SUFFICES ASSUME TimeType, OutType, NothingLeft, Believed, [Next]_vars,
                    alive', stage' \in {"start", "tune", "open", "ready"}
             PROVE  /\ socket' = "open" /\ ~gaveUp'
                    /\ stage' \in {"start", "tune"} => tuned'.heartbeat = 0
                    /\ tuned'.heartbeat = 0 => recvIn' = Infinite
                    /\ tuned'.heartbeat > 0 =>
                         /\ quiet' <= tuned'.heartbeat
                         /\ arrived' = <<>> => recvIn' + quiet' >= 2 * tuned'.heartbeat
  BY DEF Believed
<1>1. BelievedNow
  <2>1. CASE Works
    BY <2>1 DEF BelievedNow, Works, Write, SendTimeout, SendFails, SendHeartbeat, Recv, WaitTimeout, RecvFails,
       SkipHeartbeat, UnfitStart, Start, Refused, Tune, Open, WaitReturns, brokerVars
  <2>2. CASE ~Works
    BY <2>2 DEF BelievedNow, Next, StartWait, Publish, Answer, BrokerSends, Arrives, BrokerReads, BrokerDies, Tick, vars, brokerVars
  <2>3. QED
    BY <2>1, <2>2
<1>2. /\ socket = "open" /\ ~gaveUp
      /\ stage \in {"start", "tune"} => tuned.heartbeat = 0
      /\ tuned.heartbeat = 0 => recvIn = Infinite
      /\ tuned.heartbeat > 0 =>
           /\ quiet <= tuned.heartbeat
           /\ arrived = <<>> => recvIn + quiet >= 2 * tuned.heartbeat
  BY <1>1 DEF BelievedNow, Believed
<1>3. /\ FromNow(RecvInterval) = IF tuned.heartbeat = 0 THEN Infinite ELSE 2 * tuned.heartbeat
      /\ tuned.heartbeat \in Int /\ 0 <= tuned.heartbeat
      /\ quiet \in Nat /\ recvIn \in Int
  BY IntervalsAreShort DEF RecvInterval, TimeType
<1>4. CASE /\ UNCHANGED <<socket, gaveUp, tuned, recvIn, quiet, arrived>>
           /\ stage' = stage \/ stage' \notin {"start", "tune"}
  BY <1>2, <1>4
<1>5. CASE /\ UNCHANGED <<socket, gaveUp, tuned, stage, quiet>>
           /\ recvIn' = FromNow(RecvInterval)
  BY <1>2, <1>3, <1>5
<1>6. CASE SendTimeout
  <2>1. arrived # <<>>
    BY <1>1, <1>6, RecvIsNotReached DEF SendTimeout
  <2>2. QED
    BY <1>5, <1>6, <2>1 DEF SendTimeout, TryRecv, stream, brokerVars
<1>7. CASE Recv
  BY <1>5, <1>7 DEF Recv, RecvHeartbeat, stream, brokerVars
<1>8. CASE WaitTimeout
  <2>1. PollUntil # recvIn
    BY <1>1, <1>8, RecvIsNotReached DEF WaitTimeout
  <2>2. stage = "ready"
    BY <1>8 DEF WaitTimeout
  <2>3. QED
    BY <1>4, <1>8, <2>1, <2>2 DEF WaitTimeout, times, stream, brokerVars
<1>9. CASE Tune
  <2>1. tuned'.heartbeat = Lowest(client.heartbeat, server.heartbeat)
    BY <1>9 DEF Tune
  <2>2. tuned'.heartbeat \in 0..MaxQuiet
    BY <2>1 DEF TimeType, Lowest
  <2>3. recvIn' = IF tuned'.heartbeat = 0 THEN Infinite ELSE 2 * tuned'.heartbeat
    BY <1>9, <2>2, IntervalsAreShort DEF Tune
  <2>4. stage' = "open" /\ quiet' = 0 /\ UNCHANGED <<socket, gaveUp, arrived>>
    BY <1>9 DEF Tune
  <2>5. QED
    BY <1>2, <2>2, <2>3, <2>4, TimesAreBounded
<1>10. CASE Publish
  <2>1. ~HasPast(recvIn) \/ arrived # <<>>
    BY <1>1, RecvIsNotReached
  <2>2. CASE HasPast(recvIn)
    BY <1>5, <1>10, <2>1, <2>2 DEF Publish, brokerVars
  <2>3. CASE ~HasPast(recvIn)
    BY <1>4, <1>10, <2>1, <2>3 DEF Publish, brokerVars
  <2>4. QED
    BY <2>2, <2>3
<1>11. CASE Answer \/ BrokerSends
  <2>1. PICK f : Arrives(f)
    BY <1>11 DEF Answer, BrokerSends
  <2>2. arrived' # <<>>
    BY <2>1 DEF Arrives, MaxArrived
  <2>3. QED
    BY <1>2, <1>3, <2>1, <2>2 DEF Arrives, times, stream
<1>12. CASE Tick
  <2>1. UNCHANGED <<socket, gaveUp, tuned, stage, arrived>>
    BY <1>12 DEF Tick, stream
  <2>2. CASE tuned.heartbeat = 0
    BY <1>2, <1>12, <2>1, <2>2 DEF Tick, Later
  <2>3. CASE tuned.heartbeat > 0
    <3>1. stage \in {"open", "ready"} /\ quiet < tuned.heartbeat
      BY <1>1, <1>2, <1>3, <1>12, <2>3 DEF BelievedNow, Tick, BrokerIsOnTime
    <3>2. quiet' = quiet + 1
      BY <1>3, <1>12, <3>1, TimesAreBounded DEF Tick, First, TimeType
    <3>3. arrived = <<>> => recvIn' >= recvIn - 1
      BY <1>3, <1>12 DEF Tick, Later, Infinite
    <3>4. recvIn' \in Int
      BY <1>12, TimesAreIntegers DEF Tick, TimeType
    <3>5. QED
      BY <1>2, <1>3, <2>1, <2>3, <3>1, <3>2, <3>3, <3>4
  <2>4. QED
    BY <1>3, <2>2, <2>3
<1>13. CASE Write
  BY <1>4, <1>13 DEF Write
<1>14. CASE SendFails \/ RecvFails
  BY <1>2, <1>14 DEF SendFails, RecvFails
<1>15. CASE UnfitStart \/ Refused
  BY <1>15 DEF UnfitStart, Refused
<1>16. CASE SendHeartbeat \/ SkipHeartbeat \/ WaitReturns \/ StartWait \/ BrokerReads
  BY <1>4, <1>16 DEF SendHeartbeat, SkipHeartbeat, WaitReturns, StartWait, BrokerReads, times, stream, brokerVars
<1>17. CASE Start
  BY <1>2, <1>17 DEF Start, times, brokerVars
<1>18. CASE Open
  BY <1>4, <1>18 DEF Open, times, stream, brokerVars
<1>19. CASE BrokerDies
  BY <1>19 DEF BrokerDies
<1>20. CASE UNCHANGED vars
  BY <1>4, <1>20 DEF vars, times, stream, brokerVars
<1>21. QED
  BY <1>6, <1>7, <1>8, <1>9, <1>10, <1>11, <1>12, <1>13, <1>14, <1>15, <1>16, <1>17,
     <1>18, <1>19, <1>20 DEF Next, Works

------------------------------------------------------------------------------
LEMMA HeardStep == TimeType /\ OutType /\ NothingLeft /\ Heard /\ [Next]_vars => Heard'
<1> SUFFICES ASSUME TimeType, OutType, NothingLeft, Heard, [Next]_vars,
                    Counted', tuned'.heartbeat > 0, sendIn' >= 0
             PROVE  sendIn' + unheard' <= tuned'.heartbeat
  BY DEF Heard, Counted
<1>1. Counted /\ tuned.heartbeat > 0 /\ sendIn >= 0 => sendIn + unheard <= tuned.heartbeat
  BY DEF Heard, Counted
<1>2. CASE UNCHANGED <<tuned, sendIn, unheard>> /\ Counted
  BY <1>1, <1>2
<1>3. CASE UNCHANGED <<stage, call, out>> /\ UNCHANGED <<tuned, sendIn, unheard>>
  BY <1>2, <1>3 DEF Counted, Sending
<1>4. CASE Write
  <2>1. PICK k \in 1..First(room, out.left) :
          IF k = out.left
          THEN sendIn' = FromNow(SendInterval) /\ unheard' = 0
          ELSE out' = [out EXCEPT !.left = Rest(k)] /\ UNCHANGED <<sendIn, unheard, call>>
    BY <1>4 DEF Write
  <2>2. UNCHANGED <<tuned, stage>> /\ Sending
    BY <1>4 DEF Write
  <2>3. CASE k = out.left
    <3>1. sendIn' = FromNow(tuned.heartbeat) /\ unheard' = 0
      BY <2>1, <2>3 DEF SendInterval
    <3>2. tuned.heartbeat \in 0..MaxQuiet
      BY DEF TimeType
    <3>3. FromNow(tuned.heartbeat) = tuned.heartbeat /\ tuned.heartbeat \in Int
      BY <2>2, <3>2, IntervalsAreShort
    <3>4. QED
      BY <2>2, <3>1, <3>3
  <2>4. CASE k # out.left
    <3>1. out' = [frames |-> out.frames, left |-> Rest(k)] /\ UNCHANGED <<sendIn, unheard, call>>
      BY <2>1, <2>4 DEF OutType
    <3>2. QED
      BY <1>2, <2>2, <3>1 DEF Counted, Sending
  <2>5. QED
    BY <2>3, <2>4
<1>5. CASE SendTimeout
  <2>1. UNCHANGED <<tuned, stage, sendIn, unheard>>
    BY <1>5 DEF SendTimeout
  <2>2. CASE GiveUp
    BY <1>2, <2>1, <2>2 DEF GiveUp, Counted
  <2>3. CASE UNCHANGED <<call, stream>>
    BY <1>3, <2>1, <2>3 DEF stream
  <2>4. QED
    BY <1>5, <2>2, <2>3 DEF SendTimeout, TryRecv
<1>6. CASE SendFails \/ WaitTimeout \/ RecvFails
  <2>1. UNCHANGED <<tuned, sendIn, unheard>>
    BY <1>6 DEF SendFails, WaitTimeout, RecvFails, times
  <2>2. Counted
    BY <1>6 DEF SendFails, WaitTimeout, RecvFails, Counted
  <2>3. QED
    BY <1>2, <2>1, <2>2
<1>7. CASE SendHeartbeat
  <2>1. Counted
    BY <1>7 DEF SendHeartbeat, Send, Sending, Counted
  <2>2. QED
    BY <1>2, <1>7, <2>1 DEF SendHeartbeat, times
<1>8. CASE Recv \/ SkipHeartbeat
  BY <1>3, <1>8 DEF Recv, SkipHeartbeat, times, stream
<1>9. CASE UnfitStart \/ Start \/ Refused
  BY <1>9 DEF UnfitStart, Start, Refused, Counted
<1>10. CASE Tune
  BY <1>10 DEF Tune, Send, Sending, Counted
<1>11. CASE Open
  <2>1. stage = "open" /\ call = "wait" /\ ~Sending
    BY <1>11 DEF Open, NextFrame, Waiting
  <2>2. QED
    BY <1>2, <1>11, <2>1 DEF Open, times, Counted
<1>12. CASE StartWait \/ WaitReturns \/ Publish
  <2>1. UNCHANGED <<tuned, sendIn, unheard>> /\ stage = "ready"
    BY <1>12 DEF StartWait, WaitReturns, Publish, times
  <2>2. QED
    BY <1>2, <2>1 DEF Counted
<1>13. CASE Answer \/ BrokerSends \/ BrokerReads \/ BrokerDies
  BY <1>3, <1>13 DEF Answer, BrokerSends, Arrives, BrokerReads, BrokerDies, times, stream
<1>14. CASE Tick
  <2>1. UNCHANGED <<tuned, stage, call, out>> /\ sendIn' = Later(sendIn)
    BY <1>14 DEF Tick, stream
  <2>2. Counted
    BY <2>1 DEF Counted, Sending
  <2>3. unheard' <= unheard + 1 /\ unheard' \in Int /\ unheard \in Int
    BY <1>14, TimesAreBounded DEF Tick, First, TimeType
  <2>4. sendIn # Infinite /\ sendIn >= 0
    <3>1. sendIn \in Int /\ unheard \in Nat /\ tuned.heartbeat \in 0..MaxQuiet
      BY DEF TimeType
    <3>2. sendIn >= 0
      BY <2>1, <3>1 DEF Later, Infinite
    <3>3. sendIn + unheard <= tuned.heartbeat
      BY <1>1, <2>1, <2>2, <3>2
    <3>4. QED
      BY <3>1, <3>2, <3>3, TimesAreBounded DEF Infinite
  <2>5. sendIn' = sendIn - 1
    BY <2>1, <2>4 DEF Later, TimeType
  <2>6. QED
    BY <1>1, <2>1, <2>2, <2>3, <2>4, <2>5 DEF TimeType
<1>15. CASE UNCHANGED vars
  BY <1>3, <1>15 DEF vars, times, stream
<1>16. QED
  BY <1>4, <1>5, <1>6, <1>7, <1>8, <1>9, <1>10, <1>11, <1>12, <1>13, <1>14, <1>15
     DEF Next, Works

------------------------------------------------------------------------------
\* The inductive invariant of a connection.
THEOREM SessionInvariance == Spec => []SessionInv
<1>1. Init => SessionInv
  <2> SUFFICES ASSUME Init PROVE SessionInv
    OBVIOUS
  <2>1. TimeType
    BY TimesAreBounded DEF Init, TimeType, Infinite
  <2>2. OutType
    <3>1. <<"header">> \in Seq(SentFrames)
      BY DEF SentFrames
    <3>2. QED
      BY <3>1, SizesArePositive DEF Init, OutType
  <2>3. NothingLeft
    BY DEF Init, NothingLeft, Sending
  <2>4. Aligned
    BY SizesArePositive DEF Init, Aligned
  <2>5. Believed /\ Heard
    BY DEF Init, Believed, Heard, Counted
  <2>6. QED
    BY <2>1, <2>2, <2>3, <2>4, <2>5 DEF SessionInv
<1>2. SessionInv /\ [Next]_vars => SessionInv'
  BY TimeTypeStep, OutTypeStep, NothingLeftStep, AlignedStep, BelievedStep, HeardStep DEF SessionInv
<1>3. QED
  BY <1>1, <1>2, PTL DEF Spec

\* However the socket cuts what is sent, the broker reads whole frames unless a
\* publish was given up (amqp_send_frame_inner, amqp_try_send).
THEOREM FramesArriveWhole == Spec => []FramesAreWhole
<1>1. SessionInv => FramesAreWhole
  BY DEF SessionInv, Aligned, FramesAreWhole
<1>2. QED
  BY <1>1, SessionInvariance, PTL

\* A broker that keeps its heartbeats up is never given up, for intervals of any
\* length (next_recv_heartbeat in wait_frame_inner and amqp_basic_publish).
THEOREM LiveBrokersAreBelieved == Spec => []LiveBrokerIsBelieved
<1>1. SessionInv => LiveBrokerIsBelieved
  BY DEF SessionInv, Believed, LiveBrokerIsBelieved
<1>2. QED
  BY <1>1, SessionInvariance, PTL

\* A client that waits is heard in every interval of any length
\* (next_send_heartbeat in wait_frame_inner).
THEOREM WaitingClientsAreHeard == Spec => WaitingClientIsHeard
<1>1. SessionInv /\ [Next]_vars =>
        [Waiting /\ stage = "ready" /\ tuned.heartbeat > 0 /\ unheard' > unheard
           => unheard <= tuned.heartbeat]_vars
  <2> SUFFICES ASSUME SessionInv, [Next]_vars, Waiting, stage = "ready",
                      tuned.heartbeat > 0, unheard' > unheard
               PROVE  unheard <= tuned.heartbeat
    OBVIOUS
  <2>1. unheard \in Nat /\ sendIn \in Int /\ recvIn \in Int /\ deadline \in Int /\ tuned.heartbeat \in Int
    BY TimesAreBounded DEF SessionInv, TimeType
  <2>2. unheard' # unheard /\ unheard' # 0
    BY <2>1
  <2>3. Tick
    <3>1. CASE Works
      BY <2>2, <3>1 DEF Works, Write, SendTimeout, SendFails, SendHeartbeat, Recv, WaitTimeout, RecvFails,
         SkipHeartbeat, UnfitStart, Start, Refused, Tune, Open, WaitReturns
    <3>2. CASE ~Works
      BY <2>2, <3>2 DEF Next, StartWait, Publish, Answer, BrokerSends, Arrives, BrokerReads, BrokerDies, vars
    <3>3. QED
      BY <3>1, <3>2
  <2>4. ~Due
    BY <2>3 DEF Tick, Blocked, Waiting
  <2>5. sendIn >= 0
    BY <2>1, <2>4 DEF Due, HasPast, Reached, PollUntil, First
  <2>6. sendIn + unheard <= tuned.heartbeat
    BY <2>5 DEF SessionInv, Heard, Counted
  <2>7. QED
    BY <2>1, <2>5, <2>6
<1>2. QED
  BY <1>1, SessionInvariance, PTL DEF Spec, WaitingClientIsHeard

==============================================================================
