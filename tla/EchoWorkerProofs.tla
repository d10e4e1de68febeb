-------------------------- MODULE EchoWorkerProofs --------------------------
(***************************************************************************)
(* Proofs about EchoWorker, for any tiles, consumers and faults.           *)
(***************************************************************************)
EXTENDS EchoWorker, TLAPS

\* Every step of the consumers and of the orchestrator keeps the types.
LEMMA WorkerTypeStep == TypeOK /\ [Next]_vars => TypeOK'
<1> SUFFICES ASSUME TypeOK, [Next]_vars PROVE TypeOK'
  OBVIOUS
<1> USE WorkerAssumption DEF TypeOK, Goto, consumers
<1>1. ASSUME NEW w \in Worker, Dispatch(w) \/ DispatchAgain(w) PROVE TypeOK'
  BY <1>1 DEF Dispatch, DispatchAgain
<1>2. ASSUME NEW t \in Thread, NEW w \in Worker, ReceiveMessage(t, w) PROVE TypeOK'
  BY <1>2 DEF ReceiveMessage, SetContext, Pc
<1>3. ASSUME NEW t \in Thread, ExistAndIsValid(t) PROVE TypeOK'
  <2>1. /\ UNCHANGED <<dispatched, workerQ, callbacks, file, msg, totalWorkers, faults>>
        /\ pc' = [pc EXCEPT ![t] = "callback"] \/ pc' = [pc EXCEPT ![t] = "create"]
        /\ msg[t] \in Worker
    BY <1>3 DEF ExistAndIsValid
  <2>2. QED
    BY <2>1 DEF Pc
<1>4. ASSUME NEW t \in Thread, InputUnreadable(t) PROVE TypeOK'
  BY <1>4 DEF InputUnreadable, Requeue, Pc
<1>5. ASSUME NEW t \in Thread, CreateTile(t) PROVE TypeOK'
  BY <1>5 DEF CreateTile, Pc, File
<1>6. ASSUME NEW t \in Thread, WarpTile(t) PROVE TypeOK'
  BY <1>6 DEF WarpTile, Pc, File
<1>7. ASSUME NEW t \in Thread, SendCallback(t) PROVE TypeOK'
  BY <1>7 DEF SendCallback, Pc, EchoWorkerCallbackMessage
<1>8. ASSUME NEW t \in Thread, Ack(t) PROVE TypeOK'
  BY <1>8 DEF Ack, Pc
<1>9. ASSUME NEW t \in Thread, Die(t) PROVE TypeOK'
  BY <1>9 DEF Die, Requeue, Pc
<1>10. CASE UNCHANGED vars
  BY <1>10 DEF vars
<1>11. QED
  BY <1>1, <1>2, <1>3, <1>4, <1>5, <1>6, <1>7, <1>8, <1>9, <1>10 DEF Next, Consumer

THEOREM WorkerTypeCorrect == Spec => []TypeOK
<1>1. Init => TypeOK
  BY WorkerAssumption DEF Init, TypeOK, Pc, File
<1>2. QED
  BY <1>1, WorkerTypeStep, PTL DEF Spec

-----------------------------------------------------------------------------
\* An idle consumer holds nothing, a busy one's Context is the one of its message, and a
\* consumer about to acknowledge has published the callback.
ConsumerState ==
  \A t \in Thread :
    /\ pc[t] = "idle" => msg[t] = NoWorker
    /\ pc[t] # "idle" => totalWorkers[t] = TotalWorkers[msg[t]]
    /\ pc[t] = "ack" => Reported(msg[t])

WorkerInv == ConsumerState /\ CallbackTotalIsOwn /\ NoTileIsForgotten

LEMMA WorkerInvStep == TypeOK /\ WorkerInv /\ [Next]_vars => WorkerInv'
<1> SUFFICES ASSUME TypeOK, WorkerInv, [Next]_vars PROVE WorkerInv'
  OBVIOUS
<1> USE WorkerAssumption
    DEF TypeOK, WorkerInv, ConsumerState, CallbackTotalIsOwn, NoTileIsForgotten, Reported,
        Goto, consumers
<1>1. ASSUME NEW w \in Worker, Dispatch(w) \/ DispatchAgain(w) PROVE WorkerInv'
  BY <1>1 DEF Dispatch, DispatchAgain
<1>2. ASSUME NEW t \in Thread, NEW w \in Worker, ReceiveMessage(t, w) PROVE WorkerInv'
  BY <1>2 DEF ReceiveMessage, SetContext
<1>3. ASSUME NEW t \in Thread, ExistAndIsValid(t) PROVE WorkerInv'
  <2>1. /\ UNCHANGED <<dispatched, workerQ, callbacks, msg, totalWorkers>>
        /\ pc' = [pc EXCEPT ![t] = "callback"] \/ pc' = [pc EXCEPT ![t] = "create"]
        /\ pc[t] = "check"
    BY <1>3 DEF ExistAndIsValid
  <2>2. QED
    BY <2>1
<1>4. ASSUME NEW t \in Thread, InputUnreadable(t) PROVE WorkerInv'
  BY <1>4 DEF InputUnreadable, Requeue
<1>5. ASSUME NEW t \in Thread, CreateTile(t) PROVE WorkerInv'
  BY <1>5 DEF CreateTile
<1>6. ASSUME NEW t \in Thread, WarpTile(t) PROVE WorkerInv'
  BY <1>6 DEF WarpTile
<1>7. ASSUME NEW t \in Thread, SendCallback(t) PROVE WorkerInv'
  <2> DEFINE c == [workerId |-> msg[t], trackerTotalWorkers |-> totalWorkers[t]]
  <2>1. /\ UNCHANGED <<dispatched, workerQ, msg, totalWorkers>>
        /\ pc' = [pc EXCEPT ![t] = "ack"]
        /\ callbacks' = callbacks \cup {c}
        /\ msg[t] \in Worker /\ totalWorkers[t] = TotalWorkers[msg[t]]
    BY <1>7 DEF SendCallback
  <2>2. c \in callbacks' /\ c.workerId = msg[t] /\ c.trackerTotalWorkers = TotalWorkers[msg[t]]
    BY <2>1
  <2>3. CallbackTotalIsOwn'
    BY <2>1, <2>2
  <2>4. \A w \in Worker : Reported(w) => Reported(w)'
    BY <2>1
  <2>5. Reported(msg[t])'
    BY <2>1, <2>2
  <2> HIDE DEF c, Reported
  <2>6. ConsumerState' /\ NoTileIsForgotten'
    BY <2>1, <2>4, <2>5
  <2>7. QED
    BY <2>3, <2>6
<1>8. ASSUME NEW t \in Thread, Ack(t) PROVE WorkerInv'
  BY <1>8 DEF Ack
<1>9. ASSUME NEW t \in Thread, Die(t) PROVE WorkerInv'
  BY <1>9 DEF Die, Requeue
<1>10. CASE UNCHANGED vars
  BY <1>10 DEF vars
<1>11. QED
  BY <1>1, <1>2, <1>3, <1>4, <1>5, <1>6, <1>7, <1>8, <1>9, <1>10 DEF Next, Consumer

LEMMA WorkerInvariance == Spec => [](TypeOK /\ WorkerInv)
<1>1. Init => WorkerInv
  BY DEF Init, WorkerInv, ConsumerState, CallbackTotalIsOwn, NoTileIsForgotten
<1>2. QED
  BY <1>1, WorkerInvStep, WorkerTypeCorrect, PTL DEF Spec

\* A dispatched tile is never lost, however many consumers die.
THEOREM DispatchedTilesAreKept == Spec => []NoTileIsForgotten
  BY WorkerInvariance, PTL DEF WorkerInv

\* The ThreadLocal Context never mixes up the sizes of two processings.
THEOREM ContextIsNotShared == Spec => []CallbackTotalIsOwn
  BY WorkerInvariance, PTL DEF WorkerInv

-----------------------------------------------------------------------------
\* With one consumer the file it creates or writes is not a complete one.
WritesIncomplete ==
  \A t \in Thread : pc[t] \in {"create", "warp"} => file[msg[t]] # "complete"

\* One consumer: a complete tile is opened, found valid and left alone.
THEOREM OneConsumerKeepsCompleteTiles ==
  ASSUME NEW t, Thread = {t}
  PROVE  Spec => CompleteTileIsKept
<1> DEFINE Kept == \A w \in Worker : file[w] = "complete" => file'[w] = "complete"
<1>1. Init => WritesIncomplete
  BY DEF Init, WritesIncomplete
<1>2. TypeOK /\ WritesIncomplete /\ [Next]_vars => WritesIncomplete' /\ Kept
  <2> SUFFICES ASSUME TypeOK, WritesIncomplete, [Next]_vars PROVE WritesIncomplete' /\ Kept
    OBVIOUS
  <2> USE DEF TypeOK, WritesIncomplete, Goto, consumers
  <2>1. CASE ExistAndIsValid(t)
    BY <2>1 DEF ExistAndIsValid, DoesNotOpen
  <2>2. CASE CreateTile(t)
    BY <2>2 DEF CreateTile
  <2>3. CASE WarpTile(t)
    BY <2>3 DEF WarpTile
  <2>4. CASE UNCHANGED file /\ pc'[t] \notin {"create", "warp"}
    BY <2>4
  <2>5. CASE UNCHANGED <<file, pc, msg>>
    BY <2>5
  <2>6. CASE InputUnreadable(t) \/ SendCallback(t) \/ Ack(t) \/ Die(t)
    BY <2>4, <2>6 DEF InputUnreadable, SendCallback, Ack, Die, Requeue
  <2>7. ASSUME NEW w \in Worker, ReceiveMessage(t, w) PROVE WritesIncomplete' /\ Kept
    BY <2>4, <2>7 DEF ReceiveMessage, SetContext
  <2>8. QED
    BY <2>1, <2>2, <2>3, <2>5, <2>6, <2>7
       DEF Next, Consumer, vars, Dispatch, DispatchAgain
<1>3. QED
  BY <1>1, <1>2, WorkerTypeCorrect, PTL DEF Spec, CompleteTileIsKept

=============================================================================
