-------------------------- MODULE EchoMergerProofs --------------------------
(***************************************************************************)
(* Proofs about EchoMerger, for any tiles, consumers and faults.           *)
(***************************************************************************)
EXTENDS EchoMerger, TLAPS

\* What the steps need to know of a merge message: its list is never empty.
LEMMA MessageParts ==
  ASSUME NEW m \in EchoMergeMessage
  PROVE  m.processingId \in Processing /\ m.tileURLs \in SUBSET Worker /\ m.tileURLs # {}
  BY DEF EchoMergeMessage

\* Every step of the consumers and of the orchestrator keeps the types.
LEMMA MergerTypeStep == TypeOK /\ [Next]_vars => TypeOK'
<1> SUFFICES ASSUME TypeOK, [Next]_vars PROVE TypeOK'
  OBVIOUS
<1> USE MergerAssumption, MessageParts DEF TypeOK, Goto, consumers
<1>1. ASSUME NEW m \in EchoMergeMessage, SendMerge(m) \/ SendMergeAgain(m) PROVE TypeOK'
  BY <1>1 DEF SendMerge, SendMergeAgain, Publish
<1>2. ASSUME NEW t \in Thread, NEW m \in EchoMergeMessage, ReceiveMessage(t, m) PROVE TypeOK'
  BY <1>2 DEF ReceiveMessage, Pc
<1>3. ASSUME NEW t \in Thread, ExistAndIsValid(t) PROVE TypeOK'
  BY <1>3 DEF ExistAndIsValid, Pc
<1>4. ASSUME NEW t \in Thread, CreateVRT(t) PROVE TypeOK'
  BY <1>4 DEF CreateVRT, Pc
<1>5. ASSUME NEW t \in Thread, CreateVRTFails(t) PROVE TypeOK'
  BY <1>5 DEF CreateVRTFails, Requeue, Pc
<1>6. ASSUME NEW t \in Thread, SendCallback(t) PROVE TypeOK'
  BY <1>6 DEF SendCallback, Pc
<1>7. ASSUME NEW t \in Thread, Ack(t) PROVE TypeOK'
  BY <1>7 DEF Ack, Pc
<1>8. ASSUME NEW t \in Thread, Die(t) PROVE TypeOK'
  BY <1>8 DEF Die, Requeue, Pc
<1>9. CASE UNCHANGED vars
  BY <1>9 DEF vars
<1>10. QED
  BY <1>1, <1>2, <1>3, <1>4, <1>5, <1>6, <1>7, <1>8, <1>9 DEF Next, Consumer, Wait

\* The types of the merger's variables are right in every state.
THEOREM MergerTypeCorrect == Spec => []TypeOK
<1>1. Init => TypeOK
  BY MergerAssumption DEF Init, TypeOK, Pc
<1>2. QED
  BY <1>1, MergerTypeStep, PTL DEF Spec

-----------------------------------------------------------------------------
\* A busy consumer holds a published message; past the test its result exists, past the
\* callback its processing is reported.
MergeConsumers ==
  \A t \in Thread :
    /\ pc[t] = "idle" => msg[t] = NoMessage
    /\ pc[t] # "idle" => msg[t] \in published
    /\ pc[t] \in {"callback", "ack"} => result[msg[t].processingId] # {}
    /\ pc[t] = "ack" => msg[t].processingId \in reported

\* A result is built from the list of one published message, and reported after that.
ResultsHaveMessages ==
  /\ \A m \in EchoMergeMessage : mergeQ[m] > 0 => m \in published
  /\ \A p \in Processing : result[p] # {} =>
       \E m \in published : m.processingId = p /\ m.tileURLs = result[p]
  /\ \A p \in reported : result[p] # {}

MergerInv == MergeConsumers /\ ResultsHaveMessages /\ NoMergeIsForgotten

LEMMA MergerInvStep == TypeOK /\ MergerInv /\ [Next]_vars => MergerInv'
<1> SUFFICES ASSUME TypeOK, MergerInv, [Next]_vars PROVE MergerInv'
  OBVIOUS
<1> USE MergerAssumption, MessageParts
    DEF TypeOK, MergerInv, MergeConsumers, ResultsHaveMessages, NoMergeIsForgotten, Goto,
        consumers
<1>1. ASSUME NEW m \in EchoMergeMessage, SendMerge(m) \/ SendMergeAgain(m) PROVE MergerInv'
  BY <1>1 DEF SendMerge, SendMergeAgain, Publish
<1>2. ASSUME NEW t \in Thread, NEW m \in EchoMergeMessage, ReceiveMessage(t, m)
      PROVE  MergerInv'
  BY <1>2 DEF ReceiveMessage
<1>3. ASSUME NEW t \in Thread, ExistAndIsValid(t) PROVE MergerInv'
  BY <1>3 DEF ExistAndIsValid
<1>4. ASSUME NEW t \in Thread, CreateVRT(t) PROVE MergerInv'
  BY <1>4 DEF CreateVRT
<1>5. ASSUME NEW t \in Thread, CreateVRTFails(t) PROVE MergerInv'
  BY <1>5 DEF CreateVRTFails, Requeue
<1>6. ASSUME NEW t \in Thread, SendCallback(t) PROVE MergerInv'
  BY <1>6 DEF SendCallback
<1>7. ASSUME NEW t \in Thread, Ack(t) PROVE MergerInv'
  BY <1>7 DEF Ack
<1>8. ASSUME NEW t \in Thread, Die(t) PROVE MergerInv'
  BY <1>8 DEF Die, Requeue
<1>9. CASE UNCHANGED vars
  BY <1>9 DEF vars
<1>10. QED
  BY <1>1, <1>2, <1>3, <1>4, <1>5, <1>6, <1>7, <1>8, <1>9 DEF Next, Consumer, Wait

LEMMA MergerInvariance == Spec => [](TypeOK /\ MergerInv)
<1>1. Init => MergerInv
  BY DEF Init, MergerInv, MergeConsumers, ResultsHaveMessages, NoMergeIsForgotten
<1>2. QED
  BY <1>1, MergerInvStep, MergerTypeCorrect, PTL DEF Spec

\* A merge message is never lost, however many consumers die.
THEOREM MergesAreKept == Spec => []NoMergeIsForgotten
  BY MergerInvariance, PTL DEF MergerInv

\* A reported processing has its file, made of all tiles if the lists were whole, for any
\* number of consumers.
THEOREM ReportsHaveResults == Spec => []ReportedResult
<1>1. TypeOK /\ MergerInv => ReportedResult
  BY DEF TypeOK, MergerInv, ResultsHaveMessages, ReportedResult, Whole
<1>2. QED
  BY <1>1, MergerInvariance, PTL

-----------------------------------------------------------------------------
\* With one consumer nothing is built where a result exists.
BuildsOnce == \A t \in Thread : pc[t] = "build" => result[msg[t].processingId] = {}

\* One consumer: a result is not touched again, whatever later messages list.
THEOREM OneConsumerKeepsResults ==
  ASSUME NEW t, Thread = {t}
  PROVE  Spec => ResultIsKept
<1> DEFINE Kept == \A p \in Processing : result[p] # {} => result'[p] = result[p]
<1>1. Init => BuildsOnce
  BY DEF Init, BuildsOnce
<1>2. TypeOK /\ BuildsOnce /\ [Next]_vars => BuildsOnce' /\ Kept
  <2> SUFFICES ASSUME TypeOK, BuildsOnce, [Next]_vars PROVE BuildsOnce' /\ Kept
    OBVIOUS
  <2> USE DEF TypeOK, BuildsOnce, Goto, consumers
  <2>1. CASE ExistAndIsValid(t)
    BY <2>1 DEF ExistAndIsValid
  <2>2. CASE CreateVRT(t)
    BY <2>2, MessageParts DEF CreateVRT
  <2>3. CASE UNCHANGED result /\ pc'[t] # "build"
    BY <2>3
  <2>4. CASE UNCHANGED <<result, pc, msg>>
    BY <2>4
  <2>5. CASE CreateVRTFails(t) \/ SendCallback(t) \/ Ack(t) \/ Die(t)
    BY <2>3, <2>5 DEF CreateVRTFails, SendCallback, Ack, Die, Requeue
  <2>6. ASSUME NEW m \in EchoMergeMessage, ReceiveMessage(t, m) PROVE BuildsOnce' /\ Kept
    BY <2>3, <2>6 DEF ReceiveMessage
  <2>7. QED
    BY <2>1, <2>2, <2>4, <2>5, <2>6
       DEF Next, Consumer, Wait, vars, SendMerge, SendMergeAgain, Publish
<1>3. QED
  BY <1>1, <1>2, MergerTypeCorrect, PTL DEF Spec, ResultIsKept

=============================================================================
