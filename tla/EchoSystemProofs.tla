-------------------------- MODULE EchoSystemProofs --------------------------
(***************************************************************************)
(* Proofs about the services together, for any set of processings, any     *)
(* grids, any number of consumers and any number of faults.                *)
(*                                                                         *)
(* First the orchestrator alone, the part the others depend on; then every *)
(* service is shown to keep its own specification in the system, so that   *)
(* what is proved of it in its own module holds here too; then what the    *)
(* services say of each other, and that together they implement            *)
(* ImageProcessing.                                                        *)
(***************************************************************************)
EXTENDS EchoSystem, FiniteSetTheorems, TLAPS

-----------------------------------------------------------------------------
(* The orchestrator. *)

\* Every step of the consumers, the environment and the faults keeps the types.
LEMMA TypeStep == TypeOK /\ [Next]_vars => TypeOK'
<1> SUFFICES ASSUME TypeOK, [Next]_vars PROVE TypeOK'
  OBVIOUS
<1> USE ConstantsAssumption DEF TypeOK
<1>1. ASSUME NEW p \in Processing, StartEchoProcessing(p) PROVE TypeOK'
  BY <1>1 DEF StartEchoProcessing, rows, starter, callers
<1>2. ASSUME NEW w \in Worker, WorkerReplies(w) PROVE TypeOK'
  BY <1>2 DEF WorkerReplies, rows, starter, callers
<1>3. ASSUME NEW w \in Worker, WorkerRepliesTwice(w) PROVE TypeOK'
  BY <1>3 DEF WorkerRepliesTwice, rows, starter, callers
<1>4. ASSUME NEW p \in Processing, ReceiveStartMessage(p) PROVE TypeOK'
  BY <1>4 DEF ReceiveStartMessage, rows, callers, StartPc
<1>5. CASE CreateOrchestrator
  BY <1>5 DEF CreateOrchestrator, queues, callers, StartPc
<1>6. CASE SplitEmptyGrid
  BY <1>6 DEF SplitEmptyGrid, rows, callers, StartPc
<1>7. CASE CreateWorkers
  BY <1>7 DEF CreateWorkers, queues, callers, StartPc, State, WorkersOf, FindByProcessingId
<1>8. ASSUME NEW w \in Worker, StartEchoWorker(w) PROVE TypeOK'
  BY <1>8 DEF StartEchoWorker, rows, callers, StartPc
<1>9. CASE CommitStartedWorker
  BY <1>9 DEF CommitStartedWorker, queues, callers, StartPc, State
<1>10. CASE AckStartMessage
  BY <1>10 DEF AckStartMessage, queues, rows, callers, StartPc
<1>11. ASSUME NEW t \in Thread, NEW w \in Worker, FindByWorkerId(t, w) PROVE TypeOK'
  BY <1>11 DEF FindByWorkerId, rows, starter, CallbackPc
<1>12. ASSUME NEW t \in Thread, CheckStates(t) PROVE TypeOK'
  BY <1>12 DEF CheckStates, queues, rows, starter, CallbackPc
<1>13. ASSUME NEW t \in Thread, SendMerge(t) PROVE TypeOK'
  <2> DEFINE msg == [processingId |-> ProcOf[cbMsg[t]],
                     tileURLs |-> {w \in FindByProcessingId(ProcOf[cbMsg[t]]) :
                                     w \in tileURL \/ w = cbMsg[t]}]
  <2>1. msg \in EchoMergeMessage
    BY <1>13 DEF SendMerge, EchoMergeMessage, FindByProcessingId, WorkersOf
  <2>2. mergeQ' = Append(mergeQ, msg)
    BY <1>13 DEF SendMerge
  <2>3. mergeQ' \in Seq(EchoMergeMessage)
    BY <2>1, <2>2
  <2>4. QED
    BY <1>13, <2>3 DEF SendMerge, rows, starter, CallbackPc
<1>14. ASSUME NEW t \in Thread, CommitCallback(t) PROVE TypeOK'
  <2>1. cbMsg[t] \in Worker
    BY <1>14 DEF CommitCallback
  <2>2. /\ state' \in [Worker -> State \cup {"ABSENT"}]
        /\ tileURL' \subseteq Worker
    BY <1>14, <2>1 DEF CommitCallback, State
  <2>3. /\ dirty' \subseteq Thread
        /\ cbPc' \in [Thread -> CallbackPc]
        /\ \A u \in Thread : cbPc'[u] # "idle" => cbMsg'[u] \in Worker
    BY <1>14, <2>1 DEF CommitCallback, CallbackPc
  <2>4. UNCHANGED <<requested, queues, tiles, orchestrators, starter, cbMsg, faults>>
    BY <1>14 DEF CommitCallback
  <2>5. QED
    BY <2>2, <2>3, <2>4 DEF queues, starter
<1>15. ASSUME NEW t \in Thread, AckCallbackMessage(t) PROVE TypeOK'
  BY <1>15 DEF AckCallbackMessage, queues, rows, starter, CallbackPc
<1>16. CASE StartFails
  BY <1>16 DEF StartFails, rows, callers, StartPc
<1>17. ASSUME NEW t \in Thread, CallbackFails(t) PROVE TypeOK'
  BY <1>17 DEF CallbackFails, rows, starter, CallbackPc
<1>18. CASE UNCHANGED vars
  BY <1>18 DEF vars, queues, rows, starter, callers
<1>19. QED
  BY <1>1, <1>2, <1>3, <1>4, <1>5, <1>6, <1>7, <1>8, <1>9, <1>10, <1>11, <1>12,
     <1>13, <1>14, <1>15, <1>16, <1>17, <1>18
     DEF Next, StartConsumer, CallbackConsumer

\* The program's variables keep their types in every behaviour of the service.
THEOREM TypeCorrect == Spec => []TypeOK
<1>1. Init => TypeOK
  BY ConstantsAssumption DEF Init, TypeOK, StartPc, CallbackPc
<1>2. QED
  BY <1>1, TypeStep, PTL DEF Spec

-----------------------------------------------------------------------------
(* The inductive invariant, one lemma per part. *)

\* Messages and handlers never outrun the rows they need.
LEMMA WorkHasRowsStep ==
  TypeOK /\ WorkHasRows /\ [Next]_vars => WorkHasRows'
<1> SUFFICES ASSUME TypeOK, WorkHasRows, [Next]_vars PROVE WorkHasRows'
  OBVIOUS
<1> USE ConstantsAssumption DEF TypeOK, WorkHasRows, CallbackFindsItsRows
<1>1. ASSUME NEW p \in Processing, StartEchoProcessing(p) PROVE WorkHasRows'
  BY <1>1 DEF StartEchoProcessing, rows, starter, callers
<1>2. ASSUME NEW w \in Worker, WorkerReplies(w) PROVE WorkHasRows'
  BY <1>2 DEF WorkerReplies, rows, starter, callers
<1>3. ASSUME NEW w \in Worker, WorkerRepliesTwice(w) PROVE WorkHasRows'
  BY <1>3 DEF WorkerRepliesTwice, rows, starter, callers
<1>4. ASSUME NEW p \in Processing, ReceiveStartMessage(p) PROVE WorkHasRows'
  BY <1>4 DEF ReceiveStartMessage, rows, callers
<1>5. CASE CreateOrchestrator
  BY <1>5 DEF CreateOrchestrator, queues, callers
<1>6. CASE SplitEmptyGrid
  BY <1>6 DEF SplitEmptyGrid, rows, callers
<1>7. CASE CreateWorkers
  BY <1>7 DEF CreateWorkers, queues, callers,
              State, WorkersOf, ExistsByProcessingId, FindByProcessingId
<1>8. ASSUME NEW w \in Worker, StartEchoWorker(w) PROVE WorkHasRows'
  BY <1>8 DEF StartEchoWorker, rows, callers
<1>9. CASE CommitStartedWorker
  BY <1>9 DEF CommitStartedWorker, queues, callers
<1>10. CASE AckStartMessage
  BY <1>10 DEF AckStartMessage, queues, rows, callers
<1>11. ASSUME NEW t \in Thread, NEW w \in Worker, FindByWorkerId(t, w) PROVE WorkHasRows'
  BY <1>11 DEF FindByWorkerId, rows, starter
<1>12. ASSUME NEW t \in Thread, CheckStates(t) PROVE WorkHasRows'
  BY <1>12 DEF CheckStates, queues, rows, starter
<1>13. ASSUME NEW t \in Thread, SendMerge(t) PROVE WorkHasRows'
  BY <1>13 DEF SendMerge, rows, starter
<1>14. ASSUME NEW t \in Thread, CommitCallback(t) PROVE WorkHasRows'
  <2>1. cbMsg[t] \in Worker /\ state[cbMsg[t]] # "ABSENT"
    BY <1>14 DEF CommitCallback
  <2>2. \A w \in Worker : state'[w] = "ABSENT" <=> state[w] = "ABSENT"
    BY <1>14, <2>1 DEF CommitCallback
  <2>3. UNCHANGED <<requested, queues, orchestrators, starter, cbMsg>>
    BY <1>14 DEF CommitCallback
  <2>4. QED
    BY <2>2, <2>3 DEF queues, starter
<1>15. ASSUME NEW t \in Thread, AckCallbackMessage(t) PROVE WorkHasRows'
  BY <1>15 DEF AckCallbackMessage, queues, rows, starter
<1>16. CASE StartFails
  BY <1>16 DEF StartFails, rows, callers
<1>17. ASSUME NEW t \in Thread, CallbackFails(t) PROVE WorkHasRows'
  BY <1>17 DEF CallbackFails, rows, starter
<1>18. CASE UNCHANGED vars
  BY <1>18 DEF vars, queues, rows, starter, callers
<1>19. QED
  BY <1>1, <1>2, <1>3, <1>4, <1>5, <1>6, <1>7, <1>8, <1>9, <1>10, <1>11, <1>12,
     <1>13, <1>14, <1>15, <1>16, <1>17, <1>18
     DEF Next, StartConsumer, CallbackConsumer

\* The distinct query returns the state of every row it ranges over.
LEMMA SeenByQuery ==
  ASSUME NEW t, NEW p, NEW w \in FindByProcessingId(p)
  PROVE  StateSeenBy(t, w) \in FindDistinctState(t, p)
  BY DEF FindDistinctState

\* A thread reaches the merge only when every row of the processing stands for a tile:
\* all rows exist, and each is DONE in the database or is the thread's own.
LEMMA CallbacksHaveTilesStep ==
  TypeOK /\ WorkHasRows /\ DoneHasTile /\ CallbacksHaveTiles /\ [Next]_vars
    => CallbacksHaveTiles'
<1> SUFFICES ASSUME TypeOK, WorkHasRows, DoneHasTile, CallbacksHaveTiles, [Next]_vars
    PROVE  CallbacksHaveTiles'
  OBVIOUS
<1> USE ConstantsAssumption DEF TypeOK, DoneHasTile, CallbacksHaveTiles, WorkHasRows, WorkersOf
<1>1. ASSUME NEW p \in Processing, StartEchoProcessing(p) PROVE CallbacksHaveTiles'
  BY <1>1 DEF StartEchoProcessing, rows, starter, callers
<1>2. ASSUME NEW w \in Worker, WorkerReplies(w) PROVE CallbacksHaveTiles'
  BY <1>2 DEF WorkerReplies, rows, starter, callers
<1>3. ASSUME NEW w \in Worker, WorkerRepliesTwice(w) PROVE CallbacksHaveTiles'
  BY <1>3 DEF WorkerRepliesTwice, rows, starter, callers
<1>4. ASSUME NEW p \in Processing, ReceiveStartMessage(p) PROVE CallbacksHaveTiles'
  BY <1>4 DEF ReceiveStartMessage, rows, callers
<1>5. CASE CreateOrchestrator
  BY <1>5 DEF CreateOrchestrator, queues, callers
<1>6. CASE SplitEmptyGrid
  BY <1>6 DEF SplitEmptyGrid, rows, callers
<1>7. CASE CreateWorkers
  BY <1>7 DEF CreateWorkers, queues, callers
<1>8. ASSUME NEW w \in Worker, StartEchoWorker(w) PROVE CallbacksHaveTiles'
  BY <1>8 DEF StartEchoWorker, rows, callers
<1>9. CASE CommitStartedWorker
  BY <1>9 DEF CommitStartedWorker, queues, callers
<1>10. CASE AckStartMessage
  BY <1>10 DEF AckStartMessage, queues, rows, callers
<1>11. ASSUME NEW t \in Thread, NEW w \in Worker, FindByWorkerId(t, w)
       PROVE  CallbacksHaveTiles'
  BY <1>11 DEF FindByWorkerId, rows, starter
<1>12. ASSUME NEW t \in Thread, CheckStates(t) PROVE CallbacksHaveTiles'
  <2> DEFINE p == ProcOf[cbMsg[t]]
  <2>1. cbMsg[t] \in Worker /\ state[cbMsg[t]] # "ABSENT"
    BY <1>12 DEF CheckStates, CallbackFindsItsRows
  <2>2. ASSUME FindDistinctState(t, p) = {"DONE"}, NEW w \in WorkersOf(p)
        PROVE  w \in tiles
    <3>1. w \in FindByProcessingId(p)
      BY <2>1 DEF FindByProcessingId
    <3>2. StateSeenBy(t, w) = "DONE"
      BY <2>2, <3>1, SeenByQuery
    <3>3. CASE t \in dirty /\ w = cbMsg[t]
      BY <1>12, <3>3 DEF CheckStates
    <3>4. CASE state[w] = "DONE"
      BY <3>4
    <3>5. QED
      BY <3>2, <3>3, <3>4 DEF StateSeenBy
  <2>3. cbPc'[t] = "merge" => WorkersOf(p) \subseteq tiles
    BY <1>12, <2>2 DEF CheckStates
  <2>4. QED
    BY <1>12, <2>1, <2>3 DEF CheckStates, queues, rows, starter
<1>13. ASSUME NEW t \in Thread, SendMerge(t) PROVE CallbacksHaveTiles'
  BY <1>13 DEF SendMerge, rows, starter
<1>14. ASSUME NEW t \in Thread, CommitCallback(t) PROVE CallbacksHaveTiles'
  BY <1>14 DEF CommitCallback, queues, starter
<1>15. ASSUME NEW t \in Thread, AckCallbackMessage(t) PROVE CallbacksHaveTiles'
  BY <1>15 DEF AckCallbackMessage, queues, rows, starter
<1>16. CASE StartFails
  BY <1>16 DEF StartFails, rows, callers
<1>17. ASSUME NEW t \in Thread, CallbackFails(t) PROVE CallbacksHaveTiles'
  BY <1>17 DEF CallbackFails, rows, starter
<1>18. CASE UNCHANGED vars
  BY <1>18 DEF vars, queues, rows, starter, callers
<1>19. QED
  BY <1>1, <1>2, <1>3, <1>4, <1>5, <1>6, <1>7, <1>8, <1>9, <1>10, <1>11, <1>12,
     <1>13, <1>14, <1>15, <1>16, <1>17, <1>18
     DEF Next, StartConsumer, CallbackConsumer

\* The full-row writes keep state and tile URL together.
LEMMA DoneHasTileStep ==
  TypeOK /\ CallbacksHaveTiles /\ DoneHasTile /\ [Next]_vars => DoneHasTile'
<1> SUFFICES ASSUME TypeOK, CallbacksHaveTiles, DoneHasTile, [Next]_vars PROVE DoneHasTile'
  OBVIOUS
<1> USE ConstantsAssumption DEF TypeOK, DoneHasTile, CallbacksHaveTiles
<1>1. ASSUME NEW p \in Processing, StartEchoProcessing(p) PROVE DoneHasTile'
  BY <1>1 DEF StartEchoProcessing, rows, starter, callers
<1>2. ASSUME NEW w \in Worker, WorkerReplies(w) PROVE DoneHasTile'
  BY <1>2 DEF WorkerReplies, rows, starter, callers
<1>3. ASSUME NEW w \in Worker, WorkerRepliesTwice(w) PROVE DoneHasTile'
  BY <1>3 DEF WorkerRepliesTwice, rows, starter, callers
<1>4. ASSUME NEW p \in Processing, ReceiveStartMessage(p) PROVE DoneHasTile'
  BY <1>4 DEF ReceiveStartMessage, rows, callers
<1>5. CASE CreateOrchestrator
  BY <1>5 DEF CreateOrchestrator, queues, callers
<1>6. CASE SplitEmptyGrid
  BY <1>6 DEF SplitEmptyGrid, rows, callers
<1>7. CASE CreateWorkers
  BY <1>7 DEF CreateWorkers, queues, callers,
              State, WorkersOf, ExistsByProcessingId, FindByProcessingId
<1>8. ASSUME NEW w \in Worker, StartEchoWorker(w) PROVE DoneHasTile'
  BY <1>8 DEF StartEchoWorker, rows, callers
<1>9. CASE CommitStartedWorker
  BY <1>9 DEF CommitStartedWorker, queues, callers
<1>10. CASE AckStartMessage
  BY <1>10 DEF AckStartMessage, queues, rows, callers
<1>11. ASSUME NEW t \in Thread, NEW w \in Worker, FindByWorkerId(t, w) PROVE DoneHasTile'
  BY <1>11 DEF FindByWorkerId, rows, starter
<1>12. ASSUME NEW t \in Thread, CheckStates(t) PROVE DoneHasTile'
  BY <1>12 DEF CheckStates, queues, rows, starter
<1>13. ASSUME NEW t \in Thread, SendMerge(t) PROVE DoneHasTile'
  BY <1>13 DEF SendMerge, rows, starter
<1>14. ASSUME NEW t \in Thread, CommitCallback(t) PROVE DoneHasTile'
  BY <1>14 DEF CommitCallback, queues, starter
<1>15. ASSUME NEW t \in Thread, AckCallbackMessage(t) PROVE DoneHasTile'
  BY <1>15 DEF AckCallbackMessage, queues, rows, starter
<1>16. CASE StartFails
  BY <1>16 DEF StartFails, rows, callers
<1>17. ASSUME NEW t \in Thread, CallbackFails(t) PROVE DoneHasTile'
  BY <1>17 DEF CallbackFails, rows, starter
<1>18. CASE UNCHANGED vars
  BY <1>18 DEF vars, queues, rows, starter, callers
<1>19. QED
  BY <1>1, <1>2, <1>3, <1>4, <1>5, <1>6, <1>7, <1>8, <1>9, <1>10, <1>11, <1>12,
     <1>13, <1>14, <1>15, <1>16, <1>17, <1>18
     DEF Next, StartConsumer, CallbackConsumer

\* Only SendMerge adds a merge, and it has seen all tiles; tiles never go away.
LEMMA MergeBarrierStep ==
  TypeOK /\ CallbacksHaveTiles /\ MergeBarrier /\ [Next]_vars => MergeBarrier'
<1> SUFFICES ASSUME TypeOK, CallbacksHaveTiles, MergeBarrier, [Next]_vars
    PROVE  MergeBarrier'
  OBVIOUS
<1> USE ConstantsAssumption DEF TypeOK, CallbacksHaveTiles, MergeBarrier, WorkersOf
<1>1. ASSUME NEW p \in Processing, StartEchoProcessing(p) PROVE MergeBarrier'
  BY <1>1 DEF StartEchoProcessing, rows, starter, callers
<1>2. ASSUME NEW w \in Worker, WorkerReplies(w) PROVE MergeBarrier'
  BY <1>2 DEF WorkerReplies, rows, starter, callers
<1>3. ASSUME NEW w \in Worker, WorkerRepliesTwice(w) PROVE MergeBarrier'
  BY <1>3 DEF WorkerRepliesTwice, rows, starter, callers
<1>4. ASSUME NEW p \in Processing, ReceiveStartMessage(p) PROVE MergeBarrier'
  BY <1>4 DEF ReceiveStartMessage, rows, callers
<1>5. CASE CreateOrchestrator
  BY <1>5 DEF CreateOrchestrator, queues, callers
<1>6. CASE SplitEmptyGrid
  BY <1>6 DEF SplitEmptyGrid, rows, callers
<1>7. CASE CreateWorkers
  BY <1>7 DEF CreateWorkers, queues, callers
<1>8. ASSUME NEW w \in Worker, StartEchoWorker(w) PROVE MergeBarrier'
  BY <1>8 DEF StartEchoWorker, rows, callers
<1>9. CASE CommitStartedWorker
  BY <1>9 DEF CommitStartedWorker, queues, callers
<1>10. CASE AckStartMessage
  BY <1>10 DEF AckStartMessage, queues, rows, callers
<1>11. ASSUME NEW t \in Thread, NEW w \in Worker, FindByWorkerId(t, w) PROVE MergeBarrier'
  BY <1>11 DEF FindByWorkerId, rows, starter
<1>12. ASSUME NEW t \in Thread, CheckStates(t) PROVE MergeBarrier'
  BY <1>12 DEF CheckStates, queues, rows, starter
<1>13. ASSUME NEW t \in Thread, SendMerge(t) PROVE MergeBarrier'
  BY <1>13 DEF SendMerge, rows, starter
<1>14. ASSUME NEW t \in Thread, CommitCallback(t) PROVE MergeBarrier'
  BY <1>14 DEF CommitCallback, queues, starter
<1>15. ASSUME NEW t \in Thread, AckCallbackMessage(t) PROVE MergeBarrier'
  BY <1>15 DEF AckCallbackMessage, queues, rows, starter
<1>16. CASE StartFails
  BY <1>16 DEF StartFails, rows, callers
<1>17. ASSUME NEW t \in Thread, CallbackFails(t) PROVE MergeBarrier'
  BY <1>17 DEF CallbackFails, rows, starter
<1>18. CASE UNCHANGED vars
  BY <1>18 DEF vars, queues, rows, starter, callers
<1>19. QED
  BY <1>1, <1>2, <1>3, <1>4, <1>5, <1>6, <1>7, <1>8, <1>9, <1>10, <1>11, <1>12,
     <1>13, <1>14, <1>15, <1>16, <1>17, <1>18
     DEF Next, StartConsumer, CallbackConsumer

\* The start consumer's list covers the INIT rows of its processing.
LEMMA StartProgressStep ==
  TypeOK /\ WorkHasRows /\ CallbacksHaveTiles /\ StartProgress /\ [Next]_vars
    => StartProgress'
<1> SUFFICES ASSUME TypeOK, WorkHasRows, CallbacksHaveTiles, StartProgress, [Next]_vars
    PROVE  StartProgress'
  OBVIOUS
<1> USE ConstantsAssumption DEF TypeOK, StartProgress, CallbacksHaveTiles, WorkHasRows, WorkersOf
<1>1. ASSUME NEW p \in Processing, StartEchoProcessing(p) PROVE StartProgress'
  BY <1>1 DEF StartEchoProcessing, rows, starter, callers
<1>2. ASSUME NEW w \in Worker, WorkerReplies(w) PROVE StartProgress'
  BY <1>2 DEF WorkerReplies, rows, starter, callers
<1>3. ASSUME NEW w \in Worker, WorkerRepliesTwice(w) PROVE StartProgress'
  BY <1>3 DEF WorkerRepliesTwice, rows, starter, callers
<1>4. ASSUME NEW p \in Processing, ReceiveStartMessage(p) PROVE StartProgress'
  BY <1>4 DEF ReceiveStartMessage, rows, callers
<1>5. CASE CreateOrchestrator
  BY <1>5 DEF CreateOrchestrator, queues, callers
<1>6. CASE SplitEmptyGrid
  BY <1>6 DEF SplitEmptyGrid, rows, callers
<1>7. CASE CreateWorkers
  BY <1>7 DEF CreateWorkers, queues, callers,
              State, ExistsByProcessingId, FindByProcessingId
<1>8. ASSUME NEW w \in Worker, StartEchoWorker(w) PROVE StartProgress'
  BY <1>8 DEF StartEchoWorker, rows, callers
<1>9. CASE CommitStartedWorker
  BY <1>9 DEF CommitStartedWorker, queues, callers
<1>10. CASE AckStartMessage
  BY <1>10 DEF AckStartMessage, queues, rows, callers
<1>11. ASSUME NEW t \in Thread, NEW w \in Worker, FindByWorkerId(t, w) PROVE StartProgress'
  BY <1>11 DEF FindByWorkerId, rows, starter
<1>12. ASSUME NEW t \in Thread, CheckStates(t) PROVE StartProgress'
  BY <1>12 DEF CheckStates, queues, rows, starter
<1>13. ASSUME NEW t \in Thread, SendMerge(t) PROVE StartProgress'
  BY <1>13 DEF SendMerge, rows, starter
<1>14. ASSUME NEW t \in Thread, CommitCallback(t) PROVE StartProgress'
  BY <1>14 DEF CommitCallback, queues, starter
<1>15. ASSUME NEW t \in Thread, AckCallbackMessage(t) PROVE StartProgress'
  BY <1>15 DEF AckCallbackMessage, queues, rows, starter
<1>16. CASE StartFails
  BY <1>16 DEF StartFails, rows, callers
<1>17. ASSUME NEW t \in Thread, CallbackFails(t) PROVE StartProgress'
  BY <1>17 DEF CallbackFails, rows, starter
<1>18. CASE UNCHANGED vars
  BY <1>18 DEF vars, queues, rows, starter, callers
<1>19. QED
  BY <1>1, <1>2, <1>3, <1>4, <1>5, <1>6, <1>7, <1>8, <1>9, <1>10, <1>11, <1>12,
     <1>13, <1>14, <1>15, <1>16, <1>17, <1>18
     DEF Next, StartConsumer, CallbackConsumer

\* The start message is given up only when no INIT row is left.
LEMMA StartKeptStep ==
  TypeOK /\ WorkHasRows /\ CallbacksHaveTiles /\ StartProgress
    /\ StartKeptUntilDispatched /\ [Next]_vars
    => StartKeptUntilDispatched'
<1> SUFFICES ASSUME TypeOK, WorkHasRows, CallbacksHaveTiles, StartProgress,
           StartKeptUntilDispatched, [Next]_vars
    PROVE  StartKeptUntilDispatched'
  OBVIOUS
<1> USE ConstantsAssumption DEF TypeOK, StartKeptUntilDispatched, StartProgress, CallbacksHaveTiles,
        WorkHasRows, WorkersOf
<1>1. ASSUME NEW p \in Processing, StartEchoProcessing(p) PROVE StartKeptUntilDispatched'
  BY <1>1 DEF StartEchoProcessing, rows, starter, callers
<1>2. ASSUME NEW w \in Worker, WorkerReplies(w) PROVE StartKeptUntilDispatched'
  BY <1>2 DEF WorkerReplies, rows, starter, callers
<1>3. ASSUME NEW w \in Worker, WorkerRepliesTwice(w) PROVE StartKeptUntilDispatched'
  BY <1>3 DEF WorkerRepliesTwice, rows, starter, callers
<1>4. ASSUME NEW p \in Processing, ReceiveStartMessage(p) PROVE StartKeptUntilDispatched'
  BY <1>4 DEF ReceiveStartMessage, rows, callers
<1>5. CASE CreateOrchestrator
  BY <1>5 DEF CreateOrchestrator, queues, callers
<1>6. CASE SplitEmptyGrid
  BY <1>6 DEF SplitEmptyGrid, rows, callers
<1>7. CASE CreateWorkers
  BY <1>7 DEF CreateWorkers, queues, callers
<1>8. ASSUME NEW w \in Worker, StartEchoWorker(w) PROVE StartKeptUntilDispatched'
  BY <1>8 DEF StartEchoWorker, rows, callers
<1>9. CASE CommitStartedWorker
  BY <1>9 DEF CommitStartedWorker, queues, callers
<1>10. CASE AckStartMessage
  BY <1>10 DEF AckStartMessage, queues, rows, callers
<1>11. ASSUME NEW t \in Thread, NEW w \in Worker, FindByWorkerId(t, w)
       PROVE  StartKeptUntilDispatched'
  BY <1>11 DEF FindByWorkerId, rows, starter
<1>12. ASSUME NEW t \in Thread, CheckStates(t) PROVE StartKeptUntilDispatched'
  BY <1>12 DEF CheckStates, queues, rows, starter
<1>13. ASSUME NEW t \in Thread, SendMerge(t) PROVE StartKeptUntilDispatched'
  BY <1>13 DEF SendMerge, rows, starter
<1>14. ASSUME NEW t \in Thread, CommitCallback(t) PROVE StartKeptUntilDispatched'
  BY <1>14 DEF CommitCallback, queues, starter
<1>15. ASSUME NEW t \in Thread, AckCallbackMessage(t) PROVE StartKeptUntilDispatched'
  BY <1>15 DEF AckCallbackMessage, queues, rows, starter
<1>16. CASE StartFails
  BY <1>16 DEF StartFails, rows, callers
<1>17. ASSUME NEW t \in Thread, CallbackFails(t) PROVE StartKeptUntilDispatched'
  BY <1>17 DEF CallbackFails, rows, starter
<1>18. CASE UNCHANGED vars
  BY <1>18 DEF vars, queues, rows, starter, callers
<1>19. QED
  BY <1>1, <1>2, <1>3, <1>4, <1>5, <1>6, <1>7, <1>8, <1>9, <1>10, <1>11, <1>12,
     <1>13, <1>14, <1>15, <1>16, <1>17, <1>18
     DEF Next, StartConsumer, CallbackConsumer

\* A row becomes PROCESSING only after its message went out.
LEMMA DispatchedStep ==
  TypeOK /\ CallbacksHaveTiles /\ StartProgress /\ DispatchedWorkIsNotLost /\ [Next]_vars
    => DispatchedWorkIsNotLost'
<1> SUFFICES ASSUME TypeOK, CallbacksHaveTiles, StartProgress,
           DispatchedWorkIsNotLost, [Next]_vars
    PROVE  DispatchedWorkIsNotLost'
  OBVIOUS
<1> USE ConstantsAssumption DEF TypeOK, DispatchedWorkIsNotLost, StartProgress, CallbacksHaveTiles
<1>1. ASSUME NEW p \in Processing, StartEchoProcessing(p) PROVE DispatchedWorkIsNotLost'
  BY <1>1 DEF StartEchoProcessing, rows, starter, callers
<1>2. ASSUME NEW w \in Worker, WorkerReplies(w) PROVE DispatchedWorkIsNotLost'
  BY <1>2 DEF WorkerReplies, rows, starter, callers
<1>3. ASSUME NEW w \in Worker, WorkerRepliesTwice(w) PROVE DispatchedWorkIsNotLost'
  BY <1>3 DEF WorkerRepliesTwice, rows, starter, callers
<1>4. ASSUME NEW p \in Processing, ReceiveStartMessage(p) PROVE DispatchedWorkIsNotLost'
  BY <1>4 DEF ReceiveStartMessage, rows, callers
<1>5. CASE CreateOrchestrator
  BY <1>5 DEF CreateOrchestrator, queues, callers
<1>6. CASE SplitEmptyGrid
  BY <1>6 DEF SplitEmptyGrid, rows, callers
<1>7. CASE CreateWorkers
  BY <1>7 DEF CreateWorkers, queues, callers
<1>8. ASSUME NEW w \in Worker, StartEchoWorker(w) PROVE DispatchedWorkIsNotLost'
  BY <1>8 DEF StartEchoWorker, rows, callers
<1>9. CASE CommitStartedWorker
  BY <1>9 DEF CommitStartedWorker, queues, callers
<1>10. CASE AckStartMessage
  BY <1>10 DEF AckStartMessage, queues, rows, callers
<1>11. ASSUME NEW t \in Thread, NEW w \in Worker, FindByWorkerId(t, w)
       PROVE  DispatchedWorkIsNotLost'
  BY <1>11 DEF FindByWorkerId, rows, starter
<1>12. ASSUME NEW t \in Thread, CheckStates(t) PROVE DispatchedWorkIsNotLost'
  BY <1>12 DEF CheckStates, queues, rows, starter
<1>13. ASSUME NEW t \in Thread, SendMerge(t) PROVE DispatchedWorkIsNotLost'
  BY <1>13 DEF SendMerge, rows, starter
<1>14. ASSUME NEW t \in Thread, CommitCallback(t) PROVE DispatchedWorkIsNotLost'
  BY <1>14 DEF CommitCallback, queues, starter
<1>15. ASSUME NEW t \in Thread, AckCallbackMessage(t) PROVE DispatchedWorkIsNotLost'
  BY <1>15 DEF AckCallbackMessage, queues, rows, starter
<1>16. CASE StartFails
  BY <1>16 DEF StartFails, rows, callers
<1>17. ASSUME NEW t \in Thread, CallbackFails(t) PROVE DispatchedWorkIsNotLost'
  BY <1>17 DEF CallbackFails, rows, starter
<1>18. CASE UNCHANGED vars
  BY <1>18 DEF vars, queues, rows, starter, callers
<1>19. QED
  BY <1>1, <1>2, <1>3, <1>4, <1>5, <1>6, <1>7, <1>8, <1>9, <1>10, <1>11, <1>12,
     <1>13, <1>14, <1>15, <1>16, <1>17, <1>18
     DEF Next, StartConsumer, CallbackConsumer

\* The invariant holds in every reachable state, for any number of consumers and faults.
THEOREM Invariance == Spec => [](TypeOK /\ IndInv)
<1>1. Init => TypeOK /\ IndInv
  BY ConstantsAssumption
     DEF Init, TypeOK, StartPc, CallbackPc, IndInv, WorkHasRows, CallbackFindsItsRows,
         CallbacksHaveTiles, StartProgress, MergeBarrier, StartKeptUntilDispatched,
         DispatchedWorkIsNotLost, DoneHasTile
<1>2. TypeOK /\ IndInv /\ [Next]_vars => (TypeOK /\ IndInv)'
  BY TypeStep, WorkHasRowsStep, CallbacksHaveTilesStep, DoneHasTileStep, MergeBarrierStep,
     StartProgressStep, StartKeptStep, DispatchedStep DEF IndInv
<1>3. QED
  BY <1>1, <1>2, PTL DEF Spec

\* The map-reduce barrier: no merge message before every tile of its processing is made.
THEOREM MergeWaitsForAllTiles == Spec => []MergeBarrier
  BY Invariance, PTL DEF IndInv

\* A start message is acknowledged only when all its workers are handed over.
THEOREM NoStartIsLost == Spec => []StartKeptUntilDispatched
  BY Invariance, PTL DEF IndInv

\* A PROCESSING row has a worker message in the queue or a finished tile.
THEOREM NoDispatchIsLost == Spec => []DispatchedWorkIsNotLost
  BY Invariance, PTL DEF IndInv

\* DONE, a tile URL and an existing tile go together.
THEOREM DoneRowsHaveTiles == Spec => []DoneHasTile
  BY Invariance, PTL DEF IndInv

\* The error branches of callbackEchoWorker for missing rows are never taken.
THEOREM CallbackRowsExist == Spec => []CallbackFindsItsRows
  BY Invariance, PTL DEF IndInv, WorkHasRows

\* Redelivered start messages do not reset rows.
THEOREM RowsAreNeverReset == Spec => RowsCreatedOnce
<1> DEFINE A == \A w \in Worker : state[w] # "ABSENT" /\ state'[w] # state[w] =>
                                    state'[w] \in {"PROCESSING", "DONE"}
<1>1. TypeOK /\ [Next]_vars => A
  <2> SUFFICES ASSUME TypeOK, [Next]_vars PROVE A
    OBVIOUS
  <2>1. CASE CreateWorkers
    BY <2>1 DEF CreateWorkers, WorkersOf, ExistsByProcessingId
  <2>2. CASE CommitStartedWorker
    BY <2>2 DEF CommitStartedWorker, TypeOK
  <2>3. ASSUME NEW t \in Thread, CommitCallback(t) PROVE A
    BY <2>3 DEF CommitCallback, TypeOK
  <2>4. CASE UNCHANGED state
    BY <2>4
  <2>5. QED
    BY <2>1, <2>2, <2>3, <2>4
       DEF Next, StartConsumer, CallbackConsumer, vars, rows, StartEchoProcessing,
           WorkerReplies, WorkerRepliesTwice, ReceiveStartMessage, CreateOrchestrator,
           SplitEmptyGrid, StartEchoWorker, AckStartMessage, FindByWorkerId, CheckStates,
           SendMerge, AckCallbackMessage, StartFails, CallbackFails
<1>2. QED
  BY <1>1, TypeCorrect, PTL DEF Spec, RowsCreatedOnce

-----------------------------------------------------------------------------
(* One callback consumer, the deployed configuration. *)

\* A published merge stays published: mergeQ only grows.
LEMMA MergePublishedStays ==
  TypeOK /\ [Next]_vars => \A p \in Processing : MergePublished(p) => MergePublished(p)'
<1> SUFFICES ASSUME TypeOK, [Next]_vars, NEW p \in Processing, MergePublished(p)
             PROVE  MergePublished(p)'
  OBVIOUS
<1>1. CASE UNCHANGED mergeQ
  BY <1>1 DEF MergePublished
<1>2. ASSUME NEW t \in Thread, SendMerge(t) PROVE MergePublished(p)'
  <2>1. PICK m : mergeQ' = Append(mergeQ, m)
    BY <1>2 DEF SendMerge
  <2>2. PICK i \in DOMAIN mergeQ : mergeQ[i].processingId = p
    BY DEF MergePublished
  <2>3. i \in DOMAIN mergeQ' /\ mergeQ'[i] = mergeQ[i]
    BY <2>1, <2>2 DEF TypeOK
  <2>4. QED
    BY <2>2, <2>3 DEF MergePublished
<1>3. QED
  BY <1>1, <1>2
     DEF Next, StartConsumer, CallbackConsumer, vars, queues, StartEchoProcessing,
         WorkerReplies, WorkerRepliesTwice, ReceiveStartMessage, CreateOrchestrator,
         SplitEmptyGrid, CreateWorkers, StartEchoWorker, CommitStartedWorker,
         AckStartMessage, FindByWorkerId, CheckStates, CommitCallback,
         AckCallbackMessage, StartFails, CallbackFails

\* The steps that make no row DONE and bring no thread to its commit keep both facts.
LEMMA FewerDone ==
  /\ TypeOK /\ [Next]_vars /\ LastCommitMerges /\ AllDoneIsMerged
  /\ \A w \in Worker : state'[w] = "DONE" => state[w] = "DONE"
  /\ \A u \in Thread : cbPc'[u] = "commit" /\ u \in dirty' =>
       cbPc[u] = "commit" /\ u \in dirty /\ cbMsg'[u] = cbMsg[u]
  => LastCommitMerges' /\ AllDoneIsMerged'
<1> SUFFICES ASSUME TypeOK, [Next]_vars, LastCommitMerges, AllDoneIsMerged,
                    \A w \in Worker : state'[w] = "DONE" => state[w] = "DONE",
                    \A u \in Thread : cbPc'[u] = "commit" /\ u \in dirty' =>
                      cbPc[u] = "commit" /\ u \in dirty /\ cbMsg'[u] = cbMsg[u]
             PROVE  LastCommitMerges' /\ AllDoneIsMerged'
  OBVIOUS
<1>1. \A p \in Processing : MergePublished(p) => MergePublished(p)'
  BY MergePublishedStays
<1>2. AllDoneIsMerged'
  BY <1>1 DEF AllDoneIsMerged, AllDone, WorkersOf
<1>3. LastCommitMerges'
  <2> SUFFICES ASSUME NEW t \in Thread, NEW p \in Processing,
                      cbPc'[t] = "commit", t \in dirty', ProcOf[cbMsg'[t]] = p,
                      \A w \in WorkersOf(p) \ {cbMsg'[t]} : state'[w] = "DONE"
               PROVE  MergePublished(p)'
    BY DEF LastCommitMerges, WorkersOf
  <2>1. ProcOf[cbMsg[t]] = p /\ \A w \in WorkersOf(p) \ {cbMsg[t]} : state[w] = "DONE"
    BY DEF WorkersOf
  <2>2. MergePublished(p)
    BY <2>1 DEF LastCommitMerges
  <2>3. QED
    BY <1>1, <2>2
<1>4. QED
  BY <1>2, <1>3

\* One callback consumer: the row that completes a processing is committed only after the
\* merge was published, so a completed processing is a merged one.
LEMMA OneConsumerStep ==
  ASSUME NEW t, Thread = {t}
  PROVE  TypeOK /\ WorkHasRows /\ LastCommitMerges /\ AllDoneIsMerged /\ [Next]_vars
           => LastCommitMerges' /\ AllDoneIsMerged'
<1> SUFFICES ASSUME TypeOK, WorkHasRows, LastCommitMerges, AllDoneIsMerged, [Next]_vars
             PROVE  LastCommitMerges' /\ AllDoneIsMerged'
  OBVIOUS
<1>1. CASE UNCHANGED <<state, cbPc, cbMsg, dirty>>
  BY <1>1, FewerDone
<1>2. CASE CreateWorkers
  <2>1. \A w \in Worker : state'[w] = "DONE" => state[w] = "DONE"
    BY <1>2 DEF CreateWorkers
  <2>2. UNCHANGED <<cbPc, cbMsg, dirty>>
    BY <1>2 DEF CreateWorkers, callers
  <2>3. QED
    BY <2>1, <2>2, FewerDone
<1>3. CASE CommitStartedWorker
  <2>1. \A w \in Worker : state'[w] = "DONE" => state[w] = "DONE"
    BY <1>3 DEF CommitStartedWorker, TypeOK
  <2>2. UNCHANGED <<cbPc, cbMsg, dirty>>
    BY <1>3 DEF CommitStartedWorker, callers
  <2>3. QED
    BY <2>1, <2>2, FewerDone
<1>4. CASE (\E w \in Worker : FindByWorkerId(t, w)) \/ AckCallbackMessage(t) \/ CallbackFails(t)
  <2>1. UNCHANGED state
    BY <1>4 DEF FindByWorkerId, AckCallbackMessage, CallbackFails, rows
  <2>2. cbPc'[t] # "commit"
    BY <1>4 DEF FindByWorkerId, AckCallbackMessage, CallbackFails, TypeOK
  <2>3. QED
    BY <2>1, <2>2, FewerDone
<1>5. CASE CheckStates(t)
  <2>1. UNCHANGED <<state, mergeQ, cbMsg, dirty>>
    BY <1>5 DEF CheckStates, rows, queues
  <2>2. AllDoneIsMerged'
    BY <2>1 DEF AllDoneIsMerged, AllDone, MergePublished
  <2>3. ASSUME NEW p \in Processing, t \in dirty, ProcOf[cbMsg[t]] = p,
               \A w \in WorkersOf(p) \ {cbMsg[t]} : state[w] = "DONE"
        PROVE  FindDistinctState(t, p) = {"DONE"}
    <3>1. cbMsg[t] \in FindByProcessingId(p)
      BY <1>5, <2>3 DEF CheckStates, TypeOK, WorkHasRows, CallbackFindsItsRows,
                        FindByProcessingId, WorkersOf
    <3>2. \A w \in FindByProcessingId(p) : StateSeenBy(t, w) = "DONE"
      BY <2>3 DEF FindByProcessingId, StateSeenBy
    <3>3. QED
      BY <3>1, <3>2 DEF FindDistinctState
  <2>4. LastCommitMerges'
    BY <1>5, <2>1, <2>3 DEF CheckStates, TypeOK, LastCommitMerges, WorkersOf
  <2>5. QED
    BY <2>2, <2>4
<1>6. CASE SendMerge(t)
  <2>1. UNCHANGED <<state, cbMsg, dirty>>
    BY <1>6 DEF SendMerge, rows
  <2>2. AllDoneIsMerged'
    BY <2>1, MergePublishedStays DEF AllDoneIsMerged, AllDone
  <2>3. PICK m : mergeQ' = Append(mergeQ, m) /\ m.processingId = ProcOf[cbMsg[t]]
    BY <1>6 DEF SendMerge
  <2>4. ASSUME NEW p \in Processing, ProcOf[cbMsg[t]] = p PROVE MergePublished(p)'
    <3>1. Len(mergeQ) + 1 \in DOMAIN mergeQ' /\ mergeQ'[Len(mergeQ) + 1] = m
      BY <2>3 DEF TypeOK
    <3>2. QED
      BY <2>3, <2>4, <3>1 DEF MergePublished
  <2>5. LastCommitMerges'
    BY <2>1, <2>4 DEF LastCommitMerges
  <2>6. QED
    BY <2>2, <2>5
<1>7. CASE CommitCallback(t)
  <2>1. cbPc'[t] # "commit" /\ UNCHANGED mergeQ /\ cbMsg[t] \in Worker
    BY <1>7 DEF CommitCallback, queues, TypeOK
  <2>2. LastCommitMerges'
    BY <2>1 DEF LastCommitMerges
  <2>3. ASSUME NEW p \in Processing, AllDone(p)' PROVE MergePublished(p)
    <3>1. CASE t \in dirty /\ ProcOf[cbMsg[t]] = p
      <4>1. \A w \in WorkersOf(p) \ {cbMsg[t]} : state[w] = "DONE"
        BY <1>7, <2>3, <3>1 DEF CommitCallback, AllDone, WorkersOf, TypeOK
      <4>2. QED
        BY <1>7, <3>1, <4>1 DEF CommitCallback, LastCommitMerges
    <3>2. CASE ~(t \in dirty /\ ProcOf[cbMsg[t]] = p)
      <4>1. AllDone(p)
        BY <1>7, <2>1, <2>3, <3>2 DEF CommitCallback, AllDone, WorkersOf, TypeOK
      <4>2. QED
        BY <4>1 DEF AllDoneIsMerged
    <3>3. QED
      BY <3>1, <3>2
  <2>4. AllDoneIsMerged'
    BY <2>1, <2>3 DEF AllDoneIsMerged, MergePublished
  <2>5. QED
    BY <2>2, <2>4
<1>8. QED
  BY <1>1, <1>2, <1>3, <1>4, <1>5, <1>6, <1>7
     DEF Next, StartConsumer, CallbackConsumer, vars, rows, callers,
         StartEchoProcessing, WorkerReplies, WorkerRepliesTwice, ReceiveStartMessage,
         CreateOrchestrator, SplitEmptyGrid, StartEchoWorker, AckStartMessage, StartFails

\* With one callback consumer, whatever fails and is redelivered, the database never shows
\* a processing complete whose merge was not published.
THEOREM OneConsumerNeverMissesMerge ==
  ASSUME NEW t, Thread = {t}
  PROVE  Spec => []AllDoneIsMerged
<1>1. Init => LastCommitMerges /\ AllDoneIsMerged
  BY DEF Init, LastCommitMerges, AllDoneIsMerged, AllDone, WorkersOf
<1>2. TypeOK /\ IndInv /\ LastCommitMerges /\ AllDoneIsMerged /\ [Next]_vars
        => LastCommitMerges' /\ AllDoneIsMerged'
  BY OneConsumerStep DEF IndInv
<1>3. QED
  BY <1>1, <1>2, Invariance, PTL DEF Spec

-----------------------------------------------------------------------------
(* A failure costs at most one merge message more.  A thread publishes a merge because it *)
(* looks at the states; the looks to come are counted, and the one every processing needs *)
(* for its first merge is not to spare. *)

\* Threads about to look at the states of the processing of w.
Checking(w) == {t \in Thread : cbPc[t] = "check" /\ cbMsg[t] = w}

\* The start consumer will hand w over, in this delivery of its message or in a later one.
ToDo(w) ==
  IF w \in todo \/ (state[w] \in {"ABSENT", "INIT"} /\ ~(startPc = "commit" /\ w = current))
  THEN 1 ELSE 0

\* All there is that leads to a look at the states because of w.
Looks(w) == workerQ[w] + callbackQ[w] + Cardinality(Checking(w)) + ToDo(w)

Committing(w) == \E t \in dirty : cbPc[t] = "commit" /\ cbMsg[t] = w

MergingNow == {t \in Thread : cbPc[t] = "merge"}

\* The processings that are merged or that some thread is about to merge.
Decided == Merged \cup {ProcOf[cbMsg[t]] : t \in MergingNow}

\* The first merge of the processing of w still waits for w.
Awaited(w) == IF state[w] # "DONE" /\ ~Committing(w) /\ ProcOf[w] \notin Decided THEN 1 ELSE 0

\* The looks the first merge can do without.
Spare == [w \in Worker |-> Looks(w) - Awaited(w)]

\* n[x] tokens for every x of S, none where n[x] is not positive.
Tokens(S, n) == {x \in S \X (Nat \ {0}) : x[2] <= n[x[1]]}

\* The processings decided, less the merges decided.
Left == Cardinality(Decided) - Cardinality(MergingNow) - Len(mergeQ)

\* What is counted is finite.
FinitelyMany ==
  (\A w \in Worker : IsFiniteSet(Checking(w))) /\ IsFiniteSet(MergingNow) /\ IsFiniteSet(Decided)

\* The inductive invariant: every look to spare may make a merge message more, and only a
\* failure makes looks to spare.
MergesCounted ==
  /\ FinitelyMany
  /\ IsFiniteSet(Tokens(Worker, Spare)) /\ Cardinality(Tokens(Worker, Spare)) <= Left + faults

LEMMA OneElementMore ==
  ASSUME NEW S, NEW x, IsFiniteSet(S)
  PROVE  IsFiniteSet(S \cup {x}) /\ Cardinality(S \cup {x}) <= Cardinality(S) + 1
<1>1. IsFiniteSet(S \cup {x}) /\ Cardinality(S \cup {x}) = IF x \in S THEN Cardinality(S) ELSE Cardinality(S) + 1
  BY FS_AddElement
<1>2. Cardinality(S) \in Nat
  BY FS_CardinalityType
<1>3. QED
  BY <1>1, <1>2

LEMMA TokensFewer ==
  ASSUME NEW S, NEW n \in [S -> Int], NEW m \in [S -> Int], IsFiniteSet(Tokens(S, n)),
         \A w \in S : m[w] <= n[w] \/ m[w] <= 0
  PROVE  IsFiniteSet(Tokens(S, m)) /\ Cardinality(Tokens(S, m)) <= Cardinality(Tokens(S, n))
<1>1. Tokens(S, m) \subseteq Tokens(S, n)
  BY DEF Tokens
<1>2. QED
  BY <1>1, FS_Subset

LEMMA TokensOneMore ==
  ASSUME NEW S, NEW n \in [S -> Int], NEW m \in [S -> Int], IsFiniteSet(Tokens(S, n)), NEW v \in S,
         m[v] <= n[v] + 1, \A w \in S \ {v} : m[w] <= n[w]
  PROVE  IsFiniteSet(Tokens(S, m)) /\ Cardinality(Tokens(S, m)) <= Cardinality(Tokens(S, n)) + 1
<1>1. Tokens(S, m) \subseteq Tokens(S, n) \cup {<<v, n[v] + 1>>}
  <2> SUFFICES ASSUME NEW w \in S, NEW i \in Nat \ {0}, i <= m[w]
               PROVE  <<w, i>> \in Tokens(S, n) \cup {<<v, n[v] + 1>>}
    BY DEF Tokens
  <2>1. CASE i <= n[w]
    BY <2>1 DEF Tokens
  <2>2. CASE w = v /\ i = n[v] + 1
    BY <2>2
  <2>3. QED
    BY <2>1, <2>2
<1> DEFINE U == Tokens(S, n) \cup {<<v, n[v] + 1>>}
<1>2. IsFiniteSet(U) /\ Cardinality(U) <= Cardinality(Tokens(S, n)) + 1
  BY OneElementMore
<1> HIDE DEF U
<1>3. IsFiniteSet(Tokens(S, m)) /\ Cardinality(Tokens(S, m)) <= Cardinality(U)
  BY <1>1, <1>2, FS_Subset DEF U
<1>4. Cardinality(Tokens(S, m)) \in Nat /\ Cardinality(U) \in Nat /\ Cardinality(Tokens(S, n)) \in Nat
  BY <1>2, <1>3, FS_CardinalityType
<1>5. QED
  BY <1>2, <1>3, <1>4

LEMMA TokensOneLess ==
  ASSUME NEW S, NEW n \in [S -> Int], NEW m \in [S -> Int], IsFiniteSet(Tokens(S, n)), NEW v \in S,
         n[v] >= 1, m[v] <= n[v] - 1, \A w \in S \ {v} : m[w] <= n[w]
  PROVE  IsFiniteSet(Tokens(S, m)) /\ Cardinality(Tokens(S, m)) + 1 <= Cardinality(Tokens(S, n))
<1>1. <<v, n[v]>> \in Tokens(S, n)
  BY DEF Tokens
<1>2. Tokens(S, m) \subseteq Tokens(S, n) \ {<<v, n[v]>>}
  <2> SUFFICES ASSUME NEW w \in S, NEW i \in Nat \ {0}, i <= m[w]
               PROVE  <<w, i>> \in Tokens(S, n) /\ <<w, i>> # <<v, n[v]>>
    BY DEF Tokens
  <2>1. i <= n[w] /\ ~(w = v /\ i = n[v])
    OBVIOUS
  <2>2. QED
    BY <2>1 DEF Tokens
<1> DEFINE U == Tokens(S, n) \ {<<v, n[v]>>}
<1>3. IsFiniteSet(U) /\ Cardinality(U) = Cardinality(Tokens(S, n)) - 1
  BY <1>1, FS_RemoveElement
<1> HIDE DEF U
<1>4. IsFiniteSet(Tokens(S, m)) /\ Cardinality(Tokens(S, m)) <= Cardinality(U)
  BY <1>2, <1>3, FS_Subset DEF U
<1>5. Cardinality(Tokens(S, m)) \in Nat /\ Cardinality(U) \in Nat /\ Cardinality(Tokens(S, n)) \in Nat
  BY <1>3, <1>4, FS_CardinalityType
<1>6. QED
  BY <1>3, <1>4, <1>5

LEMMA LooksAreNumbers ==
  ASSUME TypeOK, \A w \in Worker : IsFiniteSet(Checking(w)), NEW w \in Worker
  PROVE  /\ Cardinality(Checking(w)) \in Nat /\ ToDo(w) \in {0, 1} /\ Awaited(w) \in {0, 1}
         /\ workerQ[w] \in Nat /\ callbackQ[w] \in Nat
         /\ Looks(w) \in Nat /\ Spare[w] = Looks(w) - Awaited(w)
<1>1. Cardinality(Checking(w)) \in Nat /\ workerQ[w] \in Nat /\ callbackQ[w] \in Nat
  BY FS_CardinalityType DEF TypeOK
<1>2. ToDo(w) \in {0, 1} /\ Awaited(w) \in {0, 1}
  BY DEF ToDo, Awaited
<1>3. QED
  BY <1>1, <1>2 DEF Looks, Spare

LEMMA SpareType == TypeOK /\ FinitelyMany => Spare \in [Worker -> Int]
<1> SUFFICES ASSUME TypeOK, FinitelyMany PROVE Spare \in [Worker -> Int]
  OBVIOUS
<1>1. \A w \in Worker : Looks(w) - Awaited(w) \in Int
  BY LooksAreNumbers DEF FinitelyMany
<1>2. QED
  BY <1>1 DEF Spare

\* The numbers the count is about are numbers, before and after a step.
LEMMA LeftIsANumber ==
  TypeOK /\ FinitelyMany =>
    /\ Left \in Int /\ faults \in Nat /\ Len(mergeQ) \in Nat
    /\ Cardinality(Decided) \in Nat /\ Cardinality(MergingNow) \in Nat
<1> SUFFICES ASSUME TypeOK, FinitelyMany
             PROVE  /\ Left \in Int /\ faults \in Nat /\ Len(mergeQ) \in Nat
                    /\ Cardinality(Decided) \in Nat /\ Cardinality(MergingNow) \in Nat
  OBVIOUS
<1>1. /\ Cardinality(Decided) \in Nat /\ Cardinality(MergingNow) \in Nat /\ Len(mergeQ) \in Nat
      /\ faults \in Nat
  BY FS_CardinalityType, ConstantsAssumption DEF FinitelyMany, TypeOK
<1>2. QED
  BY <1>1 DEF Left

LEMMA NumbersAfter ==
  (TypeOK /\ FinitelyMany)' => Spare' \in [Worker -> Int] /\ Left' \in Int /\ faults' \in Nat
<1>1. TypeOK /\ FinitelyMany => Spare \in [Worker -> Int] /\ Left \in Int /\ faults \in Nat
  BY SpareType, LeftIsANumber
<1>2. (TypeOK /\ FinitelyMany => Spare \in [Worker -> Int] /\ Left \in Int /\ faults \in Nat)'
  BY <1>1, PTL
<1>3. QED
  BY <1>2

\* A step that makes no worker more likely to be looked at again, and keeps the balance.
LEMMA BalancedStep ==
  ASSUME TypeOK, TypeOK', MergesCounted, FinitelyMany', Left + faults <= Left' + faults',
         \A w \in Worker : Spare'[w] <= Spare[w]
  PROVE  MergesCounted'
<1>1. PICK n : n = Spare
  OBVIOUS
<1>2. PICK m : m = Spare'
  OBVIOUS
<1>3. n \in [Worker -> Int] /\ m \in [Worker -> Int]
  BY <1>1, <1>2, SpareType, NumbersAfter DEF MergesCounted
<1>4. IsFiniteSet(Tokens(Worker, n)) /\ Cardinality(Tokens(Worker, n)) <= Left + faults
  BY <1>1 DEF MergesCounted
<1>5. IsFiniteSet(Tokens(Worker, m)) /\ Cardinality(Tokens(Worker, m)) <= Cardinality(Tokens(Worker, n))
  BY <1>1, <1>2, <1>3, <1>4, TokensFewer
<1>6. /\ Cardinality(Tokens(Worker, m)) \in Nat /\ Cardinality(Tokens(Worker, n)) \in Nat
      /\ Left \in Int /\ faults \in Nat /\ Left' \in Int /\ faults' \in Nat
  BY <1>4, <1>5, FS_CardinalityType, LeftIsANumber, NumbersAfter DEF MergesCounted
<1>7. Cardinality(Tokens(Worker, m)) <= Left' + faults'
  BY <1>4, <1>5, <1>6
<1>8. Tokens(Worker, Spare)' = Tokens(Worker, m)
  BY <1>2 DEF Tokens
<1>9. QED
  BY <1>5, <1>7, <1>8 DEF MergesCounted

\* A failure makes one worker be looked at once more.
LEMMA FailingStep ==
  ASSUME TypeOK, TypeOK', MergesCounted, FinitelyMany', Left + faults + 1 <= Left' + faults',
         NEW v \in Worker, Spare'[v] <= Spare[v] + 1,
         \A w \in Worker \ {v} : Spare'[w] <= Spare[w]
  PROVE  MergesCounted'
<1>1. PICK n : n = Spare
  OBVIOUS
<1>2. PICK m : m = Spare'
  OBVIOUS
<1>3. n \in [Worker -> Int] /\ m \in [Worker -> Int]
  BY <1>1, <1>2, SpareType, NumbersAfter DEF MergesCounted
<1>4. IsFiniteSet(Tokens(Worker, n)) /\ Cardinality(Tokens(Worker, n)) <= Left + faults
  BY <1>1 DEF MergesCounted
<1>5. IsFiniteSet(Tokens(Worker, m)) /\ Cardinality(Tokens(Worker, m)) <= Cardinality(Tokens(Worker, n)) + 1
  BY <1>1, <1>2, <1>3, <1>4, TokensOneMore
<1>6. /\ Cardinality(Tokens(Worker, m)) \in Nat /\ Cardinality(Tokens(Worker, n)) \in Nat
      /\ Left \in Int /\ faults \in Nat /\ Left' \in Int /\ faults' \in Nat
  BY <1>4, <1>5, FS_CardinalityType, LeftIsANumber, NumbersAfter DEF MergesCounted
<1>7. Cardinality(Tokens(Worker, m)) <= Left' + faults'
  BY <1>4, <1>5, <1>6
<1>8. Tokens(Worker, Spare)' = Tokens(Worker, m)
  BY <1>2 DEF Tokens
<1>9. QED
  BY <1>5, <1>7, <1>8 DEF MergesCounted

\* A look that was to spare decides a merge once more.
LEMMA SparedLookStep ==
  ASSUME TypeOK, TypeOK', MergesCounted, FinitelyMany', Left + faults <= Left' + faults' + 1,
         NEW v \in Worker, Spare[v] >= 1, Spare'[v] <= Spare[v] - 1,
         \A w \in Worker \ {v} : Spare'[w] <= Spare[w]
  PROVE  MergesCounted'
<1>1. PICK n : n = Spare
  OBVIOUS
<1>2. PICK m : m = Spare'
  OBVIOUS
<1>3. n \in [Worker -> Int] /\ m \in [Worker -> Int]
  BY <1>1, <1>2, SpareType, NumbersAfter DEF MergesCounted
<1>4. IsFiniteSet(Tokens(Worker, n)) /\ Cardinality(Tokens(Worker, n)) <= Left + faults
  BY <1>1 DEF MergesCounted
<1>5. IsFiniteSet(Tokens(Worker, m)) /\ Cardinality(Tokens(Worker, m)) + 1 <= Cardinality(Tokens(Worker, n))
  BY <1>1, <1>2, <1>3, <1>4, TokensOneLess
<1>6. /\ Cardinality(Tokens(Worker, m)) \in Nat /\ Cardinality(Tokens(Worker, n)) \in Nat
      /\ Left \in Int /\ faults \in Nat /\ Left' \in Int /\ faults' \in Nat
  BY <1>4, <1>5, FS_CardinalityType, LeftIsANumber, NumbersAfter DEF MergesCounted
<1>7. Cardinality(Tokens(Worker, m)) <= Left' + faults'
  BY <1>4, <1>5, <1>6
<1>8. Tokens(Worker, Spare)' = Tokens(Worker, m)
  BY <1>2 DEF Tokens
<1>9. QED
  BY <1>5, <1>7, <1>8 DEF MergesCounted

\* While the callback consumers do nothing, only queues, rows and the list count.
LEMMA CallersAlone ==
  ASSUME TypeOK, FinitelyMany, UNCHANGED <<mergeQ, cbPc, cbMsg, dirty>>
  PROVE  /\ FinitelyMany' /\ Left' = Left /\ Decided' = Decided
         /\ \A w \in Worker : Checking(w)' = Checking(w) /\ Committing(w)' = Committing(w)
<1>1. \A w \in Worker : Checking(w)' = Checking(w) /\ Committing(w)' = Committing(w)
  BY DEF Checking, Committing
<1>2. MergingNow' = MergingNow /\ Merged' = Merged
  BY DEF MergingNow, Merged
<1>3. Decided' = Decided
  BY <1>2 DEF Decided
<1>4. QED
  BY <1>1, <1>2, <1>3 DEF FinitelyMany, Left

\* What a worker's spare looks do when the callback consumers do nothing.
LEMMA SpareAlone ==
  ASSUME TypeOK, TypeOK', FinitelyMany, UNCHANGED <<mergeQ, cbPc, cbMsg, dirty>>, NEW w \in Worker
  PROVE  /\ Spare[w] \in Int
         /\ Spare'[w] = Spare[w] + (workerQ'[w] - workerQ[w]) + (callbackQ'[w] - callbackQ[w])
                          + (ToDo(w)' - ToDo(w)) - (Awaited(w)' - Awaited(w))
         /\ (state'[w] = "DONE" => state[w] = "DONE") => Awaited(w)' >= Awaited(w)
         /\ state'[w] = state[w] => Awaited(w)' = Awaited(w)
         /\ workerQ[w] \in Nat /\ callbackQ[w] \in Nat /\ workerQ'[w] \in Nat /\ callbackQ'[w] \in Nat
         /\ ToDo(w) \in {0, 1} /\ ToDo(w)' \in {0, 1} /\ Awaited(w) \in {0, 1} /\ Awaited(w)' \in {0, 1}
<1>1. Checking(w)' = Checking(w) /\ Committing(w)' = Committing(w) /\ Decided' = Decided
  BY CallersAlone
<1>2. Cardinality(Checking(w)) \in Nat
  BY FS_CardinalityType DEF FinitelyMany
<1>3. ToDo(w) \in {0, 1} /\ ToDo(w)' \in {0, 1} /\ Awaited(w) \in {0, 1} /\ Awaited(w)' \in {0, 1}
  BY DEF ToDo, Awaited
<1>4. workerQ[w] \in Nat /\ callbackQ[w] \in Nat /\ workerQ'[w] \in Nat /\ callbackQ'[w] \in Nat
  BY DEF TypeOK
<1>5. /\ Spare[w] = workerQ[w] + callbackQ[w] + Cardinality(Checking(w)) + ToDo(w) - Awaited(w)
      /\ Spare'[w] = workerQ'[w] + callbackQ'[w] + Cardinality(Checking(w)) + ToDo(w)' - Awaited(w)'
  <2>1. Spare[w] = Looks(w) - Awaited(w) /\ Spare'[w] = Looks(w)' - Awaited(w)'
    BY DEF Spare
  <2>2. Cardinality(Checking(w))' = Cardinality(Checking(w))
    BY <1>1
  <2>3. Looks(w)' = workerQ'[w] + callbackQ'[w] + Cardinality(Checking(w))' + ToDo(w)'
    BY DEF Looks
  <2>4. QED
    BY <1>2, <1>3, <1>4, <2>1, <2>2, <2>3 DEF Looks
<1>6. /\ (state'[w] = "DONE" => state[w] = "DONE") => Awaited(w)' >= Awaited(w)
      /\ state'[w] = state[w] => Awaited(w)' = Awaited(w)
  BY <1>1 DEF Awaited
<1>7. QED
  BY <1>2, <1>3, <1>4, <1>5, <1>6

LEMMA QuietSteps ==
  ASSUME TypeOK, TypeOK', IndInv, MergesCounted,
         \/ \E p \in Processing : StartEchoProcessing(p) \/ ReceiveStartMessage(p)
         \/ \E w \in Worker : WorkerReplies(w) \/ StartEchoWorker(w)
         \/ CreateOrchestrator \/ SplitEmptyGrid \/ CreateWorkers \/ CommitStartedWorker
         \/ AckStartMessage
  PROVE  MergesCounted'
<1>1. UNCHANGED <<mergeQ, cbPc, cbMsg, dirty, faults>>
  BY DEF StartEchoProcessing, ReceiveStartMessage, WorkerReplies, StartEchoWorker,
         CreateOrchestrator, SplitEmptyGrid, CreateWorkers, CommitStartedWorker, AckStartMessage,
         queues, callers
<1>2. FinitelyMany' /\ Left' = Left /\ Left \in Int /\ faults \in Nat
  BY <1>1, CallersAlone, LeftIsANumber DEF MergesCounted
<1>3. SUFFICES \A w \in Worker : Spare'[w] <= Spare[w]
  BY <1>1, <1>2, BalancedStep
<1> TAKE w \in Worker
<1>4. /\ Spare[w] \in Int
      /\ Spare'[w] = Spare[w] + (workerQ'[w] - workerQ[w]) + (callbackQ'[w] - callbackQ[w])
                       + (ToDo(w)' - ToDo(w)) - (Awaited(w)' - Awaited(w))
      /\ (state'[w] = "DONE" => state[w] = "DONE") => Awaited(w)' >= Awaited(w)
      /\ workerQ[w] \in Nat /\ callbackQ[w] \in Nat /\ workerQ'[w] \in Nat /\ callbackQ'[w] \in Nat
      /\ ToDo(w) \in {0, 1} /\ ToDo(w)' \in {0, 1} /\ Awaited(w) \in {0, 1} /\ Awaited(w)' \in {0, 1}
  BY <1>1, SpareAlone DEF MergesCounted
<1>5. CASE UNCHANGED <<workerQ, callbackQ, todo, state, startPc, current>>
  <2>1. ToDo(w)' = ToDo(w) /\ Awaited(w)' >= Awaited(w)
    BY <1>4, <1>5 DEF ToDo
  <2>2. QED
    BY <1>4, <1>5, <2>1
<1>6. CASE /\ UNCHANGED <<workerQ, callbackQ, todo, state, current>>
           /\ startPc # "commit" /\ startPc' # "commit"
  <2>1. ToDo(w)' = ToDo(w) /\ Awaited(w)' >= Awaited(w)
    BY <1>4, <1>6 DEF ToDo
  <2>2. QED
    BY <1>4, <1>6, <2>1
<1>7. ASSUME NEW v \in Worker, WorkerReplies(v) PROVE Spare'[w] <= Spare[w]
  <2>1. UNCHANGED <<todo, state, startPc, current>>
    BY <1>7 DEF WorkerReplies, rows, starter
  <2>2. ToDo(w)' = ToDo(w) /\ Awaited(w)' >= Awaited(w)
    BY <1>4, <2>1 DEF ToDo
  <2>3. (workerQ'[w] - workerQ[w]) + (callbackQ'[w] - callbackQ[w]) = 0
    BY <1>7 DEF WorkerReplies, TypeOK
  <2>4. QED
    BY <1>4, <2>2, <2>3
<1>8. ASSUME NEW v \in Worker, StartEchoWorker(v) PROVE Spare'[w] <= Spare[w]
  <2>1. UNCHANGED <<callbackQ, state>> /\ Awaited(w)' >= Awaited(w)
    BY <1>4, <1>8 DEF StartEchoWorker, rows
  <2>2. CASE w = v
    <3>1. workerQ'[w] = workerQ[w] + 1 /\ ToDo(w) = 1 /\ ToDo(w)' = 0
      BY <1>8, <2>2 DEF StartEchoWorker, TypeOK, ToDo
    <3>2. QED
      BY <1>4, <2>1, <3>1
  <2>3. CASE w # v
    <3>1. workerQ'[w] = workerQ[w] /\ ToDo(w)' = ToDo(w)
      BY <1>8, <2>3 DEF StartEchoWorker, TypeOK, ToDo, rows
    <3>2. QED
      BY <1>4, <2>1, <3>1
  <2>4. QED
    BY <2>2, <2>3
<1>9. CASE CreateWorkers
  <2>1. UNCHANGED <<workerQ, callbackQ>>
    BY <1>9 DEF CreateWorkers, queues
  <2>2. state'[w] = "DONE" => state[w] = "DONE"
    BY <1>9 DEF CreateWorkers
  <2>3. ToDo(w)' <= ToDo(w)
    <3>1. startPc = "createWorkers" /\ todo = {}
      BY <1>9 DEF CreateWorkers, IndInv, WorkHasRows
    <3>2. state[w] \notin {"ABSENT", "INIT"} => w \notin todo' /\ state'[w] \notin {"ABSENT", "INIT"}
      BY <1>9, <3>1 DEF CreateWorkers, ExistsByProcessingId, FindByProcessingId
    <3>3. QED
      BY <3>1, <3>2 DEF ToDo
  <2>4. QED
    BY <1>4, <2>1, <2>2, <2>3
<1>10. CASE CommitStartedWorker
  <2>1. UNCHANGED <<workerQ, callbackQ, todo>> /\ current \in Worker /\ startPc = "commit"
    BY <1>10 DEF CommitStartedWorker, queues, TypeOK
  <2>2. state'[w] = "DONE" => state[w] = "DONE"
    BY <1>10, <2>1 DEF CommitStartedWorker, TypeOK
  <2>3. ToDo(w)' <= ToDo(w)
    BY <1>10, <2>1 DEF CommitStartedWorker, TypeOK, ToDo
  <2>4. QED
    BY <1>4, <2>1, <2>2, <2>3
<1>11. QED
  BY <1>5, <1>6, <1>7, <1>8, <1>9, <1>10
     DEF StartEchoProcessing, ReceiveStartMessage, CreateOrchestrator, SplitEmptyGrid,
         AckStartMessage, queues, rows, starter

LEMMA DoubledWork ==
  ASSUME TypeOK, TypeOK', IndInv, MergesCounted,
         StartFails \/ \E v \in Worker : WorkerRepliesTwice(v)
  PROVE  MergesCounted'
<1>1. UNCHANGED <<mergeQ, cbPc, cbMsg, dirty>> /\ faults' = faults + 1
  BY DEF StartFails, WorkerRepliesTwice, callers
<1>2. FinitelyMany' /\ Left' = Left /\ Left \in Int /\ faults \in Nat
  BY <1>1, CallersAlone, LeftIsANumber DEF MergesCounted
<1>3. ASSUME NEW w \in Worker
      PROVE  /\ Spare[w] \in Int
             /\ Spare'[w] = Spare[w] + (workerQ'[w] - workerQ[w]) + (callbackQ'[w] - callbackQ[w])
                              + (ToDo(w)' - ToDo(w)) - (Awaited(w)' - Awaited(w))
             /\ state'[w] = state[w] => Awaited(w)' = Awaited(w)
             /\ workerQ[w] \in Nat /\ callbackQ[w] \in Nat /\ workerQ'[w] \in Nat /\ callbackQ'[w] \in Nat
             /\ ToDo(w) \in {0, 1} /\ ToDo(w)' \in {0, 1} /\ Awaited(w) \in {0, 1} /\ Awaited(w)' \in {0, 1}
  BY <1>1, SpareAlone DEF MergesCounted
<1>4. ASSUME NEW v \in Worker, WorkerRepliesTwice(v) PROVE MergesCounted'
  <2>1. ASSUME NEW w \in Worker
        PROVE  Spare'[w] = Spare[w] + (IF w = v THEN 1 ELSE 0)
    <3>1. UNCHANGED <<workerQ, todo, state, startPc, current>>
      BY <1>4 DEF WorkerRepliesTwice, rows, starter
    <3>2. callbackQ'[w] = callbackQ[w] + (IF w = v THEN 1 ELSE 0)
      BY <1>4 DEF WorkerRepliesTwice, TypeOK
    <3>3. ToDo(w)' = ToDo(w) /\ Awaited(w)' = Awaited(w)
      BY <1>3, <3>1 DEF ToDo
    <3>4. QED
      BY <1>3, <3>1, <3>2, <3>3
  <2>2. QED
    BY <1>1, <1>2, <1>3, <2>1, FailingStep
<1>5. CASE StartFails
  <2>1. UNCHANGED <<workerQ, callbackQ, state>>
    BY <1>5 DEF StartFails, rows
  <2>2. ASSUME NEW w \in Worker, ~(startPc = "commit" /\ w = current) PROVE Spare'[w] <= Spare[w]
    <3>1. ToDo(w)' <= ToDo(w)
      BY <1>5, <2>1, <2>2 DEF StartFails, ToDo
    <3>2. QED
      BY <1>3, <2>1, <3>1
  <2>3. CASE startPc # "commit"
    <3>1. \A w \in Worker : Spare'[w] <= Spare[w]
      BY <2>2, <2>3
    <3>2. QED
      BY <1>1, <1>2, <3>1, BalancedStep
  <2>4. CASE startPc = "commit"
    <3>1. current \in Worker
      BY <2>4 DEF TypeOK
    <3>2. Spare'[current] <= Spare[current] + 1
      BY <1>3, <2>1, <3>1
    <3>3. \A w \in Worker \ {current} : Spare'[w] <= Spare[w]
      BY <2>2
    <3>4. QED
      BY <1>1, <1>2, <3>1, <3>2, <3>3, FailingStep
  <2>5. QED
    BY <2>3, <2>4
<1>6. QED
  BY <1>4, <1>5

\* What a worker's spare looks are made of, before and after a step.
LEMMA SpareParts ==
  ASSUME TypeOK, TypeOK', FinitelyMany, FinitelyMany', NEW w \in Worker
  PROVE  /\ Spare[w] = workerQ[w] + callbackQ[w] + Cardinality(Checking(w)) + ToDo(w) - Awaited(w)
         /\ Spare'[w] = workerQ'[w] + callbackQ'[w] + Cardinality(Checking(w)') + ToDo(w)' - Awaited(w)'
         /\ Cardinality(Checking(w)) \in Nat /\ Cardinality(Checking(w)') \in Nat
         /\ workerQ[w] \in Nat /\ callbackQ[w] \in Nat /\ workerQ'[w] \in Nat /\ callbackQ'[w] \in Nat
         /\ ToDo(w) \in {0, 1} /\ ToDo(w)' \in {0, 1} /\ Awaited(w) \in {0, 1} /\ Awaited(w)' \in {0, 1}
<1>1. IsFiniteSet(Checking(w)) /\ IsFiniteSet(Checking(w)')
  BY DEF FinitelyMany
<1>2. Cardinality(Checking(w)) \in Nat /\ Cardinality(Checking(w)') \in Nat
  BY <1>1, FS_CardinalityType
<1>3. ToDo(w) \in {0, 1} /\ ToDo(w)' \in {0, 1} /\ Awaited(w) \in {0, 1} /\ Awaited(w)' \in {0, 1}
  BY DEF ToDo, Awaited
<1>4. workerQ[w] \in Nat /\ callbackQ[w] \in Nat /\ workerQ'[w] \in Nat /\ callbackQ'[w] \in Nat
  BY DEF TypeOK
<1>5. Spare[w] = Looks(w) - Awaited(w) /\ Spare'[w] = Looks(w)' - Awaited(w)'
  BY DEF Spare
<1>6. Looks(w)' = workerQ'[w] + callbackQ'[w] + Cardinality(Checking(w)') + ToDo(w)'
  BY DEF Looks
<1>7. QED
  BY <1>2, <1>3, <1>4, <1>5, <1>6 DEF Looks

LEMMA CallbackArrives ==
  ASSUME TypeOK, TypeOK', IndInv, MergesCounted, NEW t \in Thread, NEW v \in Worker,
         FindByWorkerId(t, v)
  PROVE  MergesCounted'
<1>1. /\ cbPc[t] = "idle" /\ callbackQ[v] > 0 /\ state[v] # "ABSENT"
      /\ callbackQ' = [callbackQ EXCEPT ![v] = @ - 1]
      /\ cbMsg' = [cbMsg EXCEPT ![t] = v] /\ cbPc' = [cbPc EXCEPT ![t] = "check"]
      /\ dirty \subseteq dirty' /\ dirty' \subseteq dirty \cup {t}
      /\ UNCHANGED <<workerQ, mergeQ, state, startPc, todo, current, faults>>
  BY DEF FindByWorkerId, rows, starter, IndInv, WorkHasRows, CallbackFindsItsRows
<1>2. /\ Checking(v)' = Checking(v) \cup {t} /\ t \notin Checking(v)
      /\ \A w \in Worker \ {v} : Checking(w)' = Checking(w)
      /\ \A w \in Worker : Committing(w)' = Committing(w)
  BY <1>1 DEF TypeOK, Checking, Committing
<1>3. MergingNow' = MergingNow /\ Merged' = Merged /\ \A u \in MergingNow : cbMsg'[u] = cbMsg[u]
  BY <1>1 DEF TypeOK, MergingNow, Merged
<1>4. Decided' = Decided
  BY <1>3 DEF Decided
<1>5. IsFiniteSet(Checking(v) \cup {t}) /\ Cardinality(Checking(v) \cup {t}) = Cardinality(Checking(v)) + 1
  BY <1>2, FS_AddElement DEF MergesCounted, FinitelyMany
<1>6. FinitelyMany' /\ Left' = Left
  BY <1>1, <1>2, <1>3, <1>4, <1>5 DEF MergesCounted, FinitelyMany, Left
<1>7. ASSUME NEW w \in Worker PROVE Spare'[w] <= Spare[w]
  <2>1. ToDo(w)' = ToDo(w) /\ Awaited(w)' = Awaited(w) /\ workerQ'[w] = workerQ[w]
    BY <1>1, <1>2, <1>4 DEF ToDo, Awaited
  <2>2. callbackQ'[w] + Cardinality(Checking(w)') = callbackQ[w] + Cardinality(Checking(w))
    <3>1. CASE w = v
      <4>1. Cardinality(Checking(v)') = Cardinality(Checking(v)) + 1 /\ Cardinality(Checking(v)) \in Nat
        BY <1>2, <1>5, FS_CardinalityType DEF MergesCounted, FinitelyMany
      <4>2. callbackQ'[v] = callbackQ[v] - 1 /\ callbackQ[v] \in Nat
        BY <1>1 DEF TypeOK
      <4>3. QED
        BY <3>1, <4>1, <4>2
    <3>2. CASE w # v
      BY <1>1, <1>2, <3>2 DEF TypeOK
    <3>3. QED
      BY <3>1, <3>2
  <2>3. QED
    BY <1>6, <2>1, <2>2, SpareParts DEF MergesCounted
<1>8. QED
  BY <1>1, <1>6, <1>7, BalancedStep, LeftIsANumber DEF MergesCounted

\* The look at the states: the thread leaves the ones about to look.
LEMMA LookedAt ==
  ASSUME TypeOK, IndInv, FinitelyMany, NEW t \in Thread, CheckStates(t)
  PROVE  /\ cbMsg[t] \in Worker /\ cbPc[t] = "check"
         /\ UNCHANGED <<workerQ, callbackQ, mergeQ, state, startPc, todo, current, faults, cbMsg, dirty>>
         /\ t \in Checking(cbMsg[t]) /\ Checking(cbMsg[t])' = Checking(cbMsg[t]) \ {t}
         /\ \A w \in Worker \ {cbMsg[t]} : Checking(w)' = Checking(w)
         /\ \A w \in Worker : IsFiniteSet(Checking(w)')
         /\ Cardinality(Checking(cbMsg[t])') = Cardinality(Checking(cbMsg[t])) - 1
         /\ \A w \in Worker : ToDo(w)' = ToDo(w)
<1>1. /\ cbMsg[t] \in Worker /\ cbPc[t] = "check"
      /\ UNCHANGED <<workerQ, callbackQ, mergeQ, state, startPc, todo, current, faults, cbMsg, dirty>>
      /\ cbPc'[t] # "check" /\ \A u \in Thread \ {t} : cbPc'[u] = cbPc[u]
  BY DEF CheckStates, TypeOK, queues, rows, starter
<1>2. /\ t \in Checking(cbMsg[t]) /\ Checking(cbMsg[t])' = Checking(cbMsg[t]) \ {t}
      /\ \A w \in Worker \ {cbMsg[t]} : Checking(w)' = Checking(w)
  BY <1>1 DEF Checking
<1>3. PICK S : S = Checking(cbMsg[t])
  OBVIOUS
<1>4. IsFiniteSet(S) /\ t \in S
  BY <1>1, <1>2, <1>3 DEF FinitelyMany
<1>5. IsFiniteSet(S \ {t}) /\ Cardinality(S \ {t}) = Cardinality(S) - 1
  BY <1>4, FS_RemoveElement
<1>6. \A w \in Worker : ToDo(w)' = ToDo(w)
  BY <1>1 DEF ToDo
<1>7. QED
  BY <1>1, <1>2, <1>3, <1>5, <1>6 DEF FinitelyMany

LEMMA LookFindsMore ==
  ASSUME TypeOK, TypeOK', IndInv, MergesCounted, NEW t \in Thread, CheckStates(t),
         FindDistinctState(t, ProcOf[cbMsg[t]]) # {"DONE"}
  PROVE  MergesCounted'
<1> DEFINE v == cbMsg[t]
<1>1. cbPc' = [cbPc EXCEPT ![t] = "commit"] /\ cbPc[t] = "check"
  BY DEF CheckStates
<1>2. UNCHANGED <<workerQ, callbackQ, mergeQ, state, faults, cbMsg, dirty>> /\ v \in Worker
  BY LookedAt DEF MergesCounted
<1>3. MergingNow' = MergingNow /\ Merged' = Merged
  BY <1>1, <1>2 DEF MergingNow, Merged, TypeOK
<1>4. Decided' = Decided
  BY <1>2, <1>3 DEF Decided
<1>5. \A w \in Worker : w # v \/ t \notin dirty => Committing(w)' = Committing(w)
  BY <1>1, <1>2 DEF Committing, TypeOK
<1>6. FinitelyMany' /\ Left' = Left
  BY <1>2, <1>3, <1>4, LookedAt DEF MergesCounted, FinitelyMany, Left
<1>7. ASSUME NEW w \in Worker PROVE Spare'[w] <= Spare[w]
  <2>1. ToDo(w)' = ToDo(w) /\ workerQ'[w] = workerQ[w] /\ callbackQ'[w] = callbackQ[w]
    BY <1>2, LookedAt DEF MergesCounted
  <2>2. CASE w = v
    <3>1. Cardinality(Checking(w)') = Cardinality(Checking(w)) - 1
      BY <2>2, LookedAt DEF MergesCounted
    <3>2. QED
      BY <1>6, <2>1, <3>1, SpareParts DEF MergesCounted
  <2>3. CASE w # v
    <3>1. Cardinality(Checking(w)') = Cardinality(Checking(w))
      BY <2>3, LookedAt DEF MergesCounted
    <3>2. Awaited(w)' = Awaited(w)
      BY <1>2, <1>4, <1>5, <2>3 DEF Awaited
    <3>3. QED
      BY <1>6, <2>1, <3>1, <3>2, SpareParts DEF MergesCounted
  <2>4. QED
    BY <2>2, <2>3
<1>8. QED
  BY <1>2, <1>6, <1>7, BalancedStep, LeftIsANumber DEF MergesCounted

\* All are DONE: a merge is decided, the first one without a look to spare, any other with one.
LEMMA LookFindsAllDone ==
  ASSUME TypeOK, TypeOK', IndInv, MergesCounted, NEW t \in Thread, CheckStates(t),
         FindDistinctState(t, ProcOf[cbMsg[t]]) = {"DONE"}
  PROVE  MergesCounted'
<1>0. PICK v \in Worker : v = cbMsg[t]
  BY LookedAt DEF MergesCounted
<1> DEFINE p == ProcOf[v]
<1>1. cbPc' = [cbPc EXCEPT ![t] = "merge"] /\ cbPc[t] = "check"
  BY DEF CheckStates
<1>2. UNCHANGED <<workerQ, callbackQ, mergeQ, state, faults, cbMsg, dirty>>
  BY LookedAt DEF MergesCounted
<1>3. MergingNow' = MergingNow \cup {t} /\ t \notin MergingNow /\ Merged' = Merged
  BY <1>1, <1>2 DEF MergingNow, Merged, TypeOK
<1>4. Decided' = Decided \cup {p}
  BY <1>0, <1>2, <1>3 DEF Decided
<1>5. \A w \in Worker : Committing(w)' = Committing(w)
  BY <1>1, <1>2 DEF Committing, TypeOK
<1>6. \A w \in Worker \ {v} : Awaited(w)' = Awaited(w)
  <2> SUFFICES ASSUME NEW w \in Worker, w # v PROVE Awaited(w)' = Awaited(w)
    OBVIOUS
  <2>1. CASE ProcOf[w] = p
    <3>1. state[v] # "ABSENT"
      BY <1>0, <1>1, <1>2 DEF IndInv, WorkHasRows, CallbackFindsItsRows
    <3>2. state[w] # "ABSENT"
      BY <1>2, <2>1, <3>1 DEF IndInv, WorkHasRows
    <3>3. w \in FindByProcessingId(p)
      BY <2>1, <3>2 DEF FindByProcessingId, WorkersOf
    <3>4. StateSeenBy(t, w) = "DONE"
      BY <1>0, <3>3 DEF FindDistinctState
    <3>5. state[w] = "DONE"
      BY <1>0, <2>1, <3>4 DEF StateSeenBy
    <3>6. QED
      BY <1>2, <3>5 DEF Awaited
  <2>2. CASE ProcOf[w] # p
    BY <1>2, <1>4, <1>5, <2>2 DEF Awaited
  <2>3. QED
    BY <2>1, <2>2
<1>7. Awaited(v)' = 0
  BY <1>4 DEF Awaited
<1>8. /\ IsFiniteSet(MergingNow \cup {t}) /\ Cardinality(MergingNow \cup {t}) = Cardinality(MergingNow) + 1
      /\ IsFiniteSet(Decided \cup {p})
      /\ Cardinality(Decided \cup {p}) = IF p \in Decided THEN Cardinality(Decided) ELSE Cardinality(Decided) + 1
  BY <1>3, FS_AddElement DEF MergesCounted, FinitelyMany
<1>9. FinitelyMany'
  BY <1>3, <1>4, <1>8, LookedAt DEF MergesCounted, FinitelyMany
<1>10. /\ Cardinality(Decided) \in Nat /\ Cardinality(MergingNow) \in Nat /\ Len(mergeQ) \in Nat
       /\ faults \in Nat /\ Left \in Int
  BY LeftIsANumber DEF MergesCounted
<1>11. Left' = IF p \in Decided THEN Left - 1 ELSE Left
  <2>1. Left' = Cardinality(Decided \cup {p}) - Cardinality(MergingNow \cup {t}) - Len(mergeQ)
    BY <1>2, <1>3, <1>4 DEF Left
  <2>2. QED
    BY <1>8, <1>10, <2>1 DEF Left
<1>12. ASSUME NEW w \in Worker, w # v PROVE Spare'[w] <= Spare[w]
  <2>1. /\ ToDo(w)' = ToDo(w) /\ workerQ'[w] = workerQ[w] /\ callbackQ'[w] = callbackQ[w]
        /\ Cardinality(Checking(w)') = Cardinality(Checking(w))
    BY <1>0, <1>2, <1>12, LookedAt DEF MergesCounted
  <2>2. QED
    BY <1>6, <1>9, <1>12, <2>1, SpareParts DEF MergesCounted
<1>13. /\ ToDo(v)' = ToDo(v) /\ workerQ'[v] = workerQ[v] /\ callbackQ'[v] = callbackQ[v]
       /\ Cardinality(Checking(v)') = Cardinality(Checking(v)) - 1
  BY <1>0, <1>2, LookedAt DEF MergesCounted
<1> HIDE DEF p
<1>14. CASE p \notin Decided
  <2>1. Spare'[v] <= Spare[v]
    BY <1>2, <1>7, <1>9, <1>13, SpareParts DEF MergesCounted
  <2>2. \A w \in Worker : Spare'[w] <= Spare[w]
    BY <1>12, <2>1
  <2>3. QED
    BY <1>2, <1>9, <1>10, <1>11, <1>14, <2>2, BalancedStep
<1>15. CASE p \in Decided
  <2>1. Awaited(v) = 0
    BY <1>15 DEF Awaited, p
  <2>2. Spare[v] >= 1 /\ Spare'[v] <= Spare[v] - 1
    BY <1>2, <1>7, <1>9, <1>13, <2>1, SpareParts DEF MergesCounted
  <2>3. QED
    BY <1>2, <1>9, <1>10, <1>11, <1>12, <1>15, <2>2, SparedLookStep
<1>16. QED
  BY <1>14, <1>15

\* What a thread does after its look costs no look and frees none.
LEMMA CallbackGoesOn ==
  ASSUME TypeOK, TypeOK', IndInv, MergesCounted, NEW t \in Thread,
         SendMerge(t) \/ CommitCallback(t) \/ AckCallbackMessage(t)
  PROVE  MergesCounted'
<1>0. PICK v : v = cbMsg[t]
  OBVIOUS
<1>1. /\ v \in Worker /\ cbPc[t] \in {"merge", "commit", "ack"} /\ cbPc'[t] \in {"commit", "ack", "idle"}
      /\ \A u \in Thread \ {t} : cbPc'[u] = cbPc[u] /\ cbMsg'[u] = cbMsg[u]
      /\ UNCHANGED <<workerQ, callbackQ, startPc, todo, current, faults>>
      /\ dirty \subseteq Thread /\ MergingNow \subseteq Thread
  BY <1>0 DEF SendMerge, CommitCallback, AckCallbackMessage, TypeOK, MergingNow, queues, rows, starter
<1>2. \A w \in Worker : Checking(w)' = Checking(w)
  BY <1>1 DEF Checking
<1>3. IsFiniteSet(MergingNow) /\ IsFiniteSet(Decided)
  BY DEF MergesCounted, FinitelyMany
<1>4. /\ Cardinality(Decided) \in Nat /\ Cardinality(MergingNow) \in Nat /\ Len(mergeQ) \in Nat
      /\ faults \in Nat /\ Left \in Int
  BY LeftIsANumber DEF MergesCounted
<1>5. SUFFICES /\ IsFiniteSet(MergingNow') /\ Decided' = Decided /\ Left' = Left
               /\ \A w \in Worker : ToDo(w)' <= ToDo(w) /\ Awaited(w)' = Awaited(w)
  <2>1. FinitelyMany'
    BY <1>2, <1>3, <1>5 DEF MergesCounted, FinitelyMany
  <2>2. ASSUME NEW w \in Worker PROVE Spare'[w] <= Spare[w]
    <3>1. /\ ToDo(w)' <= ToDo(w) /\ Awaited(w)' = Awaited(w) /\ workerQ'[w] = workerQ[w]
          /\ callbackQ'[w] = callbackQ[w] /\ Cardinality(Checking(w)') = Cardinality(Checking(w))
      BY <1>1, <1>2, <1>5
    <3>2. QED
      BY <2>1, <3>1, SpareParts DEF MergesCounted
  <2>3. QED
    BY <1>1, <1>4, <1>5, <2>1, <2>2, BalancedStep
<1>6. CASE SendMerge(t)
  <2>1. PICK m : mergeQ' = Append(mergeQ, m) /\ m.processingId = ProcOf[v]
    BY <1>0, <1>6 DEF SendMerge
  <2>2. /\ cbPc[t] = "merge" /\ cbPc' = [cbPc EXCEPT ![t] = "commit"]
        /\ UNCHANGED <<state, cbMsg, dirty>>
    BY <1>6 DEF SendMerge, rows
  <2>3. MergingNow' = MergingNow \ {t} /\ t \in MergingNow
    BY <1>1, <2>2 DEF MergingNow, TypeOK
  <2>4. Merged' = Merged \cup {ProcOf[v]} /\ Len(mergeQ') = Len(mergeQ) + 1
    <3>1. mergeQ \in Seq(EchoMergeMessage)
      BY DEF TypeOK
    <3>2. /\ DOMAIN mergeQ' = DOMAIN mergeQ \cup {Len(mergeQ) + 1} /\ mergeQ'[Len(mergeQ) + 1] = m
          /\ \A i \in DOMAIN mergeQ : mergeQ'[i] = mergeQ[i]
          /\ Len(mergeQ') = Len(mergeQ) + 1
      BY <2>1, <3>1
    <3>3. QED
      BY <2>1, <3>2 DEF Merged
  <2>5. Decided' = Decided /\ ProcOf[v] \in Decided
    BY <1>0, <2>2, <2>3, <2>4 DEF Decided
  <2>6. IsFiniteSet(MergingNow \ {t}) /\ Cardinality(MergingNow \ {t}) = Cardinality(MergingNow) - 1
    BY <1>3, <2>3, FS_RemoveElement
  <2>7. Left' = Left
    BY <1>4, <2>3, <2>4, <2>5, <2>6 DEF Left
  <2>8. ASSUME NEW w \in Worker PROVE ToDo(w)' <= ToDo(w) /\ Awaited(w)' = Awaited(w)
    <3>1. w # v => Committing(w)' = Committing(w)
      BY <1>0, <1>1, <2>2 DEF Committing
    <3>2. QED
      BY <1>1, <2>2, <2>5, <3>1 DEF ToDo, Awaited
  <2>9. QED
    BY <2>3, <2>5, <2>6, <2>7, <2>8
<1>7. CASE CommitCallback(t)
  <2>1. /\ cbPc[t] = "commit" /\ cbPc' = [cbPc EXCEPT ![t] = "ack"]
        /\ dirty' = dirty \ {t} /\ UNCHANGED <<mergeQ, cbMsg>>
        /\ state' = IF t \in dirty THEN [state EXCEPT ![v] = "DONE"] ELSE state
    BY <1>0, <1>7 DEF CommitCallback, queues
  <2>2. MergingNow' = MergingNow /\ Merged' = Merged
    BY <1>1, <2>1 DEF MergingNow, Merged
  <2>3. Decided' = Decided /\ Left' = Left
    BY <2>1, <2>2 DEF Decided, Left
  <2>4. ASSUME NEW w \in Worker PROVE ToDo(w)' <= ToDo(w) /\ Awaited(w)' = Awaited(w)
    <3>1. ToDo(w)' <= ToDo(w)
      BY <1>1, <2>1 DEF ToDo, TypeOK
    <3>2. CASE w = v /\ t \in dirty
      <4>1. Committing(w) /\ state'[w] = "DONE"
        BY <1>0, <1>1, <2>1, <3>2 DEF Committing, TypeOK
      <4>2. QED
        BY <3>1, <4>1 DEF Awaited
    <3>3. CASE ~(w = v /\ t \in dirty)
      <4>1. Committing(w)' = Committing(w) /\ state'[w] = state[w]
        BY <1>0, <1>1, <2>1, <3>3 DEF Committing, TypeOK
      <4>2. QED
        BY <2>3, <3>1, <4>1 DEF Awaited
    <3>4. QED
      BY <3>2, <3>3
  <2>5. QED
    BY <1>3, <2>2, <2>3, <2>4
<1>8. CASE AckCallbackMessage(t)
  <2>1. UNCHANGED <<mergeQ, state, dirty>> /\ cbPc[t] = "ack" /\ cbPc'[t] = "idle"
    BY <1>8 DEF AckCallbackMessage, TypeOK, queues, rows
  <2>2. MergingNow' = MergingNow /\ Merged' = Merged /\ \A u \in MergingNow : cbMsg'[u] = cbMsg[u]
    BY <1>1, <2>1 DEF MergingNow, Merged
  <2>3. Decided' = Decided /\ Left' = Left
    BY <2>1, <2>2 DEF Decided, Left
  <2>4. ASSUME NEW w \in Worker PROVE ToDo(w)' = ToDo(w) /\ Awaited(w)' = Awaited(w)
    <3>1. Committing(w)' = Committing(w)
      BY <1>1, <2>1 DEF Committing
    <3>2. QED
      BY <1>1, <2>1, <2>3, <3>1 DEF ToDo, Awaited
  <2>5. ASSUME NEW w \in Worker PROVE ToDo(w) \in {0, 1}
    BY DEF ToDo
  <2>6. QED
    BY <1>3, <2>2, <2>3, <2>4, <2>5
<1>9. QED
  BY <1>6, <1>7, <1>8

\* A callback that fails is looked at once more.
LEMMA CallbackIsRequeued ==
  ASSUME TypeOK, TypeOK', IndInv, MergesCounted, NEW t \in Thread, CallbackFails(t)
  PROVE  MergesCounted'
<1>0. PICK v : v = cbMsg[t]
  OBVIOUS
<1>1. /\ v \in Worker /\ cbPc[t] # "idle" /\ cbPc'[t] = "idle" /\ faults' = faults + 1
      /\ \A u \in Thread \ {t} : cbPc'[u] = cbPc[u] /\ cbMsg'[u] = cbMsg[u]
      /\ callbackQ' = [callbackQ EXCEPT ![v] = @ + 1] /\ dirty' = dirty \ {t}
      /\ UNCHANGED <<workerQ, mergeQ, state, startPc, todo, current>>
      /\ dirty \subseteq Thread /\ MergingNow \subseteq Thread
  BY <1>0 DEF CallbackFails, TypeOK, MergingNow, rows, starter
<1>2. \A w \in Worker : Checking(w)' \subseteq Checking(w) /\ (Committing(w)' => Committing(w))
  BY <1>1 DEF Checking, Committing
<1>3. MergingNow' = MergingNow \ {t} /\ Merged' = Merged
  BY <1>1 DEF MergingNow, Merged
<1>4. Decided' \subseteq Decided
  BY <1>1, <1>3 DEF Decided
<1>5. /\ IsFiniteSet(MergingNow) /\ IsFiniteSet(Decided)
      /\ \A w \in Worker : IsFiniteSet(Checking(w)) /\ Cardinality(Checking(w)) \in Nat
  BY FS_CardinalityType DEF MergesCounted, FinitelyMany
<1>6. IsFiniteSet(Decided') /\ Cardinality(Decided') \in Nat
  BY <1>4, <1>5, FS_Subset, FS_CardinalityType
<1>7. /\ Cardinality(Decided) \in Nat /\ Cardinality(MergingNow) \in Nat /\ Len(mergeQ) \in Nat
      /\ faults \in Nat /\ Left \in Int
  BY LeftIsANumber DEF MergesCounted
<1>8. IsFiniteSet(MergingNow') /\ Left <= Left'
  <2>1. CASE t \in MergingNow
    <3>1. IsFiniteSet(MergingNow \ {t}) /\ Cardinality(MergingNow \ {t}) = Cardinality(MergingNow) - 1
      BY <1>5, <2>1, FS_RemoveElement
    <3>2. Decided \subseteq Decided' \cup {ProcOf[v]}
      BY <1>0, <1>1, <1>3 DEF Decided
    <3>3. IsFiniteSet(Decided' \cup {ProcOf[v]}) /\ Cardinality(Decided' \cup {ProcOf[v]}) <= Cardinality(Decided') + 1
      BY <1>6, OneElementMore
    <3>4. Cardinality(Decided) <= Cardinality(Decided' \cup {ProcOf[v]}) /\ Cardinality(Decided' \cup {ProcOf[v]}) \in Nat
      BY <3>2, <3>3, FS_Subset, FS_CardinalityType
    <3>5. Cardinality(Decided) <= Cardinality(Decided') + 1
      BY <1>6, <1>7, <3>3, <3>4
    <3>6. Left' = Cardinality(Decided') - Cardinality(MergingNow \ {t}) - Len(mergeQ)
      BY <1>1, <1>3 DEF Left
    <3>7. QED
      BY <1>3, <1>6, <1>7, <3>1, <3>5, <3>6 DEF Left
  <2>2. CASE t \notin MergingNow
    <3>1. MergingNow' = MergingNow /\ \A u \in MergingNow : cbMsg'[u] = cbMsg[u]
      BY <1>1, <1>3, <2>2 DEF MergingNow
    <3>2. Decided' = Decided
      BY <1>3, <3>1 DEF Decided
    <3>3. Left' = Left
      BY <1>1, <3>1, <3>2 DEF Left
    <3>4. QED
      BY <1>5, <1>7, <3>1, <3>3
  <2>3. QED
    BY <2>1, <2>2
<1>9. ASSUME NEW w \in Worker
      PROVE  /\ IsFiniteSet(Checking(w)') /\ Cardinality(Checking(w)') <= Cardinality(Checking(w))
  BY <1>2, <1>5, FS_Subset
<1>10. FinitelyMany'
  BY <1>6, <1>8, <1>9 DEF FinitelyMany
<1>11. ASSUME NEW w \in Worker PROVE ToDo(w)' = ToDo(w) /\ Awaited(w) <= Awaited(w)'
  BY <1>1, <1>2, <1>4 DEF ToDo, Awaited
<1>12. ASSUME NEW w \in Worker PROVE Spare'[w] <= Spare[w] + (IF w = v THEN 1 ELSE 0)
  <2>1. callbackQ'[w] = callbackQ[w] + (IF w = v THEN 1 ELSE 0) /\ workerQ'[w] = workerQ[w]
    BY <1>1 DEF TypeOK
  <2>2. /\ Spare[w] = workerQ[w] + callbackQ[w] + Cardinality(Checking(w)) + ToDo(w) - Awaited(w)
        /\ Spare'[w] = workerQ'[w] + callbackQ'[w] + Cardinality(Checking(w)') + ToDo(w)' - Awaited(w)'
        /\ Cardinality(Checking(w)) \in Nat /\ Cardinality(Checking(w)') \in Nat
        /\ workerQ[w] \in Nat /\ callbackQ[w] \in Nat /\ workerQ'[w] \in Nat /\ callbackQ'[w] \in Nat
        /\ ToDo(w) \in {0, 1} /\ ToDo(w)' \in {0, 1} /\ Awaited(w) \in {0, 1} /\ Awaited(w)' \in {0, 1}
    BY <1>10, SpareParts DEF MergesCounted
  <2>3. QED
    BY <1>9, <1>11, <2>1, <2>2
<1>13. Left' \in Int /\ Spare \in [Worker -> Int]
  BY <1>10, NumbersAfter, SpareType DEF MergesCounted
<1>14. Left + faults + 1 <= Left' + faults'
  <2>1. PICK k \in Int, l \in Int, n \in Nat : k = Left /\ l = Left' /\ n = faults
    BY <1>7, <1>13
  <2>2. k <= l /\ faults' = n + 1
    BY <1>1, <1>8, <2>1
  <2>3. k + n + 1 <= l + (n + 1)
    BY <2>2
  <2>4. QED
    BY <2>1, <2>2, <2>3
<1>15. Spare'[v] <= Spare[v] + 1 /\ \A w \in Worker \ {v} : Spare'[w] <= Spare[w]
  BY <1>1, <1>12, <1>13
<1>16. QED
  BY <1>1, <1>10, <1>14, <1>15, FailingStep

LEMMA MergesCountedStep ==
  ASSUME TypeOK, TypeOK', IndInv, MergesCounted, [Next]_vars PROVE MergesCounted'
<1>1. CASE UNCHANGED vars
  <2>1. UNCHANGED <<workerQ, callbackQ, mergeQ, state, startPc, todo, current, cbPc, cbMsg, dirty, faults>>
    BY <1>1 DEF vars, queues, rows, starter, callers
  <2>2. FinitelyMany' /\ Left' = Left /\ Left \in Int /\ faults \in Nat
    BY <2>1, CallersAlone, LeftIsANumber DEF MergesCounted
  <2>3. ASSUME NEW w \in Worker PROVE Spare'[w] <= Spare[w]
    <3>1. ToDo(w)' = ToDo(w)
      BY <2>1 DEF ToDo
    <3>2. QED
      BY <2>1, <3>1, SpareAlone DEF MergesCounted
  <2>4. QED
    BY <2>1, <2>2, <2>3, BalancedStep
<1>2. CASE Next
  BY <1>2, QuietSteps, DoubledWork, CallbackArrives, LookFindsMore, LookFindsAllDone, CallbackGoesOn,
     CallbackIsRequeued
     DEF Next, StartConsumer, CallbackConsumer
<1>3. QED
  BY <1>1, <1>2

LEMMA MergesCountedInit == Init => MergesCounted
<1> SUFFICES ASSUME Init PROVE MergesCounted
  OBVIOUS
<1>1. (\A w \in Worker : Checking(w) = {}) /\ MergingNow = {} /\ Merged = {} /\ Len(mergeQ) = 0 /\ faults = 0
  BY DEF Init, Checking, MergingNow, Merged
<1>2. Decided = {} /\ IsFiniteSet({}) /\ Cardinality({}) = 0
  BY <1>1, FS_EmptySet DEF Decided
<1>3. FinitelyMany /\ Left = 0
  <2>1. FinitelyMany
    BY <1>1, <1>2 DEF FinitelyMany
  <2>2. Cardinality(Decided) = 0 /\ Cardinality(MergingNow) = 0
    BY <1>1, <1>2
  <2>3. QED
    BY <1>1, <2>1, <2>2 DEF Left
<1>4. \A w \in Worker : Spare[w] = 0
  <2> SUFFICES ASSUME NEW w \in Worker PROVE Spare[w] = 0
    OBVIOUS
  <2>1. workerQ[w] = 0 /\ callbackQ[w] = 0 /\ state[w] = "ABSENT" /\ startPc = "idle" /\ ~Committing(w)
    BY DEF Init, Committing
  <2>2. ToDo(w) = 1 /\ Awaited(w) = 1
    BY <1>2, <2>1 DEF ToDo, Awaited
  <2>3. Cardinality(Checking(w)) = 0
    BY <1>1, <1>2
  <2>4. QED
    BY <2>1, <2>2, <2>3 DEF Spare, Looks
<1>5. Tokens(Worker, Spare) = {}
  BY <1>4 DEF Tokens
<1>6. QED
  BY <1>1, <1>2, <1>3, <1>5 DEF MergesCounted

\* A merge is decided for a processing that is merged or that a thread is about to merge.
LEMMA DecidedAreFew ==
  ASSUME FinitelyMany
  PROVE  IsFiniteSet(Merged) /\ Cardinality(Decided) <= Cardinality(Merged) + Cardinality(MergingNow)
<1> DEFINE S == {ProcOf[cbMsg[t]] : t \in MergingNow}
           f == [t \in MergingNow |-> ProcOf[cbMsg[t]]]
<1>1. f \in Surjection(MergingNow, S)
  BY DEF Surjection
<1>2. IsFiniteSet(MergingNow) /\ IsFiniteSet(Decided)
  BY DEF FinitelyMany
<1> HIDE DEF f
<1>3. IsFiniteSet(S) /\ Cardinality(S) <= Cardinality(MergingNow)
  BY <1>1, <1>2, FS_Surjection
<1>4. Decided = Merged \cup S /\ IsFiniteSet(Merged)
  BY <1>2, FS_Subset DEF Decided
<1> HIDE DEF S
<1>5. Cardinality(Merged \cup S) = Cardinality(Merged) + Cardinality(S) - Cardinality(Merged \cap S)
  BY <1>3, <1>4, FS_Union
<1>6. /\ Cardinality(Merged) \in Nat /\ Cardinality(S) \in Nat /\ Cardinality(MergingNow) \in Nat
      /\ Cardinality(Merged \cap S) \in Nat
  BY <1>2, <1>3, <1>4, FS_CardinalityType, FS_Subset
<1>7. QED
  BY <1>3, <1>4, <1>5, <1>6

LEMMA CountedMeansFew == TypeOK /\ MergesCounted => OneMergePerFailure
<1> SUFFICES ASSUME TypeOK, MergesCounted PROVE OneMergePerFailure
  OBVIOUS
<1>1. /\ Cardinality(Decided) \in Nat /\ Cardinality(MergingNow) \in Nat /\ Len(mergeQ) \in Nat
      /\ faults \in Nat
  BY LeftIsANumber DEF MergesCounted
<1>2. Cardinality(Merged) \in Nat /\ Cardinality(Decided) <= Cardinality(Merged) + Cardinality(MergingNow)
  BY DecidedAreFew, FS_CardinalityType DEF MergesCounted
<1>3. Cardinality(Tokens(Worker, Spare)) \in Nat
  BY FS_CardinalityType DEF MergesCounted
<1>4. Cardinality(Tokens(Worker, Spare)) <= Cardinality(Decided) - Cardinality(MergingNow) - Len(mergeQ) + faults
  BY DEF MergesCounted, Left
<1>5. QED
  BY <1>1, <1>2, <1>3, <1>4 DEF OneMergePerFailure

\* A processing is merged once, and a failure makes at most one merge message more be
\* published, for any number of processings, tiles and consumers (callbackEchoWorker).
THEOREM FewMerges == Spec => []OneMergePerFailure
<1>1. TypeOK /\ TypeOK' /\ IndInv /\ MergesCounted /\ [Next]_vars => MergesCounted'
  BY MergesCountedStep
<1>2. QED
  BY <1>1, MergesCountedInit, CountedMeansFew, Invariance, PTL DEF Spec

\* What this comes to while nothing has failed: each merge is of another processing.
MergedOnceWithoutFaults ==
  faults = 0 =>
    \A i, j \in DOMAIN mergeQ : mergeQ[i].processingId = mergeQ[j].processingId => i = j

\* Without a failure no merge is published twice, for any number of callback consumers:
\* the one thread that sees every row DONE is the last that looks (callbackEchoWorker).
THEOREM NoSecondMerge == Spec => []MergedOnceWithoutFaults
<1>1. TypeOK /\ OneMergePerFailure => MergedOnceWithoutFaults
  <2> SUFFICES ASSUME TypeOK, OneMergePerFailure, faults = 0,
                      NEW i \in DOMAIN mergeQ, NEW j \in DOMAIN mergeQ,
                      mergeQ[i].processingId = mergeQ[j].processingId
               PROVE  i = j
    BY DEF MergedOnceWithoutFaults
  <2> DEFINE f == [k \in DOMAIN mergeQ |-> mergeQ[k].processingId]
  <2>1. Len(mergeQ) \in Nat /\ DOMAIN mergeQ = 1..Len(mergeQ)
    BY DEF TypeOK
  <2>2. IsFiniteSet(DOMAIN mergeQ) /\ Cardinality(DOMAIN mergeQ) = Len(mergeQ)
    <3>1. IsFiniteSet(1..Len(mergeQ)) /\ Cardinality(1..Len(mergeQ)) = IF 1 > Len(mergeQ) THEN 0 ELSE Len(mergeQ) - 1 + 1
      BY <2>1, FS_Interval
    <3>2. Cardinality(1..Len(mergeQ)) = Len(mergeQ)
      BY <2>1, <3>1
    <3>3. QED
      BY <2>1, <3>1, <3>2
  <2>3. f \in Surjection(DOMAIN mergeQ, Merged) /\ f[i] = f[j]
    BY DEF Surjection, Merged
  <2> HIDE DEF f
  <2>4. /\ IsFiniteSet(Merged) /\ Cardinality(Merged) <= Cardinality(DOMAIN mergeQ)
        /\ Cardinality(Merged) = Cardinality(DOMAIN mergeQ) => f \in Injection(DOMAIN mergeQ, Merged)
    BY <2>2, <2>3, FS_Surjection
  <2>5. Cardinality(Merged) = Cardinality(DOMAIN mergeQ)
    BY <2>1, <2>2, <2>4, FS_CardinalityType DEF OneMergePerFailure
  <2>6. f \in Injection(DOMAIN mergeQ, Merged)
    BY <2>4, <2>5
  <2>7. QED
    BY <2>3, <2>6 DEF Injection, IsInjective
<1>2. QED
  BY <1>1, FewMerges, TypeCorrect, PTL

-----------------------------------------------------------------------------
(* Refinement. *)

\* Rows appear only in CreateWorkers, merges only in SendMerge.
LEMMA RowsAndMergesFrame ==
  TypeOK /\ IndInv /\ [Next]_vars =>
    /\ CreateWorkers \/ \A w \in Worker : state'[w] = "ABSENT" <=> state[w] = "ABSENT"
    /\ (\E t \in Thread : SendMerge(t)) \/ UNCHANGED mergeQ
    /\ (\E w \in Worker : WorkerReplies(w) \/ WorkerRepliesTwice(w)) \/ UNCHANGED tiles
    /\ (\E p \in Processing : StartEchoProcessing(p)) \/ UNCHANGED requested
<1> SUFFICES ASSUME TypeOK, IndInv, [Next]_vars
             PROVE
    /\ CreateWorkers \/ \A w \in Worker : state'[w] = "ABSENT" <=> state[w] = "ABSENT"
    /\ (\E t \in Thread : SendMerge(t)) \/ UNCHANGED mergeQ
    /\ (\E w \in Worker : WorkerReplies(w) \/ WorkerRepliesTwice(w)) \/ UNCHANGED tiles
    /\ (\E p \in Processing : StartEchoProcessing(p)) \/ UNCHANGED requested
  OBVIOUS
<1>1. CASE CommitStartedWorker
  BY <1>1 DEF CommitStartedWorker, TypeOK, IndInv, WorkHasRows, queues
<1>2. ASSUME NEW t \in Thread, CommitCallback(t)
      PROVE  /\ \A w \in Worker : state'[w] = "ABSENT" <=> state[w] = "ABSENT"
             /\ UNCHANGED <<mergeQ, tiles, requested>>
  <2>1. cbMsg[t] \in Worker /\ state[cbMsg[t]] # "ABSENT"
    BY <1>2 DEF CommitCallback, TypeOK, IndInv, WorkHasRows, CallbackFindsItsRows
  <2>2. QED
    BY <1>2, <2>1 DEF CommitCallback, TypeOK, queues
<1>3. QED
  BY <1>1, <1>2
     DEF Next, StartConsumer, CallbackConsumer, vars, queues, rows,
         StartEchoProcessing, WorkerReplies, WorkerRepliesTwice, ReceiveStartMessage,
         CreateOrchestrator, SplitEmptyGrid, CreateWorkers, StartEchoWorker,
         AckStartMessage, FindByWorkerId, CheckStates, SendMerge, AckCallbackMessage,
         StartFails, CallbackFails

\* Every step is a step of the abstract map-reduce, or leaves its variables alone.
LEMMA MapReduceStep == TypeOK /\ IndInv /\ [Next]_vars => [MR!Next]_MR!vars
<1> SUFFICES ASSUME TypeOK, IndInv, [Next]_vars PROVE [MR!Next]_MR!vars
  OBVIOUS
<1> DEFINE planned == {w \in Worker : state[w] # "ABSENT"}
           reduced == {mergeQ[i].processingId : i \in DOMAIN mergeQ}
<1>1. UNCHANGED mergeQ => UNCHANGED reduced
  OBVIOUS
<1>2. (\A w \in Worker : state'[w] = "ABSENT" <=> state[w] = "ABSENT") => UNCHANGED planned
  OBVIOUS
<1>3. ASSUME NEW p \in Processing, StartEchoProcessing(p) PROVE MR!Accept(p)
  BY <1>1, <1>2, <1>3 DEF StartEchoProcessing, rows, MR!Accept
<1>4. ASSUME NEW w \in Worker, WorkerReplies(w) \/ WorkerRepliesTwice(w) PROVE MR!Map(w)
  <2>1. w \in planned
    BY <1>4 DEF WorkerReplies, WorkerRepliesTwice, IndInv, WorkHasRows
  <2>2. UNCHANGED <<requested, mergeQ, state>> /\ tiles' = tiles \cup {w}
    BY <1>4 DEF WorkerReplies, WorkerRepliesTwice, rows
  <2>3. QED
    BY <1>1, <1>2, <2>1, <2>2 DEF MR!Map
<1>5. CASE CreateWorkers
  <2>1. UNCHANGED <<requested, mergeQ, tiles>>
    BY <1>5 DEF CreateWorkers, queues
  <2>2. CASE ExistsByProcessingId(startMsg)
    <3>1. \A w \in Worker : state'[w] = state[w]
      BY <1>5, <2>2 DEF CreateWorkers
    <3>2. QED
      BY <1>1, <1>2, <2>1, <3>1 DEF MR!vars
  <2>3. CASE ~ExistsByProcessingId(startMsg)
    <3>1. PICK p \in Processing : p = startMsg /\ p \in requested
      BY <1>5 DEF CreateWorkers, TypeOK, IndInv, WorkHasRows
    <3>2. planned \cap MR!Tiles(p) = {}
      BY <2>3, <3>1 DEF ExistsByProcessingId, WorkersOf, MR!Tiles
    <3>3. planned' = planned \cup MR!Tiles(p)
      BY <1>5, <2>3, <3>1 DEF CreateWorkers, WorkersOf, MR!Tiles
    <3>4. MR!Plan(p)
      BY <1>1, <2>1, <3>1, <3>2, <3>3 DEF MR!Plan
    <3>5. QED
      BY <3>1, <3>4 DEF MR!Next
  <2>4. QED
    BY <2>2, <2>3
<1>6. ASSUME NEW t \in Thread, SendMerge(t) PROVE \E p \in Processing : MR!Reduce(p)
  <2>1. PICK q \in Processing :
          /\ cbMsg[t] \in Worker /\ q = ProcOf[cbMsg[t]] /\ q \in requested
          /\ state[cbMsg[t]] # "ABSENT" /\ cbPc[t] = "merge"
    BY <1>6, ConstantsAssumption
       DEF SendMerge, TypeOK, IndInv, WorkHasRows, CallbackFindsItsRows
  <2>2. MR!Tiles(q) \subseteq planned \cap tiles
    BY <2>1 DEF IndInv, WorkHasRows, CallbacksHaveTiles, WorkersOf, MR!Tiles
  <2>3. UNCHANGED <<requested, state, tiles>>
    BY <1>6 DEF SendMerge, rows
  <2>4. PICK m : mergeQ' = Append(mergeQ, m) /\ m.processingId = q
    BY <1>6, <2>1 DEF SendMerge
  <2>5. reduced' = reduced \cup {q}
    <3>1. /\ DOMAIN mergeQ' = DOMAIN mergeQ \cup {Len(mergeQ) + 1}
          /\ mergeQ'[Len(mergeQ) + 1] = m
          /\ \A i \in DOMAIN mergeQ : mergeQ'[i] = mergeQ[i]
      BY <2>4 DEF TypeOK
    <3>2. QED
      BY <2>4, <3>1
  <2>6. MR!Reduce(q)
    BY <1>2, <2>1, <2>2, <2>3, <2>5 DEF MR!Reduce
  <2>7. QED
    BY <2>1, <2>6
<1>7. CASE /\ \A w \in Worker : state'[w] = "ABSENT" <=> state[w] = "ABSENT"
           /\ UNCHANGED <<mergeQ, tiles, requested>>
  BY <1>1, <1>2, <1>7 DEF MR!vars
<1>8. QED
  BY <1>3, <1>4, <1>5, <1>6, <1>7, RowsAndMergesFrame DEF MR!Next

\* EchoOrchestrator implements MapReduce under the mapping MR.
THEOREM Refinement == Spec => ImplementsMapReduce
<1>1. Init => MR!Init
  BY DEF Init, MR!Init
<1>2. QED
  BY <1>1, MapReduceStep, Invariance, PTL DEF Spec, MR!Spec, ImplementsMapReduce

-----------------------------------------------------------------------------
(* Every service keeps its own specification in the system. *)

WP == INSTANCE EchoWorkerProofs WITH
       TotalWorkers <- [w \in Worker |-> GridSize(ProcOf[w])], Unreadable <- {},
       workerQ <- workerReady, pc <- workerPc, msg <- workerMsg,
       MaxFaults <- MaxDuplicates, faults <- secondDispatches

MP == INSTANCE EchoMergerProofs WITH
       published <- {mergeQ[i] : i \in DOMAIN mergeQ},
       mergeQ <- mergeReady, pc <- mergerPc, msg <- mergerMsg,
       MaxFaults <- MaxDuplicates, faults <- secondMerges

TP == INSTANCE EchoTrackerProofs WITH
       TotalWorkers <- [p \in Processing |-> GridSize(p)], Elapsed <- {},
       finishedWorkers <- [p \in Processing |-> Cardinality(tiles \cap WorkersOf(p))],
       merged <- reported,
       MaxFaults <- MaxDuplicates, faults <- secondCallbacks

LEMMA GridSizes == \A p \in Processing : GridSize(p) \in Nat \ {0}
  BY SystemAssumption, FS_CardinalityType, FS_EmptySet DEF GridSize

LEMMA WorkerConstants == WP!WorkerAssumption
<1>1. MaxDuplicates \in Nat
  BY ConstantsAssumption DEF MaxDuplicates
<1>2. QED
  BY <1>1, GridSizes, ConstantsAssumption DEF WP!WorkerAssumption

LEMMA MergerConstants == MP!MergerAssumption
<1>1. MaxDuplicates \in Nat
  BY ConstantsAssumption DEF MaxDuplicates
<1>2. MP!EchoMergeMessage \subseteq EchoMergeMessage
  BY DEF MP!EchoMergeMessage, EchoMergeMessage
<1>3. QED
  BY <1>1, <1>2, SystemAssumption, ConstantsAssumption DEF MP!MergerAssumption

LEMMA TrackerConstants == TP!TrackerAssumption
<1>1. MaxDuplicates \in Nat
  BY ConstantsAssumption DEF MaxDuplicates
<1>2. QED
  BY <1>1, GridSizes, ConstantsAssumption DEF TP!TrackerAssumption

LEMMA WT == WP!Spec => [](WP!TypeOK /\ WP!WorkerInv)
  BY WP!WorkerInvariance, WorkerConstants
LEMMA MT == MP!Spec => [](MP!TypeOK /\ MP!MergerInv)
  BY MP!MergerInvariance, MergerConstants

LEMMA WorkerInit == SystemInit => WP!Init
  BY DEF SystemInit, W!Init, WP!Init

\* A step of the system is a step of the worker service, or leaves it alone.
LEMMA WorkerStep == [SystemNext]_systemVars => [WP!Next]_WP!vars
<1> USE DEF WP!vars, WP!consumers
<1>1. ASSUME NEW w \in Worker, WorkerMessage(w) PROVE WP!Next
  <2>1. WP!Dispatch(w) \/ WP!DispatchAgain(w)
    BY <1>1 DEF WorkerMessage, W!Dispatch, W!DispatchAgain, WP!Dispatch, WP!DispatchAgain, W!consumers
  <2>2. QED
    BY <2>1 DEF WP!Next
<1>2. ASSUME NEW t \in Thread, WorkerCallback(t) PROVE WP!Next
  <2>1. WP!SendCallback(t)
    BY <1>2 DEF WorkerCallback, W!SendCallback, WP!SendCallback, W!Goto, WP!Goto
  <2>2. QED
    BY <2>1 DEF WP!Next, WP!Consumer
<1>3. ASSUME NEW t \in Thread, NEW w \in Worker, W!ReceiveMessage(t, w) PROVE WP!Next
  <2>1. WP!ReceiveMessage(t, w)
    BY <1>3 DEF W!ReceiveMessage, WP!ReceiveMessage, W!Goto, WP!Goto, W!SetContext, WP!SetContext
  <2>2. QED
    BY <2>1 DEF WP!Next
<1>4. ASSUME NEW t \in Thread,
             W!ExistAndIsValid(t) \/ W!CreateTile(t) \/ W!WarpTile(t) \/ W!Ack(t)
      PROVE  WP!Next
  <2>1. WP!ExistAndIsValid(t) \/ WP!CreateTile(t) \/ WP!WarpTile(t) \/ WP!Ack(t)
    BY <1>4
       DEF W!ExistAndIsValid, WP!ExistAndIsValid, W!CreateTile, WP!CreateTile, W!WarpTile,
           WP!WarpTile, W!Ack, WP!Ack, W!Goto, WP!Goto, W!Opens, WP!Opens, W!DoesNotOpen,
           WP!DoesNotOpen, W!BeingWritten, WP!BeingWritten
  <2>2. QED
    BY <2>1 DEF WP!Next, WP!Consumer
<1>5. CASE UNCHANGED workerVars
  BY <1>5 DEF workerVars
<1>6. QED
  BY <1>1, <1>2, <1>3, <1>4, <1>5
     DEF SystemNext, StartMessage, MergeMessage, MergeCallback, Orchestrates, MakesTiles,
         TakesMerge, Merges, Tracks, systemVars

LEMMA SystemWorker == SystemSpec => WP!Spec
  BY WorkerInit, WorkerStep, PTL DEF SystemSpec, WP!Spec

\* A step of the system is a step of the orchestrator, or leaves it alone.
LEMMA OrchestratorStep == WP!TypeOK /\ [SystemNext]_systemVars => [Next]_vars
<1> SUFFICES ASSUME WP!TypeOK, [SystemNext]_systemVars PROVE [Next]_vars
  OBVIOUS
<1>1. ASSUME NEW p \in Processing, StartMessage(p) PROVE Next
  BY <1>1 DEF StartMessage, Next
<1>2. ASSUME NEW w \in Worker, WorkerMessage(w) PROVE Next
  BY <1>2 DEF WorkerMessage, Next, StartConsumer
<1>3. ASSUME NEW t \in Thread, MergeMessage(t) PROVE Next
  BY <1>3 DEF MergeMessage, Next, CallbackConsumer
<1>4. ASSUME NEW t \in Thread, WorkerCallback(t) PROVE Next
  <2>1. workerMsg[t] \in Worker /\ WorkerReplies(workerMsg[t])
    BY <1>4 DEF WorkerCallback, WP!TypeOK
  <2>2. QED
    BY <2>1 DEF Next
<1>5. CASE Orchestrates
  BY <1>5 DEF Orchestrates, Next, StartConsumer, CallbackConsumer
<1>6. CASE UNCHANGED vars
  BY <1>6
<1>7. QED
  BY <1>1, <1>2, <1>3, <1>4, <1>5, <1>6
     DEF SystemNext, MergeCallback, MakesTiles, TakesMerge, Merges, Tracks, systemVars

LEMMA SystemOrchestrator == SystemSpec => Spec
<1>1. SystemInit => Init
  BY DEF SystemInit
<1>2. QED
  BY <1>1, OrchestratorStep, SystemWorker, WT, PTL DEF SystemSpec, Spec

LEMMA SystemInvariance == SystemSpec => [](TypeOK /\ IndInv /\ WP!TypeOK /\ WP!WorkerInv)
  BY SystemWorker, SystemOrchestrator, WT, Invariance, PTL

LEMMA MergerInit == SystemInit => MP!Init
  BY DEF SystemInit, Init, M!Init, MP!Init, M!EchoMergeMessage, MP!EchoMergeMessage,
         M!WorkersOf, MP!WorkersOf

\* What callbackEchoWorker publishes is a message the merger takes: its list is not empty.
LEMMA PublishedMessage ==
  ASSUME TypeOK, IndInv, NEW t \in Thread, SendMerge(t)
  PROVE  \E m \in MP!EchoMergeMessage :
           /\ mergeQ' = Append(mergeQ, m) /\ mergeQ'[Len(mergeQ')] = m
           /\ m.processingId = ProcOf[cbMsg[t]]
           /\ m.tileURLs \subseteq tileURL \cup {cbMsg[t]}
<1> DEFINE p == ProcOf[cbMsg[t]]
           urls == {w \in FindByProcessingId(p) : w \in tileURL \/ w = cbMsg[t]}
           m == [processingId |-> p, tileURLs |-> urls]
<1>1. cbMsg[t] \in Worker /\ p \in Processing /\ mergeQ \in Seq(EchoMergeMessage)
  BY ConstantsAssumption DEF SendMerge, TypeOK
<1>2. state[cbMsg[t]] # "ABSENT"
  BY <1>1 DEF IndInv, WorkHasRows, CallbackFindsItsRows
<1>3. urls # {} /\ urls \subseteq WorkersOf(p) /\ urls \subseteq Worker
  BY <1>1, <1>2 DEF FindByProcessingId, WorkersOf
<1>4. mergeQ' = Append(mergeQ, m)
  BY DEF SendMerge
<1>5. urls \subseteq tileURL \cup {cbMsg[t]}
  OBVIOUS
<1> HIDE DEF urls
<1>6. m \in MP!EchoMergeMessage /\ m \in EchoMergeMessage
  BY <1>1, <1>3 DEF MP!EchoMergeMessage, MP!WorkersOf, WorkersOf, EchoMergeMessage
<1> HIDE DEF m
<1>7. mergeQ'[Len(mergeQ')] = m
  BY <1>1, <1>4, <1>6
<1>8. m.processingId = p /\ m.tileURLs = urls
  BY DEF m
<1>9. QED
  BY <1>4, <1>5, <1>6, <1>7, <1>8

\* The other steps of the orchestrator publish no merge.
LEMMA NoMergePublished ==
  ASSUME [SystemNext]_systemVars, \A t \in Thread : ~MergeMessage(t)
  PROVE  UNCHANGED mergeQ
  BY DEF SystemNext, StartMessage, WorkerMessage, WorkerCallback, MergeCallback, Orchestrates,
         MakesTiles, TakesMerge, Merges, Tracks, systemVars, vars, queues, StartEchoProcessing,
         StartEchoWorker, WorkerReplies, ReceiveStartMessage, CreateOrchestrator, CreateWorkers,
         CommitStartedWorker, AckStartMessage, FindByWorkerId, CheckStates, CommitCallback,
         AckCallbackMessage, CallbackFails, StartFails

\* A step of the system is a step of the merger, or leaves it alone.
LEMMA MergerStep ==
  ASSUME TypeOK, IndInv, [SystemNext]_systemVars PROVE [MP!Next]_MP!vars
<1> USE DEF MP!consumers
<1>0. MP!EchoMergeMessage = M!EchoMergeMessage
  BY DEF M!EchoMergeMessage, MP!EchoMergeMessage, M!WorkersOf, MP!WorkersOf
<1>1. ASSUME NEW t \in Thread, MergeMessage(t) PROVE MP!Next
  <2>1. PICK m \in MP!EchoMergeMessage : mergeQ' = Append(mergeQ, m) /\ mergeQ'[Len(mergeQ')] = m
    BY <1>1, PublishedMessage DEF MergeMessage
  <2>3. MP!SendMerge(m) \/ MP!SendMergeAgain(m)
    BY <1>1, <2>1
       DEF MergeMessage, M!SendMerge, MP!SendMerge, M!SendMergeAgain, MP!SendMergeAgain, M!Publish, MP!Publish,
           M!Merging, MP!Merging, M!consumers
  <2>4. QED
    BY <2>3 DEF MP!Next
<1>2. ASSUME \A t \in Thread : ~MergeMessage(t) PROVE [MP!Next]_MP!vars
  <2>0. UNCHANGED mergeQ
    BY <1>2, NoMergePublished
  <2>1. {mergeQ[i] : i \in DOMAIN mergeQ}' = {mergeQ[i] : i \in DOMAIN mergeQ}
    BY <2>0
  <2>2. ASSUME NEW t \in Thread, MergeCallback(t) PROVE MP!Next
    <3>1. MP!SendCallback(t)
      BY <2>1, <2>2 DEF MergeCallback, M!SendCallback, MP!SendCallback, M!Goto, MP!Goto
    <3>2. QED
      BY <3>1 DEF MP!Next, MP!Consumer
  <2>3. ASSUME NEW m \in M!EchoMergeMessage, TakesMerge(m) PROVE MP!Next
    <3>1. PICK t \in Thread : M!ReceiveMessage(t, m)
      BY <2>3 DEF TakesMerge
    <3>2. MP!ReceiveMessage(t, m)
      BY <2>1, <3>1 DEF M!ReceiveMessage, MP!ReceiveMessage, M!Goto, MP!Goto
    <3>3. QED
      BY <1>0, <3>2 DEF MP!Next
  <2>4. CASE Merges
    <3>1. PICK t \in Thread : M!ExistAndIsValid(t) \/ M!CreateVRT(t) \/ M!CreateVRTFails(t) \/ M!Ack(t)
      BY <2>4 DEF Merges
    <3>2. MP!ExistAndIsValid(t) \/ MP!CreateVRT(t) \/ MP!CreateVRTFails(t) \/ MP!Ack(t)
      BY <2>1, <3>1
         DEF M!ExistAndIsValid, MP!ExistAndIsValid, M!CreateVRT, MP!CreateVRT, M!CreateVRTFails,
             MP!CreateVRTFails, M!Ack, MP!Ack, M!Goto, MP!Goto, M!Requeue, MP!Requeue, M!Whole,
             MP!Whole, M!WorkersOf, MP!WorkersOf
    <3>3. QED
      BY <3>2 DEF MP!Next, MP!Consumer
  <2>5. CASE UNCHANGED mergerVars
    BY <2>1, <2>5 DEF mergerVars, MP!vars
  <2>6. QED
    BY <1>2, <2>2, <2>3, <2>4, <2>5
       DEF SystemNext, StartMessage, WorkerMessage, WorkerCallback, Orchestrates, MakesTiles,
           Tracks, systemVars
<1>3. QED
  BY <1>1, <1>2

LEMMA SystemMerger == SystemSpec => MP!Spec
<1>1. TypeOK /\ IndInv /\ [SystemNext]_systemVars => [MP!Next]_MP!vars
  BY MergerStep
<1>2. QED
  BY <1>1, MergerInit, SystemInvariance, PTL DEF SystemSpec, MP!Spec

LEMMA TrackerInit == SystemInit => TP!Init
<1>1. SystemInit => \A p \in Processing : Cardinality(tiles \cap WorkersOf(p)) = 0
  BY FS_EmptySet DEF SystemInit, Init
<1>2. QED
  BY <1>1 DEF SystemInit, Init, T!Init, TP!Init, T!Queue, TP!Queue

\* A step of the system is a step of the tracker, or leaves it alone.
LEMMA TrackerStep ==
  ASSUME WP!TypeOK, MP!TypeOK, [SystemNext]_systemVars PROVE [TP!Next]_TP!vars
<1> USE DEF TP!vars, TP!row, TP!services
<1>1. ASSUME NEW p \in Processing, StartMessage(p) PROVE TP!Next
  <2>1. TP!PublishStart(p)
    BY <1>1 DEF StartMessage, T!PublishStart, TP!PublishStart, T!Publish, TP!Publish, T!row
  <2>2. QED
    BY <2>1 DEF TP!Next, TP!Publisher
<1>2. ASSUME NEW p \in Processing, T!PublishWorkerCallback(p) \/ T!PublishMergeCallback(p) \/ T!PublishAgain(p)
      PROVE  TP!Next
  <2>1. TP!PublishWorkerCallback(p) \/ TP!PublishMergeCallback(p) \/ TP!PublishAgain(p)
    BY <1>2
       DEF T!PublishWorkerCallback, TP!PublishWorkerCallback, T!PublishMergeCallback,
           TP!PublishMergeCallback, T!PublishAgain, TP!PublishAgain, T!Publish, TP!Publish, T!row,
           T!services
  <2>2. QED
    BY <2>1 DEF TP!Next, TP!Publisher
<1>3. ASSUME NEW t \in Thread, WorkerCallback(t) PROVE TP!Next
  <2>1. workerMsg[t] \in Worker /\ ProcOf[workerMsg[t]] \in Processing
    BY <1>3, ConstantsAssumption DEF WorkerCallback, WP!TypeOK
  <2>2. T!PublishWorkerCallback(ProcOf[workerMsg[t]]) \/ T!PublishAgain(ProcOf[workerMsg[t]])
    BY <1>3 DEF WorkerCallback
  <2>3. QED
    BY <1>2, <2>1, <2>2
<1>4. ASSUME NEW t \in Thread, MergeCallback(t) PROVE TP!Next
  <2>1. mergerMsg[t].processingId \in Processing
    BY <1>4, MP!MessageParts, MergerConstants DEF MergeCallback, MP!TypeOK
  <2>2. T!PublishMergeCallback(mergerMsg[t].processingId) \/ T!PublishAgain(mergerMsg[t].processingId)
    BY <1>4 DEF MergeCallback
  <2>3. QED
    BY <1>2, <2>1, <2>2
<1>5. ASSUME NEW p \in Processing, Tracks(T!StartProcessing(p)) \/ Tracks(T!CallbackHandler(p))
      PROVE  TP!Next
  <2>1. CASE T!StartProcessing(p)
    <3>1. TP!StartProcessing(p)
      BY <2>1 DEF T!StartProcessing, TP!StartProcessing, T!Receive, TP!Receive, T!services
    <3>2. QED
      BY <3>1 DEF TP!Next
  <2>2. CASE T!UpdateProcessingWhenWorkerFinished(p)
    <3>1. TP!UpdateProcessingWhenWorkerFinished(p)
      BY <2>2
         DEF T!UpdateProcessingWhenWorkerFinished, TP!UpdateProcessingWhenWorkerFinished,
             T!Receive, TP!Receive, T!DeltaProgress, TP!DeltaProgress, T!DeltaMaxProgress,
             TP!DeltaMaxProgress, T!services
    <3>2. QED
      BY <3>1 DEF TP!Next, TP!CallbackHandler
  <2>3. CASE T!FinishProcessing(p)
    <3>1. TP!FinishProcessing(p)
      BY <2>3
         DEF T!FinishProcessing, TP!FinishProcessing, T!Receive, TP!Receive, T!Complete,
             TP!Complete, T!services
    <3>2. QED
      BY <3>1 DEF TP!Next, TP!CallbackHandler
  <2>4. QED
    BY <1>5, <2>1, <2>2, <2>3 DEF Tracks, T!CallbackHandler
<1>6. ASSUME NEW q \in T!Queue, Tracks(T!Ack(q)) PROVE TP!Next
  <2>1. q \in TP!Queue /\ TP!Ack(q)
    BY <1>6 DEF Tracks, T!Queue, TP!Queue, T!Ack, TP!Ack, T!row, T!services
  <2>2. QED
    BY <2>1 DEF TP!Next
<1>7. CASE UNCHANGED <<trackerVars, requested, tiles, reported>>
  BY <1>7 DEF trackerVars
<1>8. CASE UNCHANGED trackerVars /\ (\E w \in Worker : WorkerMessage(w)) 
  BY <1>7, <1>8 DEF WorkerMessage, StartEchoWorker, mergerVars
<1>9. CASE UNCHANGED trackerVars /\ (\E t \in Thread : MergeMessage(t))
  BY <1>7, <1>9 DEF MergeMessage, SendMerge, M!SendMerge, M!SendMergeAgain, M!Publish
<1>10. CASE Orchestrates
  BY <1>7, <1>10
     DEF Orchestrates, mergerVars, ReceiveStartMessage, CreateOrchestrator, CreateWorkers,
         CommitStartedWorker, AckStartMessage, FindByWorkerId, CheckStates, CommitCallback,
         AckCallbackMessage, CallbackFails, StartFails
<1>11. CASE MakesTiles \/ Merges \/ \E m \in M!EchoMergeMessage : TakesMerge(m)
  BY <1>7, <1>11
     DEF MakesTiles, Merges, TakesMerge, mergerVars, vars, M!ExistAndIsValid, M!CreateVRT,
         M!CreateVRTFails, M!Ack, M!ReceiveMessage
<1>12. CASE UNCHANGED systemVars
  BY <1>7, <1>12 DEF systemVars, vars, mergerVars
<1>13. QED
  BY <1>1, <1>3, <1>4, <1>5, <1>6, <1>8, <1>9, <1>10, <1>11, <1>12
     DEF SystemNext, WorkerMessage, MergeMessage

LEMMA SystemTracker == SystemSpec => TP!Spec
<1>1. WP!TypeOK /\ MP!TypeOK /\ [SystemNext]_systemVars => [TP!Next]_TP!vars
  BY TrackerStep
<1>2. QED
  BY <1>1, TrackerInit, SystemInvariance, SystemMerger, MT, PTL DEF SystemSpec, TP!Spec

LEMMA TrackerFacts == SystemSpec => [](TP!TypeOK /\ TP!ProgressIsEarned)
<1>1. TP!Spec => []TP!TypeOK
  BY TP!TrackerTypeCorrect, TrackerConstants
<1>2. TP!Spec => []TP!ProgressIsEarned
  BY TP!ShownIsEarned, TrackerConstants
<1>3. QED
  BY <1>1, <1>2, SystemTracker, PTL

\* In the system every service behaves as its own module specifies it: nothing the others do
\* with the shared queues is a step that its environment could not make.
THEOREM ServicesKeepTheirSpecs == SystemSpec => Spec /\ WP!Spec /\ MP!Spec /\ TP!Spec
  BY SystemOrchestrator, SystemWorker, SystemMerger, SystemTracker

\* So the invariants of the services hold together.
LEMMA SystemFacts ==
  SystemSpec => [](/\ TypeOK /\ IndInv
                   /\ WP!TypeOK /\ WP!WorkerInv /\ MP!TypeOK /\ MP!MergerInv)
  BY SystemInvariance, SystemMerger, MT, PTL

LEMMA TimesMonotone ==
  ASSUME NEW a \in Nat, NEW b \in Nat, a >= b, NEW n \in Nat PROVE a * n >= b * n
<1>1. PICK d \in Nat : a = b + d
  <2>1. a - b \in Nat /\ a = b + (a - b)
    OBVIOUS
  <2>2. QED
    BY <2>1
<1>2. (b + d) * n = b * n + d * n /\ d * n >= 0 /\ b * n \in Int /\ d * n \in Int
  OBVIOUS
<1>3. QED
  BY <1>1, <1>2

LEMMA TilesOfGrid ==
  ASSUME NEW p \in Processing
  PROVE  /\ Cardinality(tiles \cap WorkersOf(p)) \in Nat
         /\ Cardinality(tiles \cap WorkersOf(p)) <= GridSize(p)
  BY SystemAssumption, FS_Subset, FS_CardinalityType DEF GridSize

\* Nothing is shown complete before its result is there: what the tracker counts are the tiles
\* of the orchestrator, and what it takes as merged has a result at the merger.
THEOREM CompleteMeansResult == SystemSpec => []ShownCompleteHasResult
<1>1. TP!TypeOK /\ TP!ProgressIsEarned /\ MP!MergerInv => ShownCompleteHasResult
  <2> SUFFICES ASSUME TP!TypeOK, TP!ProgressIsEarned, MP!MergerInv, secondCallbacks = 0,
                      NEW p \in Processing, progress[p] >= T!Complete
               PROVE  result[p] # {}
    BY DEF ShownCompleteHasResult
  <2> DEFINE n == GridSize(p)
             k == Cardinality(tiles \cap WorkersOf(p))
  <2>1. n \in Nat \ {0} /\ k \in Nat /\ k <= n /\ progress[p] \in Nat /\ progress[p] >= 10000
    BY GridSizes, TilesOfGrid DEF TP!TypeOK, T!Complete
  <2>2. progress[p] * n <= 9000 * k + (IF p \in reported THEN TP!Complete * n ELSE 0)
    BY DEF TP!ProgressIsEarned
  <2> HIDE DEF n, k
  <2>3. progress[p] * n >= 10000 * n
    BY <2>1, TimesMonotone
  <2>4. p \in reported
    <3> SUFFICES ASSUME p \notin reported PROVE FALSE
      OBVIOUS
    <3>1. progress[p] * n <= 9000 * k /\ progress[p] * n \in Int
      BY <2>1, <2>2
    <3>2. QED
      BY <2>1, <2>3, <3>1
  <2>5. QED
    BY <2>4 DEF MP!MergerInv, MP!ResultsHaveMessages
<1>2. QED
  BY <1>1, TrackerFacts, SystemFacts, PTL

\* The same where all services run: with one consumer of callbacks a processing whose rows are
\* all DONE has its merge published.
THEOREM OneConsumerMergesAll ==
  ASSUME NEW t, Thread = {t}
  PROVE  SystemSpec => []AllDoneIsMerged
  BY SystemOrchestrator, OneConsumerNeverMissesMerge, PTL

-----------------------------------------------------------------------------
(* One consumer per queue: what a result is made of. *)

\* With one consumer of worker messages a file is complete or absent, but for the one it is
\* writing, and a tile is reported when its file is complete.
FilesAreWhole ==
  /\ \A w \in Worker :
       \/ file[w] \in {"absent", "complete"}
       \/ file[w] = "partial" /\ \E t \in Thread : workerPc[t] = "warp" /\ workerMsg[t] = w
  /\ \A t \in Thread : workerPc[t] = "create" => file[workerMsg[t]] = "absent"
  /\ \A t \in Thread : workerPc[t] = "warp" => file[workerMsg[t]] = "partial"
  /\ \A t \in Thread : workerPc[t] = "callback" => file[workerMsg[t]] = "complete"
  /\ \A w \in tiles : file[w] = "complete"

\* The lists of merge messages name tiles that are made.
ListsAreMade == \A i \in DOMAIN mergeQ : mergeQ[i].tileURLs \subseteq tiles

LEMMA FilesAreWholeStep ==
  ASSUME NEW t, Thread = {t}, WP!TypeOK, FilesAreWhole, [SystemNext]_systemVars
  PROVE  FilesAreWhole'
<1> USE DEF FilesAreWhole, W!Goto
<1>0. /\ workerPc \in [Thread -> WP!Pc] /\ file \in [Worker -> WP!File]
      /\ workerPc[t] # "idle" => workerMsg[t] \in Worker
      /\ workerMsg \in [Thread -> Worker \cup {NoWorker}]
  BY DEF WP!TypeOK
<1>1. CASE W!ExistAndIsValid(t) /\ UNCHANGED tiles
  <2>1. /\ workerPc[t] = "check" /\ UNCHANGED <<tiles, file, workerMsg>>
        /\ \/ file[workerMsg[t]] # "absent" /\ workerPc' = [workerPc EXCEPT ![t] = "callback"]
           \/ file[workerMsg[t]] # "complete" /\ workerPc' = [workerPc EXCEPT ![t] = "create"]
    BY <1>1 DEF W!ExistAndIsValid, W!Opens, W!DoesNotOpen
  <2>2. workerMsg[t] \in Worker /\ \A w \in Worker : file[w] \in {"absent", "complete"}
    BY <1>0, <2>1
  <2>3. QED
    BY <1>0, <2>1, <2>2
<1>2. CASE W!CreateTile(t) /\ UNCHANGED tiles
  <2>1. /\ workerPc[t] = "create" /\ UNCHANGED <<tiles, workerMsg>>
        /\ file' = [file EXCEPT ![workerMsg[t]] = "partial"]
        /\ workerPc' = [workerPc EXCEPT ![t] = "warp"]
    BY <1>2, <1>0 DEF W!CreateTile, W!BeingWritten
  <2>2. QED
    BY <1>0, <2>1
<1>3. CASE W!WarpTile(t) /\ UNCHANGED tiles
  <2>1. /\ workerPc[t] = "warp" /\ UNCHANGED <<tiles, workerMsg>>
        /\ file' = [file EXCEPT ![workerMsg[t]] = "complete"]
        /\ workerPc' = [workerPc EXCEPT ![t] = "callback"]
    BY <1>3, <1>0 DEF W!WarpTile
  <2>2. QED
    BY <1>0, <2>1
<1>4. CASE W!Ack(t) /\ UNCHANGED tiles
  BY <1>0, <1>4 DEF W!Ack
<1>5. ASSUME NEW w \in Worker, W!ReceiveMessage(t, w) /\ UNCHANGED tiles PROVE FilesAreWhole'
  BY <1>0, <1>5 DEF W!ReceiveMessage
<1>6. CASE WorkerCallback(t)
  <2>1. /\ workerPc[t] = "callback" /\ UNCHANGED <<file, workerMsg>>
        /\ workerPc' = [workerPc EXCEPT ![t] = "ack"]
        /\ tiles' = tiles \cup {workerMsg[t]}
    BY <1>6 DEF WorkerCallback, WorkerReplies, W!SendCallback
  <2>2. QED
    BY <1>0, <2>1
<1>7. CASE UNCHANGED <<file, workerPc, workerMsg, tiles>>
  BY <1>7
<1>8. ASSUME NEW w \in Worker, WorkerMessage(w) PROVE UNCHANGED <<file, workerPc, workerMsg, tiles>>
  BY <1>8 DEF WorkerMessage, StartEchoWorker, W!Dispatch, W!DispatchAgain, W!consumers
<1>9. ASSUME NEW u \in Thread, MergeMessage(u) PROVE UNCHANGED <<file, workerPc, workerMsg, tiles>>
  BY <1>9 DEF MergeMessage, SendMerge, workerVars
<1>10. ASSUME NEW p \in Processing, StartMessage(p) PROVE UNCHANGED <<file, workerPc, workerMsg, tiles>>
  BY <1>10 DEF StartMessage, StartEchoProcessing, workerVars
<1>11. CASE Orchestrates
  BY <1>7, <1>11
     DEF Orchestrates, workerVars, ReceiveStartMessage, CreateOrchestrator, CreateWorkers,
         CommitStartedWorker, AckStartMessage, FindByWorkerId, CheckStates, CommitCallback,
         AckCallbackMessage, CallbackFails, StartFails
<1>12. QED
  BY <1>1, <1>2, <1>3, <1>4, <1>5, <1>6, <1>7, <1>8, <1>9, <1>10, <1>11
     DEF SystemNext, MergeCallback, MakesTiles, TakesMerge, Merges, Tracks, systemVars, vars,
         workerVars

LEMMA ListsAreMadeStep ==
  ASSUME TypeOK, IndInv, ListsAreMade, WP!TypeOK, [SystemNext]_systemVars
  PROVE  ListsAreMade'
<1>1. tiles \subseteq tiles'
  <2>1. [Next]_vars
    BY OrchestratorStep
  <2>2. QED
    BY <2>1
       DEF Next, StartConsumer, CallbackConsumer, vars, StartEchoProcessing, WorkerReplies,
           WorkerRepliesTwice, ReceiveStartMessage, CreateOrchestrator, SplitEmptyGrid,
           CreateWorkers, StartEchoWorker, CommitStartedWorker, AckStartMessage, FindByWorkerId,
           CheckStates, SendMerge, CommitCallback, AckCallbackMessage, StartFails, CallbackFails
<1>2. ASSUME NEW t \in Thread, MergeMessage(t) PROVE ListsAreMade'
  <2>1. PICK m \in MP!EchoMergeMessage :
          mergeQ' = Append(mergeQ, m) /\ m.tileURLs \subseteq tileURL \cup {cbMsg[t]}
    BY <1>2, PublishedMessage DEF MergeMessage
  <2>2. tileURL \cup {cbMsg[t]} \subseteq tiles
    BY <1>2 DEF MergeMessage, SendMerge, TypeOK, IndInv, DoneHasTile, CallbacksHaveTiles
  <2>3. mergeQ \in Seq(EchoMergeMessage) /\ m \in EchoMergeMessage
    BY DEF TypeOK, MP!EchoMergeMessage, EchoMergeMessage
  <2>4. \A i \in DOMAIN mergeQ' : mergeQ'[i] = m \/ (i \in DOMAIN mergeQ /\ mergeQ'[i] = mergeQ[i])
    BY <2>1, <2>3
  <2>5. QED
    BY <1>1, <2>1, <2>2, <2>4 DEF ListsAreMade
<1>3. ASSUME \A t \in Thread : ~MergeMessage(t) PROVE ListsAreMade'
  BY <1>1, <1>3, NoMergePublished DEF ListsAreMade
<1>4. QED
  BY <1>2, <1>3

\* With one consumer per queue a result is made of finished tiles only, whatever fails at the
\* orchestrator and is published again.
THEOREM ResultsHaveCompleteTiles ==
  ASSUME NEW t, Thread = {t}
  PROVE  SystemSpec => []ResultHasCompleteTiles
<1>1. SystemInit => FilesAreWhole /\ ListsAreMade
  BY DEF SystemInit, Init, W!Init, FilesAreWhole, ListsAreMade
<1>2. TypeOK /\ IndInv /\ WP!TypeOK /\ FilesAreWhole /\ ListsAreMade /\ [SystemNext]_systemVars
        => FilesAreWhole' /\ ListsAreMade'
  BY FilesAreWholeStep, ListsAreMadeStep
<1>3. MP!TypeOK /\ MP!MergerInv /\ FilesAreWhole /\ ListsAreMade => ResultHasCompleteTiles
  <2> SUFFICES ASSUME MP!TypeOK, MP!MergerInv, FilesAreWhole, ListsAreMade,
                      NEW p \in Processing, NEW w \in result[p]
               PROVE  file[w] = "complete"
    BY DEF ResultHasCompleteTiles
  <2>1. PICK i \in DOMAIN mergeQ : mergeQ[i].tileURLs = result[p]
    BY DEF MP!MergerInv, MP!ResultsHaveMessages
  <2>2. w \in tiles
    BY <2>1 DEF ListsAreMade
  <2>3. QED
    BY <2>2 DEF FilesAreWhole
<1>4. QED
  BY <1>1, <1>2, <1>3, SystemFacts, PTL DEF SystemSpec

-----------------------------------------------------------------------------
(* What the services take for granted of each other. *)

\* The worker consumers that have a message of w and have not answered it.
Holding(w) == {t \in Thread : workerMsg[t] = w /\ workerPc[t] # "ack"}

\* What the orchestrator takes as unanswered is in the queue or in the hands of a consumer.
UnansweredIsThere ==
  \A w \in Worker :
    IsFiniteSet(Holding(w)) /\ workerQ[w] = workerReady[w] + Cardinality(Holding(w))

\* The steps of the orchestrator that publish nothing the others take.
LEMMA OrchestratesAlone ==
  Orchestrates =>
    UNCHANGED <<requested, workerQ, mergeQ, tiles, workerVars, mergerVars, trackerVars>>
BY DEF Orchestrates, ReceiveStartMessage, CreateOrchestrator, CreateWorkers, CommitStartedWorker,
       AckStartMessage, FindByWorkerId, CheckStates, CommitCallback, AckCallbackMessage,
       CallbackFails, StartFails, queues

LEMMA UnansweredStep ==
  ASSUME TypeOK, WP!TypeOK, WP!WorkerInv, UnansweredIsThere, [SystemNext]_systemVars
  PROVE  UnansweredIsThere'
<1>0. /\ workerQ \in [Worker -> Nat] /\ workerReady \in [Worker -> Nat]
      /\ workerPc \in [Thread -> WP!Pc] /\ workerMsg \in [Thread -> Worker \cup {NoWorker}]
      /\ \A t \in Thread : workerPc[t] # "idle" => workerMsg[t] \in Worker
      /\ \A t \in Thread : workerPc[t] = "idle" => workerMsg[t] = NoWorker
  BY DEF TypeOK, WP!TypeOK, WP!WorkerInv, WP!ConsumerState
<1> SUFFICES ASSUME NEW v \in Worker
             PROVE  /\ IsFiniteSet(Holding(v)')
                    /\ workerQ'[v] = workerReady'[v] + Cardinality(Holding(v)')
  BY DEF UnansweredIsThere
<1> DEFINE C == Cardinality(Holding(v))
           Fits == /\ IsFiniteSet(Holding(v)')
                   /\ workerQ'[v] = workerReady'[v] + Cardinality(Holding(v)')
<1>1. /\ IsFiniteSet(Holding(v)) /\ workerQ[v] = workerReady[v] + C
      /\ C \in Nat /\ workerQ[v] \in Nat /\ workerReady[v] \in Nat
  BY <1>0, FS_CardinalityType DEF UnansweredIsThere
<1>2. ASSUME UNCHANGED <<workerPc, workerMsg>>,
             workerQ'[v] - workerQ[v] = workerReady'[v] - workerReady[v],
             workerQ'[v] \in Nat, workerReady'[v] \in Nat
      PROVE  Fits
  <2>1. Holding(v)' = Holding(v)
    BY <1>2 DEF Holding
  <2>2. Cardinality(Holding(v)') = C
    BY <2>1
  <2>3. QED
    BY <1>1, <1>2, <2>1, <2>2
<1>3. CASE UNCHANGED <<workerQ, workerReady, workerPc, workerMsg>>
  BY <1>1, <1>2, <1>3
<1>4. ASSUME NEW w \in Worker, WorkerMessage(w) PROVE Fits
  <2>1. /\ UNCHANGED <<workerPc, workerMsg>>
        /\ workerQ' = [workerQ EXCEPT ![w] = @ + 1]
        /\ workerReady' = [workerReady EXCEPT ![w] = @ + 1]
    BY <1>4 DEF WorkerMessage, StartEchoWorker, W!Dispatch, W!DispatchAgain, W!consumers
  <2>2. QED
    BY <1>0, <1>1, <1>2, <2>1
<1>5. ASSUME NEW t \in Thread, WorkerCallback(t) PROVE Fits
  <2>1. PICK w \in Worker : w = workerMsg[t]
    BY <1>0, <1>5 DEF WorkerCallback
  <2>2. /\ workerPc[t] = "callback" /\ UNCHANGED <<workerReady, workerMsg>>
        /\ workerPc' = [workerPc EXCEPT ![t] = "ack"]
        /\ workerQ' = [workerQ EXCEPT ![w] = @ - 1]
    BY <1>5, <2>1 DEF WorkerCallback, WorkerReplies, W!SendCallback, W!Goto
  <2>3. CASE v # w
    <3>1. Holding(v)' = Holding(v) /\ workerQ'[v] = workerQ[v]
      BY <1>0, <2>1, <2>2, <2>3 DEF Holding
    <3>2. Cardinality(Holding(v)') = C
      BY <3>1
    <3>3. QED
      BY <1>1, <2>2, <3>1, <3>2
  <2>4. CASE v = w
    <3>1. Holding(v)' = Holding(v) \ {t} /\ t \in Holding(v)
      BY <1>0, <2>1, <2>2, <2>4 DEF Holding
    <3>2. IsFiniteSet(Holding(v) \ {t}) /\ Cardinality(Holding(v) \ {t}) = C - 1
      BY <1>1, <3>1, FS_RemoveElement
    <3>3. Cardinality(Holding(v)') = C - 1 /\ IsFiniteSet(Holding(v)')
      BY <3>1, <3>2
    <3>4. workerQ'[v] = workerQ[v] - 1 /\ workerReady'[v] = workerReady[v]
      BY <1>0, <2>2, <2>4
    <3>5. QED
      BY <1>1, <3>3, <3>4
  <2>5. QED
    BY <2>3, <2>4
<1>6. ASSUME NEW t \in Thread, NEW w \in Worker, W!ReceiveMessage(t, w), UNCHANGED workerQ PROVE Fits
  <2>1. /\ workerPc[t] = "idle" /\ workerReady[w] > 0
        /\ workerReady' = [workerReady EXCEPT ![w] = @ - 1]
        /\ workerMsg' = [workerMsg EXCEPT ![t] = w]
        /\ workerPc' = [workerPc EXCEPT ![t] = "check"]
    BY <1>6 DEF W!ReceiveMessage, W!Goto
  <2>2. workerMsg[t] \notin Worker
    BY <1>0, <2>1, ConstantsAssumption
  <2>3. CASE v # w
    <3>1. Holding(v)' = Holding(v) /\ workerReady'[v] = workerReady[v]
      BY <1>0, <2>1, <2>2, <2>3 DEF Holding
    <3>2. Cardinality(Holding(v)') = C
      BY <3>1
    <3>3. QED
      BY <1>1, <1>6, <3>1, <3>2
  <2>4. CASE v = w
    <3>1. Holding(v)' = Holding(v) \cup {t} /\ t \notin Holding(v)
      BY <1>0, <2>1, <2>2, <2>4 DEF Holding
    <3>2. IsFiniteSet(Holding(v) \cup {t}) /\ Cardinality(Holding(v) \cup {t}) = C + 1
      BY <1>1, <3>1, FS_AddElement
    <3>3. Cardinality(Holding(v)') = C + 1 /\ IsFiniteSet(Holding(v)')
      BY <3>1, <3>2
    <3>4. workerReady'[v] = workerReady[v] - 1 /\ workerReady[v] > 0
      BY <1>0, <2>1, <2>4
    <3>5. QED
      BY <1>1, <1>6, <3>3, <3>4
  <2>5. QED
    BY <2>3, <2>4
<1>7. ASSUME NEW t \in Thread, UNCHANGED workerQ,
             W!ExistAndIsValid(t) \/ W!CreateTile(t) \/ W!WarpTile(t) \/ W!Ack(t)
      PROVE  Fits
  <2>1. /\ UNCHANGED workerReady
        /\ \A u \in Thread \ {t} : workerPc'[u] = workerPc[u] /\ workerMsg'[u] = workerMsg[u]
        /\ \/ workerPc[t] # "ack" /\ workerPc'[t] # "ack" /\ workerMsg'[t] = workerMsg[t]
           \/ workerPc[t] = "ack" /\ workerMsg'[t] = NoWorker
    BY <1>0, <1>7 DEF W!ExistAndIsValid, W!CreateTile, W!WarpTile, W!Ack, W!Goto
  <2>2. Holding(v)' = Holding(v)
    BY <2>1, ConstantsAssumption DEF Holding
  <2>3. Cardinality(Holding(v)') = C
    BY <2>2
  <2>4. QED
    BY <1>1, <1>7, <2>1, <2>2, <2>3
<1>8. QED
  BY <1>3, <1>4, <1>5, <1>6, <1>7, OrchestratesAlone
     DEF SystemNext, StartMessage, StartEchoProcessing, MergeMessage, SendMerge, MergeCallback,
         MakesTiles, TakesMerge, Merges, Tracks, systemVars, vars, queues, workerVars

\* The merges published are the first one of each processing and the second ones.
MergesPublishedAgain ==
  IsFiniteSet(Merged) /\ secondMerges + Cardinality(Merged) = Len(mergeQ)

LEMMA MergesAgainStep ==
  ASSUME TypeOK, IndInv, MP!TypeOK, MergesPublishedAgain, [SystemNext]_systemVars
  PROVE  MergesPublishedAgain'
<1>0. /\ IsFiniteSet(Merged) /\ secondMerges + Cardinality(Merged) = Len(mergeQ)
      /\ Cardinality(Merged) \in Nat /\ secondMerges \in Nat /\ Len(mergeQ) \in Nat
      /\ mergeQ \in Seq(EchoMergeMessage)
  BY FS_CardinalityType DEF MergesPublishedAgain, MP!TypeOK, TypeOK
<1>1. ASSUME NEW t \in Thread, MergeMessage(t) PROVE MergesPublishedAgain'
  <2>1. PICK m \in MP!EchoMergeMessage : mergeQ' = Append(mergeQ, m) /\ mergeQ'[Len(mergeQ')] = m
    BY <1>1, PublishedMessage DEF MergeMessage
  <2>2. PICK p : p = m.processingId
    OBVIOUS
  <2>3. /\ Len(mergeQ') = Len(mergeQ) + 1
        /\ DOMAIN mergeQ' = DOMAIN mergeQ \cup {Len(mergeQ) + 1} /\ mergeQ'[Len(mergeQ) + 1] = m
        /\ \A i \in DOMAIN mergeQ : mergeQ'[i] = mergeQ[i]
    BY <1>0, <2>1
  <2>4. Merged' = Merged \cup {p}
    BY <2>2, <2>3 DEF Merged
  <2>5. \/ p \notin Merged /\ secondMerges' = secondMerges
        \/ p \in Merged /\ secondMerges' = secondMerges + 1
    BY <1>1, <2>1, <2>2 DEF MergeMessage, M!SendMerge, M!SendMergeAgain, M!Merging, Merged
  <2>6. /\ IsFiniteSet(Merged \cup {p})
        /\ Cardinality(Merged \cup {p}) = IF p \in Merged THEN Cardinality(Merged) ELSE Cardinality(Merged) + 1
    BY <1>0, FS_AddElement
  <2>7. /\ IsFiniteSet(Merged')
        /\ Cardinality(Merged') = IF p \in Merged THEN Cardinality(Merged) ELSE Cardinality(Merged) + 1
    BY <2>4, <2>6
  <2>8. QED
    BY <1>0, <2>3, <2>5, <2>7 DEF MergesPublishedAgain
<1>2. ASSUME \A t \in Thread : ~MergeMessage(t) PROVE MergesPublishedAgain'
  <2>1. UNCHANGED mergeQ
    BY <1>2, NoMergePublished
  <2>2. UNCHANGED secondMerges
    BY <1>2, OrchestratesAlone
       DEF SystemNext, StartMessage, WorkerMessage, WorkerCallback, MergeCallback, MakesTiles,
           TakesMerge, Merges, Tracks, systemVars, mergerVars, M!SendCallback, M!ReceiveMessage,
           M!ExistAndIsValid, M!CreateVRT, M!CreateVRTFails, M!Ack
  <2>3. Merged' = Merged
    BY <2>1 DEF Merged
  <2>4. QED
    BY <2>1, <2>2, <2>3 DEF MergesPublishedAgain
<1>3. QED
  BY <1>1, <1>2

\* Only a start that fails after it has handed a worker over makes it do so again.
LEMMA ToDoShrinks ==
  ASSUME TypeOK, IndInv, [Next]_vars, ~StartFails, NEW w \in Worker
  PROVE  ToDo(w)' <= ToDo(w)
<1>0. ToDo(w) \in {0, 1} /\ ToDo(w)' \in {0, 1}
  BY DEF ToDo
<1>1. SUFFICES ASSUME ToDo(w) = 0 PROVE ToDo(w)' = 0
  BY <1>0
<1>2. w \notin todo /\ (state[w] \in {"ABSENT", "INIT"} => startPc = "commit" /\ w = current)
  BY <1>1 DEF ToDo
<1>3. CASE UNCHANGED <<todo, state, current, startPc>>
  BY <1>1, <1>3 DEF ToDo
<1>4. CASE UNCHANGED <<todo, state, current>> /\ startPc # "commit"
  BY <1>2, <1>4 DEF ToDo
<1>5. CASE CreateWorkers
  BY <1>2, <1>5 DEF ToDo, CreateWorkers, ExistsByProcessingId, FindByProcessingId
<1>6. ASSUME NEW v \in Worker, StartEchoWorker(v) PROVE ToDo(w)' = 0
  BY <1>2, <1>6 DEF ToDo, StartEchoWorker, rows
<1>7. CASE CommitStartedWorker
  BY <1>2, <1>7 DEF ToDo, CommitStartedWorker, TypeOK
<1>8. ASSUME NEW t \in Thread, CommitCallback(t) PROVE ToDo(w)' = 0
  BY <1>2, <1>8 DEF ToDo, CommitCallback, TypeOK, starter
<1>9. QED
  BY <1>3, <1>4, <1>5, <1>6, <1>7, <1>8
     DEF Next, StartConsumer, CallbackConsumer, vars, rows, starter, StartEchoProcessing,
         WorkerReplies, WorkerRepliesTwice, ReceiveStartMessage, CreateOrchestrator,
         SplitEmptyGrid, AckStartMessage, FindByWorkerId, CheckStates, SendMerge,
         AckCallbackMessage, CallbackFails

\* The workers that were handed over and will be again, by the next delivery of their start.
HandedOverAgain == {w \in dispatched : ToDo(w) = 1}

\* Only a failure makes a worker that was handed over be handed over again.
DispatchesCounted ==
  /\ \A w \in dispatched : state[w] # "ABSENT"
  /\ IsFiniteSet(HandedOverAgain)
  /\ Cardinality(HandedOverAgain) + secondDispatches <= faults

LEMMA DispatchesCountedStep ==
  ASSUME TypeOK, TypeOK', IndInv, WP!TypeOK, DispatchesCounted, [SystemNext]_systemVars
  PROVE  DispatchesCounted'
<1> DEFINE H == HandedOverAgain
<1>0. /\ IsFiniteSet(H) /\ Cardinality(H) \in Nat /\ secondDispatches \in Nat /\ faults \in Nat
      /\ Cardinality(H) + secondDispatches <= faults /\ faults' \in Nat
      /\ dispatched \subseteq Worker
  BY FS_CardinalityType, ConstantsAssumption DEF DispatchesCounted, TypeOK, WP!TypeOK
<1>1. \A w \in dispatched : state'[w] # "ABSENT"
  <2> SUFFICES ASSUME NEW w \in dispatched PROVE state'[w] # "ABSENT"
    OBVIOUS
  <2>1. state[w] # "ABSENT" /\ w \in Worker /\ state \in [Worker -> State \cup {"ABSENT"}]
    BY <1>0 DEF DispatchesCounted, TypeOK
  <2>2. [Next]_vars
    BY OrchestratorStep
  <2>3. QED
    BY <2>1, <2>2
       DEF Next, StartConsumer, CallbackConsumer, vars, rows, StartEchoProcessing, WorkerReplies,
           WorkerRepliesTwice, ReceiveStartMessage, CreateOrchestrator, SplitEmptyGrid,
           CreateWorkers, StartEchoWorker, CommitStartedWorker, AckStartMessage, FindByWorkerId,
           CheckStates, SendMerge, CommitCallback, AckCallbackMessage, StartFails, CallbackFails
<1>2. faults <= faults'
  <2>1. [Next]_vars
    BY OrchestratorStep
  <2>2. faults' = faults \/ faults' = faults + 1
    BY <2>1
       DEF Next, StartConsumer, CallbackConsumer, vars, StartEchoProcessing, WorkerReplies,
           WorkerRepliesTwice, ReceiveStartMessage, CreateOrchestrator, SplitEmptyGrid,
           CreateWorkers, StartEchoWorker, CommitStartedWorker, AckStartMessage, FindByWorkerId,
           CheckStates, SendMerge, CommitCallback, AckCallbackMessage, StartFails, CallbackFails
  <2>3. QED
    BY <1>0, <2>2
<1>3. ASSUME NEW w \in Worker, WorkerMessage(w) PROVE DispatchesCounted'
  <2>1. /\ StartEchoWorker(w) /\ ~StartFails /\ UNCHANGED <<state, faults>>
        /\ \/ w \notin dispatched /\ dispatched' = dispatched \cup {w} /\ UNCHANGED secondDispatches
           \/ w \in dispatched /\ UNCHANGED dispatched /\ secondDispatches' = secondDispatches + 1
    BY <1>3 DEF WorkerMessage, StartEchoWorker, StartFails, W!Dispatch, W!DispatchAgain, rows
  <2>2. ToDo(w) = 1 /\ ToDo(w)' = 0 /\ state[w] # "ABSENT"
    BY <2>1 DEF StartEchoWorker, ToDo, IndInv, WorkHasRows
  <2>3. \A v \in Worker : ToDo(v)' <= ToDo(v)
    <3>1. [Next]_vars
      BY OrchestratorStep
    <3>2. QED
      BY <2>1, <3>1, ToDoShrinks
  <2>4. HandedOverAgain' \subseteq H \ {w}
    <3> SUFFICES ASSUME NEW v \in HandedOverAgain' PROVE v \in H \ {w}
      OBVIOUS
    <3>1. v \in dispatched' /\ ToDo(v)' = 1
      BY DEF HandedOverAgain
    <3>2. v # w /\ v \in dispatched /\ v \in Worker
      BY <1>0, <2>1, <2>2, <3>1
    <3>3. ToDo(v) = 1
      BY <2>3, <3>1, <3>2 DEF ToDo
    <3>4. QED
      BY <3>2, <3>3 DEF HandedOverAgain
  <2>5. /\ IsFiniteSet(H \ {w})
        /\ Cardinality(H \ {w}) = IF w \in H THEN Cardinality(H) - 1 ELSE Cardinality(H)
    BY <1>0, FS_RemoveElement
  <2>6. /\ IsFiniteSet(HandedOverAgain') /\ Cardinality(HandedOverAgain') <= Cardinality(H \ {w})
        /\ Cardinality(HandedOverAgain') \in Nat /\ Cardinality(H \ {w}) \in Nat
    BY <2>4, <2>5, FS_Subset, FS_CardinalityType
  <2>7. w \in dispatched => w \in H
    BY <2>2 DEF HandedOverAgain
  <2>8. PICK h \in Nat, k \in Nat :
           /\ h = Cardinality(H) /\ k = Cardinality(HandedOverAgain')
           /\ k <= IF w \in H THEN h - 1 ELSE h
    BY <1>0, <2>5, <2>6
  <2>9. k + secondDispatches' <= faults'
    BY <1>0, <2>1, <2>7, <2>8
  <2>10. \A v \in dispatched' : state'[v] # "ABSENT"
    BY <1>1, <2>1, <2>2
  <2>11. QED
    BY <2>6, <2>8, <2>9, <2>10 DEF DispatchesCounted
<1>4. CASE StartFails /\ UNCHANGED <<dispatched, secondDispatches>>
  <2>1. faults' = faults + 1 /\ UNCHANGED state
    BY <1>4 DEF StartFails, rows
  <2>2. HandedOverAgain' \subseteq H \cup {current}
    BY <1>4, <2>1 DEF HandedOverAgain, ToDo, StartFails
  <2>3. IsFiniteSet(H \cup {current}) /\ Cardinality(H \cup {current}) <= Cardinality(H) + 1
    BY <1>0, OneElementMore
  <2>4. /\ IsFiniteSet(HandedOverAgain') /\ Cardinality(HandedOverAgain') <= Cardinality(H \cup {current})
        /\ Cardinality(HandedOverAgain') \in Nat /\ Cardinality(H \cup {current}) \in Nat
    BY <2>2, <2>3, FS_Subset, FS_CardinalityType
  <2>5. Cardinality(HandedOverAgain') + secondDispatches' <= faults'
    BY <1>0, <1>4, <2>1, <2>3, <2>4
  <2>6. QED
    BY <1>1, <1>4, <2>4, <2>5 DEF DispatchesCounted
<1>5. ASSUME ~StartFails, UNCHANGED <<dispatched, secondDispatches>> PROVE DispatchesCounted'
  <2>1. \A v \in Worker : ToDo(v)' <= ToDo(v)
    <3>1. [Next]_vars
      BY OrchestratorStep
    <3>2. QED
      BY <1>5, <3>1, ToDoShrinks
  <2>2. HandedOverAgain' \subseteq H
    <3> SUFFICES ASSUME NEW v \in HandedOverAgain' PROVE v \in H
      OBVIOUS
    <3>1. v \in dispatched /\ ToDo(v)' = 1 /\ v \in Worker
      BY <1>0, <1>5 DEF HandedOverAgain
    <3>2. ToDo(v) = 1
      BY <2>1, <3>1 DEF ToDo
    <3>3. QED
      BY <3>1, <3>2 DEF HandedOverAgain
  <2>3. /\ IsFiniteSet(HandedOverAgain') /\ Cardinality(HandedOverAgain') <= Cardinality(H)
        /\ Cardinality(HandedOverAgain') \in Nat
    BY <1>0, <2>2, FS_Subset, FS_CardinalityType
  <2>4. Cardinality(HandedOverAgain') + secondDispatches' <= faults'
    BY <1>0, <1>2, <1>5, <2>3
  <2>5. QED
    BY <1>1, <1>5, <2>3, <2>4 DEF DispatchesCounted
<1>6. (\E w \in Worker : WorkerMessage(w)) \/ UNCHANGED <<dispatched, secondDispatches>>
  BY OrchestratesAlone
     DEF SystemNext, StartMessage, MergeMessage, WorkerCallback, MergeCallback, MakesTiles,
         TakesMerge, Merges, Tracks, systemVars, workerVars, W!SendCallback, W!ReceiveMessage,
         W!ExistAndIsValid, W!CreateTile, W!WarpTile, W!Ack
<1>7. QED
  BY <1>3, <1>4, <1>5, <1>6

\* The worker messages beyond the one that makes the tile: each is answered once more.
Extra == [w \in Worker |-> IF w \in tiles THEN workerQ[w] ELSE workerQ[w] - 1]

\* The extra worker messages, one by one.
WorkerTokens == Tokens(Worker, Extra)

\* The merge messages that are not answered: queued, and in the hands of consumers.
MergeTokens == Tokens(MP!EchoMergeMessage, mergeReady)

\* The merger's consumers that have yet to call back.
Mergers == {t \in Thread : mergerPc[t] \in {"check", "build", "callback"}}

\* The processings that are merged and have no callback of the merger yet.
Unreported == Merged \ reported

\* Every message to come that is answered a second time is one that was published a second
\* time; the first merge callback of a processing is no second one.
AnswersCounted ==
  /\ \A w \in Worker : workerQ[w] > 0 \/ w \in tiles => w \in dispatched
  /\ IsFiniteSet(WorkerTokens) /\ IsFiniteSet(MergeTokens) /\ IsFiniteSet(Mergers)
  /\ Cardinality(WorkerTokens) + Cardinality(MergeTokens) + Cardinality(Mergers) + secondCallbacks
       <= secondDispatches + secondMerges + Cardinality(Unreported)

LEMMA AnswersAreNumbers ==
  TypeOK /\ WP!TypeOK /\ MP!TypeOK /\ TP!TypeOK /\ MergesPublishedAgain /\ AnswersCounted =>
    /\ Cardinality(WorkerTokens) \in Nat /\ Cardinality(MergeTokens) \in Nat
    /\ Cardinality(Mergers) \in Nat /\ IsFiniteSet(Unreported) /\ Cardinality(Unreported) \in Nat
    /\ secondDispatches \in Nat /\ secondMerges \in Nat /\ secondCallbacks \in Nat
    /\ Extra \in [Worker -> Int] /\ mergeReady \in [MP!EchoMergeMessage -> Int]
<1> SUFFICES ASSUME TypeOK, WP!TypeOK, MP!TypeOK, TP!TypeOK, MergesPublishedAgain, AnswersCounted
             PROVE  /\ Cardinality(WorkerTokens) \in Nat /\ Cardinality(MergeTokens) \in Nat
                    /\ Cardinality(Mergers) \in Nat
                    /\ IsFiniteSet(Unreported) /\ Cardinality(Unreported) \in Nat
                    /\ secondDispatches \in Nat /\ secondMerges \in Nat /\ secondCallbacks \in Nat
                    /\ Extra \in [Worker -> Int] /\ mergeReady \in [MP!EchoMergeMessage -> Int]
  OBVIOUS
<1>1. /\ Cardinality(WorkerTokens) \in Nat /\ Cardinality(MergeTokens) \in Nat
      /\ Cardinality(Mergers) \in Nat
  BY FS_CardinalityType DEF AnswersCounted
<1>2. IsFiniteSet(Unreported)
  BY FS_Difference DEF MergesPublishedAgain, Unreported
<1>3. Cardinality(Unreported) \in Nat
  BY <1>2, FS_CardinalityType
<1>4. secondDispatches \in Nat /\ secondMerges \in Nat /\ secondCallbacks \in Nat
  BY DEF WP!TypeOK, MP!TypeOK, TP!TypeOK
<1>5. Extra \in [Worker -> Int]
  BY DEF Extra, TypeOK
<1>6. mergeReady \in [MP!EchoMergeMessage -> Int]
  BY DEF MP!TypeOK
<1>7. QED
  BY <1>1, <1>2, <1>3, <1>4, <1>5, <1>6

\* A step about worker messages only.
LEMMA AnswersOfMerger ==
  UNCHANGED <<mergeQ, mergeReady, mergerPc, reported>> =>
    UNCHANGED <<MergeTokens, Mergers, Unreported>>
BY DEF MergeTokens, Tokens, Mergers, Unreported, Merged

\* A step about merge messages only.
LEMMA AnswersOfWorkers == UNCHANGED <<workerQ, tiles>> => UNCHANGED <<Extra, WorkerTokens>>
BY DEF Extra, WorkerTokens, Tokens

LEMMA AnswersToWorkerMessage ==
  ASSUME TypeOK, WP!TypeOK, MP!TypeOK, TP!TypeOK, MergesPublishedAgain, AnswersCounted,
         NEW w \in Worker, WorkerMessage(w)
  PROVE  AnswersCounted'
<1>1. /\ UNCHANGED <<mergeQ, mergeReady, mergerPc, reported, tiles, secondMerges, secondCallbacks>>
      /\ workerQ' = [workerQ EXCEPT ![w] = @ + 1]
      /\ \/ w \notin dispatched /\ dispatched' = dispatched \cup {w} /\ secondDispatches' = secondDispatches
         \/ w \in dispatched /\ dispatched' = dispatched /\ secondDispatches' = secondDispatches + 1
  BY DEF WorkerMessage, StartEchoWorker, W!Dispatch, W!DispatchAgain, mergerVars, trackerVars
<1>2. UNCHANGED <<MergeTokens, Mergers, Unreported>>
  BY <1>1, AnswersOfMerger
<1>3. \A v \in Worker : workerQ'[v] > 0 \/ v \in tiles' => v \in dispatched'
  BY <1>1 DEF AnswersCounted, TypeOK
<1>4. PICK n \in [Worker -> Int], m \in [Worker -> Int] : n = Extra /\ m = Extra'
  <2>1. workerQ' \in [Worker -> Nat]
    BY <1>1 DEF TypeOK
  <2>2. Extra' \in [Worker -> Int]
    BY <2>1 DEF Extra
  <2>3. QED
    BY <2>2, AnswersAreNumbers
<1>5. /\ m[w] = n[w] + 1 /\ \A v \in Worker \ {w} : m[v] <= n[v]
      /\ w \notin dispatched => m[w] <= 0
  <2>1. m[w] = n[w] + 1 /\ \A v \in Worker \ {w} : m[v] = n[v]
    BY <1>1, <1>4 DEF Extra, TypeOK
  <2>2. w \notin dispatched => workerQ[w] = 0 /\ w \notin tiles
    BY DEF AnswersCounted, TypeOK
  <2>3. QED
    BY <1>4, <2>1, <2>2 DEF Extra
<1>6. IsFiniteSet(Tokens(Worker, n)) /\ WorkerTokens = Tokens(Worker, n) /\ WorkerTokens' = Tokens(Worker, m)
  BY <1>4 DEF AnswersCounted, WorkerTokens, Tokens
<1>7. /\ IsFiniteSet(WorkerTokens')
      /\ w \notin dispatched => Cardinality(WorkerTokens') <= Cardinality(WorkerTokens)
      /\ Cardinality(WorkerTokens') <= Cardinality(WorkerTokens) + 1
  <2>1. w \notin dispatched => Cardinality(Tokens(Worker, m)) <= Cardinality(Tokens(Worker, n))
    BY <1>5, <1>6, TokensFewer
  <2>2. IsFiniteSet(Tokens(Worker, m)) /\ Cardinality(Tokens(Worker, m)) <= Cardinality(Tokens(Worker, n)) + 1
    BY <1>5, <1>6, TokensOneMore
  <2>3. QED
    BY <1>6, <2>1, <2>2
<1>8. Cardinality(WorkerTokens') \in Nat
  BY <1>7, FS_CardinalityType
<1>9. Cardinality(WorkerTokens') + Cardinality(MergeTokens) + Cardinality(Mergers) + secondCallbacks
        <= secondDispatches' + secondMerges + Cardinality(Unreported)
  BY <1>1, <1>7, <1>8, AnswersAreNumbers DEF AnswersCounted
<1>10. QED
  BY <1>1, <1>2, <1>3, <1>7, <1>9 DEF AnswersCounted

LEMMA AnswersAfterWorkerCallback ==
  ASSUME TypeOK, WP!TypeOK, MP!TypeOK, TP!TypeOK, MergesPublishedAgain, AnswersCounted,
         NEW t \in Thread, WorkerCallback(t)
  PROVE  AnswersCounted'
<1>0. PICK w \in Worker : w = workerMsg[t]
  BY DEF WorkerCallback, WP!TypeOK
<1>1. /\ UNCHANGED <<mergeQ, mergeReady, mergerPc, reported, secondMerges, secondDispatches, dispatched>>
      /\ workerQ[w] > 0 /\ workerQ' = [workerQ EXCEPT ![w] = @ - 1] /\ tiles' = tiles \cup {w}
      /\ secondCallbacks' = IF w \in tiles THEN secondCallbacks + 1 ELSE secondCallbacks
  BY <1>0
     DEF WorkerCallback, WorkerReplies, W!SendCallback, T!PublishAgain, T!PublishWorkerCallback,
         mergerVars
<1>2. UNCHANGED <<MergeTokens, Mergers, Unreported>>
  BY <1>1, AnswersOfMerger
<1>3. \A v \in Worker : workerQ'[v] > 0 \/ v \in tiles' => v \in dispatched'
  BY <1>1 DEF AnswersCounted, TypeOK
<1>4. PICK n \in [Worker -> Int], m \in [Worker -> Int] : n = Extra /\ m = Extra'
  <2>1. workerQ' \in [Worker -> Int]
    BY <1>1 DEF TypeOK
  <2>2. Extra' \in [Worker -> Int]
    BY <2>1 DEF Extra
  <2>3. QED
    BY <2>2, AnswersAreNumbers
<1>5. /\ \A v \in Worker : m[v] <= n[v]
      /\ w \in tiles => n[w] >= 1 /\ m[w] <= n[w] - 1
  BY <1>1, <1>4 DEF Extra, TypeOK
<1>6. IsFiniteSet(Tokens(Worker, n)) /\ WorkerTokens = Tokens(Worker, n) /\ WorkerTokens' = Tokens(Worker, m)
  BY <1>4 DEF AnswersCounted, WorkerTokens, Tokens
<1>7. /\ IsFiniteSet(WorkerTokens')
      /\ Cardinality(WorkerTokens') <= Cardinality(WorkerTokens)
      /\ w \in tiles => Cardinality(WorkerTokens') + 1 <= Cardinality(WorkerTokens)
  <2>1. IsFiniteSet(Tokens(Worker, m)) /\ Cardinality(Tokens(Worker, m)) <= Cardinality(Tokens(Worker, n))
    BY <1>5, <1>6, TokensFewer
  <2>2. w \in tiles => Cardinality(Tokens(Worker, m)) + 1 <= Cardinality(Tokens(Worker, n))
    BY <1>5, <1>6, TokensOneLess
  <2>3. QED
    BY <1>6, <2>1, <2>2
<1>8. Cardinality(WorkerTokens') \in Nat
  BY <1>7, FS_CardinalityType
<1>9. Cardinality(WorkerTokens') + Cardinality(MergeTokens) + Cardinality(Mergers) + secondCallbacks'
        <= secondDispatches + secondMerges + Cardinality(Unreported)
  BY <1>1, <1>7, <1>8, AnswersAreNumbers DEF AnswersCounted
<1>10. QED
  BY <1>1, <1>2, <1>3, <1>7, <1>9 DEF AnswersCounted

\* A processing that is reported is merged.
LEMMA ReportedIsMerged == MP!TypeOK /\ MP!MergerInv => reported \subseteq Merged
  BY DEF MP!TypeOK, MP!MergerInv, MP!ResultsHaveMessages, Merged

LEMMA AnswersToMergeMessage ==
  ASSUME TypeOK, IndInv, WP!TypeOK, MP!TypeOK, TP!TypeOK, MP!MergerInv, MergesPublishedAgain,
         AnswersCounted, NEW t \in Thread, MergeMessage(t)
  PROVE  AnswersCounted'
<1>1. PICK m \in MP!EchoMergeMessage : mergeQ' = Append(mergeQ, m) /\ mergeQ'[Len(mergeQ')] = m
  BY PublishedMessage DEF MergeMessage
<1>2. PICK p : p = m.processingId
  OBVIOUS
<1>3. /\ UNCHANGED <<workerQ, tiles, dispatched, mergerPc, reported, secondDispatches, secondCallbacks>>
      /\ mergeReady' = [mergeReady EXCEPT ![m] = @ + 1]
      /\ secondMerges' = IF p \in Merged THEN secondMerges + 1 ELSE secondMerges
  BY <1>1, <1>2
     DEF MergeMessage, SendMerge, M!SendMerge, M!SendMergeAgain, M!Publish, M!Merging, M!consumers,
         Merged, workerVars, trackerVars
<1>4. UNCHANGED WorkerTokens /\ UNCHANGED Mergers
  BY <1>3, AnswersOfWorkers DEF Mergers
<1>5. Merged' = Merged \cup {p}
  <2>1. /\ DOMAIN mergeQ' = DOMAIN mergeQ \cup {Len(mergeQ) + 1} /\ mergeQ'[Len(mergeQ) + 1] = m
        /\ \A i \in DOMAIN mergeQ : mergeQ'[i] = mergeQ[i]
    BY <1>1 DEF TypeOK
  <2>2. QED
    BY <1>2, <2>1 DEF Merged
<1>6. IF p \in Merged THEN Unreported' = Unreported ELSE Unreported' = Unreported \cup {p} /\ p \notin Unreported
  BY <1>3, <1>5, ReportedIsMerged DEF Unreported
<1>7. /\ IsFiniteSet(Unreported \cup {p})
      /\ p \notin Unreported => Cardinality(Unreported \cup {p}) = Cardinality(Unreported) + 1
  BY AnswersAreNumbers, FS_AddElement
<1>8. Cardinality(Unreported') = IF p \in Merged THEN Cardinality(Unreported) ELSE Cardinality(Unreported) + 1
  BY <1>6, <1>7
<1>9. /\ IsFiniteSet(MergeTokens') /\ Cardinality(MergeTokens') <= Cardinality(MergeTokens) + 1
  <2>1. PICK n \in [MP!EchoMergeMessage -> Int], k \in [MP!EchoMergeMessage -> Int] :
          n = mergeReady /\ k = mergeReady'
    <3>1. mergeReady \in [MP!EchoMergeMessage -> Int]
      BY AnswersAreNumbers
    <3>2. mergeReady' \in [MP!EchoMergeMessage -> Int]
      BY <1>1, <1>3, <3>1
    <3>3. QED
      BY <3>1, <3>2
  <2>2. k[m] <= n[m] + 1 /\ \A x \in MP!EchoMergeMessage \ {m} : k[x] <= n[x]
    BY <1>1, <1>3, <2>1
  <2>3. /\ IsFiniteSet(Tokens(MP!EchoMergeMessage, n)) /\ MergeTokens = Tokens(MP!EchoMergeMessage, n)
        /\ MergeTokens' = Tokens(MP!EchoMergeMessage, k)
    BY <2>1 DEF AnswersCounted, MergeTokens, Tokens
  <2>4. QED
    BY <1>1, <2>2, <2>3, TokensOneMore
<1>10. Cardinality(MergeTokens') \in Nat
  BY <1>9, FS_CardinalityType
<1>11. Cardinality(WorkerTokens) + Cardinality(MergeTokens') + Cardinality(Mergers) + secondCallbacks
         <= secondDispatches + secondMerges' + Cardinality(Unreported')
  BY <1>3, <1>8, <1>9, <1>10, AnswersAreNumbers DEF AnswersCounted
<1>12. QED
  BY <1>3, <1>4, <1>9, <1>11 DEF AnswersCounted

LEMMA AnswersAfterMergeCallback ==
  ASSUME TypeOK, IndInv, WP!TypeOK, MP!TypeOK, TP!TypeOK, MP!MergerInv, MergesPublishedAgain,
         AnswersCounted, NEW t \in Thread, MergeCallback(t)
  PROVE  AnswersCounted'
<1>1. PICK p : p = mergerMsg[t].processingId
  OBVIOUS
<1>2. /\ UNCHANGED <<mergeQ, workerQ, tiles, dispatched, mergeReady, secondDispatches, secondMerges>>
      /\ mergerPc[t] = "callback" /\ mergerPc' = [mergerPc EXCEPT ![t] = "ack"]
      /\ reported' = reported \cup {p}
      /\ secondCallbacks' = IF p \in reported THEN secondCallbacks + 1 ELSE secondCallbacks
  BY <1>1
     DEF MergeCallback, M!SendCallback, M!Goto, T!PublishAgain, T!PublishMergeCallback, vars, queues,
         workerVars
<1>3. UNCHANGED WorkerTokens /\ UNCHANGED MergeTokens /\ Merged' = Merged
  BY <1>2, AnswersOfWorkers DEF MergeTokens, Tokens, Merged
<1>4. Mergers' = Mergers \ {t} /\ t \in Mergers
  BY <1>2 DEF Mergers, MP!TypeOK
<1>5. p \in Merged
  BY <1>1, <1>2 DEF MP!MergerInv, MP!MergeConsumers, Merged
<1>6. IF p \in reported THEN Unreported' = Unreported ELSE Unreported' = Unreported \ {p} /\ p \in Unreported
  BY <1>2, <1>3, <1>5 DEF Unreported
<1>7. /\ IsFiniteSet(Unreported \ {p})
      /\ p \in Unreported => Cardinality(Unreported \ {p}) = Cardinality(Unreported) - 1
  BY AnswersAreNumbers, FS_RemoveElement
<1>8. Cardinality(Unreported') = IF p \in reported THEN Cardinality(Unreported) ELSE Cardinality(Unreported) - 1
  BY <1>6, <1>7
<1>9. IsFiniteSet(Mergers \ {t}) /\ Cardinality(Mergers \ {t}) = Cardinality(Mergers) - 1
  BY <1>4, FS_RemoveElement DEF AnswersCounted
<1>10. IsFiniteSet(Mergers') /\ Cardinality(Mergers') = Cardinality(Mergers) - 1
  BY <1>4, <1>9
<1>11. Cardinality(WorkerTokens) + Cardinality(MergeTokens) + Cardinality(Mergers') + secondCallbacks'
         <= secondDispatches + secondMerges + Cardinality(Unreported')
  BY <1>2, <1>8, <1>10, AnswersAreNumbers DEF AnswersCounted
<1>12. QED
  BY <1>2, <1>3, <1>10, <1>11 DEF AnswersCounted

\* A merge message between the queue and a consumer.
LEMMA AnswersWhileMerging ==
  ASSUME TypeOK, WP!TypeOK, MP!TypeOK, TP!TypeOK, MP!MergerInv, MergesPublishedAgain, AnswersCounted,
         Merges \/ \E m \in M!EchoMergeMessage : TakesMerge(m)
  PROVE  AnswersCounted'
<1>0. /\ UNCHANGED <<mergeQ, workerQ, tiles, dispatched, reported, secondDispatches, secondMerges,
                      secondCallbacks>>
      /\ UNCHANGED WorkerTokens /\ UNCHANGED Unreported
  BY AnswersOfWorkers
     DEF Merges, TakesMerge, vars, queues, workerVars, trackerVars, M!ReceiveMessage,
         M!ExistAndIsValid, M!CreateVRT, M!CreateVRTFails, M!Ack, Unreported, Merged
<1>1. M!EchoMergeMessage = MP!EchoMergeMessage
  BY DEF M!EchoMergeMessage, MP!EchoMergeMessage, M!WorkersOf, MP!WorkersOf
<1>2. ASSUME NEW t \in Thread, NEW m \in MP!EchoMergeMessage, M!ReceiveMessage(t, m) PROVE AnswersCounted'
  <2>1. /\ mergerPc[t] = "idle" /\ mergeReady[m] > 0 /\ mergerPc' = [mergerPc EXCEPT ![t] = "check"]
        /\ mergeReady' = [mergeReady EXCEPT ![m] = @ - 1]
    BY <1>2 DEF M!ReceiveMessage, M!Goto
  <2>2. Mergers' = Mergers \cup {t} /\ t \notin Mergers
    BY <2>1 DEF Mergers, MP!TypeOK
  <2>3. IsFiniteSet(Mergers \cup {t}) /\ Cardinality(Mergers \cup {t}) = Cardinality(Mergers) + 1
    BY <2>2, FS_AddElement DEF AnswersCounted
  <2>4. IsFiniteSet(Mergers') /\ Cardinality(Mergers') = Cardinality(Mergers) + 1
    BY <2>2, <2>3
  <2>5. IsFiniteSet(MergeTokens') /\ Cardinality(MergeTokens') + 1 <= Cardinality(MergeTokens)
    <3>1. PICK n \in [MP!EchoMergeMessage -> Int], k \in [MP!EchoMergeMessage -> Int] :
            n = mergeReady /\ k = mergeReady'
      <4>1. mergeReady \in [MP!EchoMergeMessage -> Int]
        BY AnswersAreNumbers
      <4>2. mergeReady' \in [MP!EchoMergeMessage -> Int]
        BY <2>1, <4>1
      <4>3. QED
        BY <4>1, <4>2
    <3>2. n[m] >= 1 /\ k[m] <= n[m] - 1 /\ \A x \in MP!EchoMergeMessage \ {m} : k[x] <= n[x]
      BY <2>1, <3>1
    <3>3. /\ IsFiniteSet(Tokens(MP!EchoMergeMessage, n)) /\ MergeTokens = Tokens(MP!EchoMergeMessage, n)
          /\ MergeTokens' = Tokens(MP!EchoMergeMessage, k)
      BY <3>1 DEF AnswersCounted, MergeTokens, Tokens
    <3>4. QED
      BY <3>2, <3>3, TokensOneLess
  <2>6. Cardinality(MergeTokens') \in Nat
    BY <2>5, FS_CardinalityType
  <2>7. Cardinality(WorkerTokens) + Cardinality(MergeTokens') + Cardinality(Mergers') + secondCallbacks
          <= secondDispatches + secondMerges + Cardinality(Unreported)
    BY <2>4, <2>5, <2>6, AnswersAreNumbers DEF AnswersCounted
  <2>8. QED
    BY <1>0, <2>4, <2>5, <2>7 DEF AnswersCounted
<1>3. ASSUME NEW t \in Thread, M!CreateVRTFails(t) PROVE AnswersCounted'
  <2>0. PICK m \in MP!EchoMergeMessage : m = mergerMsg[t]
    BY <1>3 DEF M!CreateVRTFails, MP!TypeOK
  <2>1. /\ mergerPc[t] = "build" /\ mergerPc' = [mergerPc EXCEPT ![t] = "idle"]
        /\ mergeReady' = [mergeReady EXCEPT ![m] = @ + 1]
    BY <1>3, <2>0 DEF M!CreateVRTFails, M!Requeue, M!Goto
  <2>2. Mergers' = Mergers \ {t} /\ t \in Mergers
    BY <2>1 DEF Mergers, MP!TypeOK
  <2>3. IsFiniteSet(Mergers \ {t}) /\ Cardinality(Mergers \ {t}) = Cardinality(Mergers) - 1
    BY <2>2, FS_RemoveElement DEF AnswersCounted
  <2>4. IsFiniteSet(Mergers') /\ Cardinality(Mergers') = Cardinality(Mergers) - 1
    BY <2>2, <2>3
  <2>5. IsFiniteSet(MergeTokens') /\ Cardinality(MergeTokens') <= Cardinality(MergeTokens) + 1
    <3>1. PICK n \in [MP!EchoMergeMessage -> Int], k \in [MP!EchoMergeMessage -> Int] :
            n = mergeReady /\ k = mergeReady'
      <4>1. mergeReady \in [MP!EchoMergeMessage -> Int]
        BY AnswersAreNumbers
      <4>2. mergeReady' \in [MP!EchoMergeMessage -> Int]
        BY <2>1, <4>1
      <4>3. QED
        BY <4>1, <4>2
    <3>2. k[m] <= n[m] + 1 /\ \A x \in MP!EchoMergeMessage \ {m} : k[x] <= n[x]
      BY <2>1, <3>1
    <3>3. /\ IsFiniteSet(Tokens(MP!EchoMergeMessage, n)) /\ MergeTokens = Tokens(MP!EchoMergeMessage, n)
          /\ MergeTokens' = Tokens(MP!EchoMergeMessage, k)
      BY <3>1 DEF AnswersCounted, MergeTokens, Tokens
    <3>4. QED
      BY <3>2, <3>3, TokensOneMore
  <2>6. Cardinality(MergeTokens') \in Nat
    BY <2>5, FS_CardinalityType
  <2>7. Cardinality(WorkerTokens) + Cardinality(MergeTokens') + Cardinality(Mergers') + secondCallbacks
          <= secondDispatches + secondMerges + Cardinality(Unreported)
    BY <2>4, <2>5, <2>6, AnswersAreNumbers DEF AnswersCounted
  <2>8. QED
    BY <1>0, <2>4, <2>5, <2>7 DEF AnswersCounted
<1>4. ASSUME NEW t \in Thread, M!ExistAndIsValid(t) \/ M!CreateVRT(t) \/ M!Ack(t) PROVE AnswersCounted'
  <2>1. /\ mergeReady' = mergeReady
        /\ \A u \in Thread \ {t} : mergerPc'[u] = mergerPc[u]
        /\ \/ mergerPc[t] \in {"check", "build"} /\ mergerPc'[t] \in {"build", "callback"}
           \/ mergerPc[t] = "ack" /\ mergerPc'[t] = "idle"
    BY <1>4 DEF M!ExistAndIsValid, M!CreateVRT, M!Ack, M!Goto, MP!TypeOK
  <2>2. Mergers' = Mergers /\ MergeTokens' = MergeTokens
    BY <2>1 DEF Mergers, MergeTokens, Tokens
  <2>3. QED
    BY <1>0, <2>2 DEF AnswersCounted
<1>5. QED
  BY <1>1, <1>2, <1>3, <1>4 DEF Merges, TakesMerge

LEMMA AnswersCountedStep ==
  ASSUME TypeOK, IndInv, WP!TypeOK, MP!TypeOK, TP!TypeOK, MP!MergerInv, MergesPublishedAgain,
         AnswersCounted, [SystemNext]_systemVars
  PROVE  AnswersCounted'
<1>1. ASSUME UNCHANGED <<workerQ, tiles, dispatched, mergeQ, mergeReady, mergerPc, reported,
                         secondDispatches, secondMerges, secondCallbacks>>
      PROVE  AnswersCounted'
  BY <1>1, AnswersOfMerger, AnswersOfWorkers DEF AnswersCounted
<1>2. CASE MakesTiles \/ Orchestrates \/ UNCHANGED systemVars
  BY <1>1, <1>2, OrchestratesAlone
     DEF MakesTiles, systemVars, vars, queues, workerVars, mergerVars, trackerVars, W!ReceiveMessage,
         W!ExistAndIsValid, W!CreateTile, W!WarpTile, W!Ack
<1>3. ASSUME NEW p \in Processing, StartMessage(p) PROVE AnswersCounted'
  BY <1>1, <1>3 DEF StartMessage, StartEchoProcessing, workerVars, mergerVars, T!PublishStart
<1>4. ASSUME NEW p \in Processing, Tracks(T!StartProcessing(p)) \/ Tracks(T!CallbackHandler(p))
      PROVE  AnswersCounted'
  BY <1>1, <1>4
     DEF Tracks, vars, queues, workerVars, mergerVars, T!StartProcessing, T!CallbackHandler,
         T!UpdateProcessingWhenWorkerFinished, T!FinishProcessing
<1>5. ASSUME NEW q \in T!Queue, Tracks(T!Ack(q)) PROVE AnswersCounted'
  BY <1>1, <1>5 DEF Tracks, vars, queues, workerVars, mergerVars, T!Ack
<1>6. QED
  BY <1>2, <1>3, <1>4, <1>5, AnswersToWorkerMessage, AnswersAfterWorkerCallback,
     AnswersToMergeMessage, AnswersAfterMergeCallback, AnswersWhileMerging
     DEF SystemNext

\* A merge that is not reported is in the queue or in the hands of a consumer.
LEMMA UnreportedAreFew ==
  ASSUME TypeOK, MP!TypeOK, MP!MergerInv, AnswersCounted
  PROVE  Cardinality(Unreported) <= Cardinality(MergeTokens) + Cardinality(Mergers)
<1> DEFINE f == [x \in MergeTokens |-> x[1].processingId]
           g == [t \in Mergers |-> mergerMsg[t].processingId]
           A == {x[1].processingId : x \in MergeTokens}
           B == {mergerMsg[t].processingId : t \in Mergers}
<1>1. f \in Surjection(MergeTokens, A) /\ g \in Surjection(Mergers, B)
  BY DEF Surjection
<1>2. Unreported \subseteq A \cup B
  <2> SUFFICES ASSUME NEW p \in Unreported PROVE p \in A \cup B
    OBVIOUS
  <2>1. PICK i \in DOMAIN mergeQ : mergeQ[i].processingId = p
    BY DEF Unreported, Merged
  <2>2. PICK m \in MP!EchoMergeMessage : m = mergeQ[i]
    BY <2>1 DEF MP!TypeOK
  <2>3. mergeReady[m] > 0 \/ \E t \in Thread : mergerMsg[t] = m
    BY <2>1, <2>2 DEF MP!MergerInv, MP!NoMergeIsForgotten, Unreported
  <2>4. CASE mergeReady[m] > 0
    <3>1. mergeReady[m] \in Nat
      BY DEF MP!TypeOK
    <3>2. <<m, 1>> \in MergeTokens
      BY <2>4, <3>1 DEF MergeTokens, Tokens
    <3>3. QED
      BY <2>1, <2>2, <3>2
  <2>5. ASSUME NEW t \in Thread, mergerMsg[t] = m PROVE p \in B
    <3>1. mergerPc[t] # "idle"
      BY <2>5, MergerConstants DEF MP!MergerInv, MP!MergeConsumers, MP!MergerAssumption
    <3>2. mergerPc[t] # "ack"
      BY <2>1, <2>2, <2>5 DEF MP!MergerInv, MP!MergeConsumers, Unreported
    <3>3. t \in Mergers
      BY <3>1, <3>2 DEF Mergers, MP!TypeOK, MP!Pc
    <3>4. QED
      BY <2>1, <2>2, <2>5, <3>3
  <2>6. QED
    BY <2>3, <2>4, <2>5
<1> HIDE DEF f, g, A, B
<1>3. IsFiniteSet(MergeTokens) /\ IsFiniteSet(Mergers)
  BY DEF AnswersCounted
<1>4. /\ IsFiniteSet(A) /\ Cardinality(A) <= Cardinality(MergeTokens)
      /\ IsFiniteSet(B) /\ Cardinality(B) <= Cardinality(Mergers)
  BY <1>1, <1>3, FS_Surjection
<1>5. /\ IsFiniteSet(A \cup B)
      /\ Cardinality(A \cup B) = Cardinality(A) + Cardinality(B) - Cardinality(A \cap B)
  BY <1>4, FS_Union
<1>6. IsFiniteSet(Unreported) /\ Cardinality(Unreported) <= Cardinality(A \cup B)
  BY <1>2, <1>5, FS_Subset
<1>7. IsFiniteSet(A \cap B)
  BY <1>4, FS_Subset
<1>8. /\ Cardinality(A) \in Nat /\ Cardinality(B) \in Nat /\ Cardinality(A \cap B) \in Nat
      /\ Cardinality(A \cup B) \in Nat /\ Cardinality(Unreported) \in Nat
      /\ Cardinality(MergeTokens) \in Nat /\ Cardinality(Mergers) \in Nat
  BY <1>3, <1>4, <1>5, <1>6, <1>7, FS_CardinalityType
<1>9. QED
  BY <1>4, <1>5, <1>6, <1>8

\* The inductive invariant: what is unanswered is there, and everything that is published a
\* second time is counted against the failures that cause it.
FitInv ==
  UnansweredIsThere /\ MergesPublishedAgain /\ DispatchesCounted /\ AnswersCounted /\ MergesCounted

LEMMA FitInit == SystemInit => FitInv
<1> SUFFICES ASSUME SystemInit PROVE FitInv
  OBVIOUS
<1>1. IsFiniteSet({}) /\ Cardinality({}) = 0
  BY FS_EmptySet
<1>2. /\ Init /\ mergeQ = <<>> /\ tiles = {} /\ faults = 0 /\ dispatched = {} /\ reported = {}
      /\ workerQ = [w \in Worker |-> 0] /\ workerReady = [w \in Worker |-> 0]
      /\ workerMsg = [t \in Thread |-> NoWorker] /\ mergerPc = [t \in Thread |-> "idle"]
      /\ mergeReady = [m \in MP!EchoMergeMessage |-> 0]
      /\ secondDispatches = 0 /\ secondMerges = 0 /\ secondCallbacks = 0
  <2>1. M!EchoMergeMessage = MP!EchoMergeMessage
    BY DEF M!EchoMergeMessage, MP!EchoMergeMessage, M!WorkersOf, MP!WorkersOf
  <2>2. QED
    BY <2>1 DEF SystemInit, Init, W!Init, M!Init, T!Init
<1>3. UnansweredIsThere
  <2> SUFFICES ASSUME NEW w \in Worker
               PROVE  IsFiniteSet(Holding(w)) /\ workerQ[w] = workerReady[w] + Cardinality(Holding(w))
    BY DEF UnansweredIsThere
  <2>1. Holding(w) = {}
    BY <1>2, ConstantsAssumption DEF Holding
  <2>2. Cardinality(Holding(w)) = 0
    BY <1>1, <2>1
  <2>3. QED
    BY <1>1, <1>2, <2>1, <2>2
<1>4. Merged = {} /\ Len(mergeQ) = 0
  BY <1>2 DEF Merged
<1>5. Cardinality(Merged) = 0
  BY <1>1, <1>4
<1>6. MergesPublishedAgain
  BY <1>1, <1>2, <1>4, <1>5 DEF MergesPublishedAgain
<1>7. HandedOverAgain = {}
  BY <1>2 DEF HandedOverAgain
<1>8. Cardinality(HandedOverAgain) = 0
  BY <1>1, <1>7
<1>9. DispatchesCounted
  BY <1>1, <1>2, <1>7, <1>8 DEF DispatchesCounted
<1>10. WorkerTokens = {} /\ MergeTokens = {} /\ Mergers = {} /\ Unreported = {}
  BY <1>2, <1>4 DEF WorkerTokens, MergeTokens, Tokens, Extra, Mergers, Unreported
<1>11. /\ Cardinality(WorkerTokens) = 0 /\ Cardinality(MergeTokens) = 0 /\ Cardinality(Mergers) = 0
       /\ Cardinality(Unreported) = 0
  BY <1>1, <1>10
<1>12. AnswersCounted
  BY <1>1, <1>2, <1>10, <1>11 DEF AnswersCounted
<1>13. QED
  BY <1>2, <1>3, <1>6, <1>9, <1>12, MergesCountedInit DEF FitInv

LEMMA FitFacts ==
  SystemSpec => [](/\ TypeOK /\ IndInv /\ WP!TypeOK /\ MP!TypeOK /\ MP!MergerInv /\ TP!TypeOK
                   /\ FitInv)
<1> DEFINE Facts == /\ TypeOK /\ IndInv /\ WP!TypeOK /\ WP!WorkerInv /\ MP!TypeOK /\ MP!MergerInv
                    /\ TP!TypeOK
<1>1. SystemSpec => []Facts
  BY SystemFacts, TrackerFacts, PTL
<1>2. Facts /\ Facts' /\ FitInv /\ [SystemNext]_systemVars => FitInv'
  <2> SUFFICES ASSUME Facts, Facts', FitInv, [SystemNext]_systemVars PROVE FitInv'
    OBVIOUS
  <2>1. UnansweredIsThere' /\ MergesPublishedAgain' /\ DispatchesCounted' /\ AnswersCounted'
    BY UnansweredStep, MergesAgainStep, DispatchesCountedStep, AnswersCountedStep DEF FitInv
  <2>2. [Next]_vars
    BY OrchestratorStep
  <2>3. MergesCounted'
    BY <2>2, MergesCountedStep DEF FitInv
  <2>4. QED
    BY <2>1, <2>3 DEF FitInv
<1>3. QED
  BY <1>1, <1>2, FitInit, PTL DEF SystemSpec

\* What each service's module assumes of the others is what the others do, and a failure of
\* the orchestrator is answered at most once more by each of them, for any number of
\* processings, tiles, consumers and faults.
THEOREM ServicesFit == SystemSpec => []ServicesFitTogether
<1>1. TypeOK /\ IndInv /\ WP!TypeOK /\ MP!TypeOK /\ MP!MergerInv /\ TP!TypeOK /\ FitInv
        => ServicesFitTogether
  <2> SUFFICES ASSUME TypeOK, IndInv, WP!TypeOK, MP!TypeOK, MP!MergerInv, TP!TypeOK, FitInv
               PROVE  ServicesFitTogether
    OBVIOUS
  <2>1. ASSUME NEW w \in Worker
        PROVE  workerQ[w] = workerReady[w]
                            + Cardinality({t \in Thread : workerMsg[t] = w /\ workerPc[t] # "ack"})
    BY DEF FitInv, UnansweredIsThere, Holding
  <2>2. ASSUME NEW t \in Thread, mergerPc[t] = "callback"
        PROVE  WorkersOf(mergerMsg[t].processingId) \subseteq tiles
    BY <2>2 DEF MP!MergerInv, MP!MergeConsumers, IndInv, MergeBarrier
  <2>3. /\ Cardinality(HandedOverAgain) \in Nat /\ secondDispatches \in Nat /\ faults \in Nat
        /\ Cardinality(HandedOverAgain) + secondDispatches <= faults
    BY FS_CardinalityType, ConstantsAssumption DEF FitInv, DispatchesCounted, WP!TypeOK, TypeOK
  <2>4. secondDispatches <= faults
    BY <2>3
  <2>5. secondMerges <= faults
    <3>1. Len(mergeQ) <= Cardinality(Merged) + faults
      BY CountedMeansFew DEF FitInv, OneMergePerFailure
    <3>2. secondMerges + Cardinality(Merged) = Len(mergeQ) /\ Cardinality(Merged) \in Nat
      BY FS_CardinalityType DEF FitInv, MergesPublishedAgain
    <3>3. secondMerges \in Nat
      BY DEF MP!TypeOK
    <3>4. QED
      BY <2>3, <3>1, <3>2, <3>3
  <2>6. secondCallbacks <= secondDispatches + secondMerges
    <3>1. /\ Cardinality(WorkerTokens) \in Nat /\ Cardinality(MergeTokens) \in Nat
          /\ Cardinality(Mergers) \in Nat /\ Cardinality(Unreported) \in Nat
          /\ secondDispatches \in Nat /\ secondMerges \in Nat /\ secondCallbacks \in Nat
      BY AnswersAreNumbers DEF FitInv
    <3>2. Cardinality(Unreported) <= Cardinality(MergeTokens) + Cardinality(Mergers)
      BY UnreportedAreFew DEF FitInv
    <3>3. Cardinality(WorkerTokens) + Cardinality(MergeTokens) + Cardinality(Mergers) + secondCallbacks
            <= secondDispatches + secondMerges + Cardinality(Unreported)
      BY DEF FitInv, AnswersCounted
    <3>4. QED
      BY <3>1, <3>2, <3>3
  <2>7. QED
    BY <2>1, <2>2, <2>4, <2>5, <2>6 DEF ServicesFitTogether
<1>2. QED
  BY <1>1, FitFacts, PTL

-----------------------------------------------------------------------------
(* The services implement ImageProcessing. *)

\* What is built and what is shown, with the rest of what a user sees.
Built == {p \in Processing : result[p] # {}}
Shown == {p \in Processing : progress[p] >= T!Complete}

LEMMA TrackerRows == SystemSpec => []TP!Untracked
  BY TP!UntrackedIsZero, TrackerConstants, SystemTracker, PTL

\* Tiles are made of requested processings only.
MadeOnRequest == \A w \in tiles : ProcOf[w] \in requested

LEMMA TilesAreRequested == SystemSpec => []MadeOnRequest
<1>1. Init => MadeOnRequest
  BY DEF Init, MadeOnRequest
<1>2. TypeOK /\ IndInv /\ MadeOnRequest /\ [Next]_vars => MadeOnRequest'
  <2> SUFFICES ASSUME TypeOK, IndInv, MadeOnRequest, [Next]_vars PROVE MadeOnRequest'
    OBVIOUS
  <2>1. requested \subseteq requested'
    BY RowsAndMergesFrame DEF StartEchoProcessing
  <2>2. ASSUME NEW w \in Worker, WorkerReplies(w) \/ WorkerRepliesTwice(w)
        PROVE  tiles' = tiles \cup {w} /\ ProcOf[w] \in requested
    BY <2>2 DEF WorkerReplies, WorkerRepliesTwice, IndInv, WorkHasRows
  <2>3. QED
    BY <2>1, <2>2, RowsAndMergesFrame DEF MadeOnRequest
<1>3. QED
  BY <1>1, <1>2, SystemOrchestrator, SystemInvariance, PTL DEF Spec

\* No progress is taken back that was shown as complete.
LEMMA ShownStays ==
  ASSUME WP!TypeOK, MP!TypeOK, TP!TypeOK, TP!Untracked, [SystemNext]_systemVars
  PROVE  Shown \subseteq Shown'
<1> SUFFICES ASSUME NEW p \in Processing, progress[p] >= T!Complete
             PROVE  progress'[p] >= T!Complete
  BY DEF Shown
<1>1. [TP!Next]_TP!vars
  BY TrackerStep
<1>2. T!Complete = TP!Complete
  BY DEF T!Complete, TP!Complete
<1>3. QED
  BY <1>1, <1>2, TP!CompletionStep, TrackerConstants

\* Every step is a step of the abstract processing, or nothing to it.
LEMMA ImageProcessingStep ==
  ASSUME TypeOK, IndInv, WP!TypeOK, MP!TypeOK, MP!MergerInv, TP!TypeOK, TP!Untracked,
         MadeOnRequest, ShownCompleteHasResult', [SystemNext]_systemVars
  PROVE  [IP!Next]_IP!vars
<1> DEFINE twice == secondCallbacks > 0
<1>0. /\ IP!vars = <<requested, tiles, Built, Shown, twice>>
      /\ IP!vars' = <<requested', tiles', Built', Shown', twice'>>
  BY DEF IP!vars, Built, Shown
<1>1. /\ UNCHANGED result => Built' = Built
      /\ UNCHANGED progress => Shown' = Shown
      /\ UNCHANGED secondCallbacks => twice' = twice
  BY DEF Built, Shown
<1>2. CASE \E p \in Processing : StartMessage(p)
  <2>1. PICK p \in Processing : StartMessage(p)
    BY <1>2
  <2>2. requested' = requested \cup {p} /\ UNCHANGED <<tiles, result, progress, secondCallbacks>>
    BY <2>1 DEF StartMessage, StartEchoProcessing, mergerVars, T!PublishStart, T!row
  <2>3. IP!Request(p)
    BY <1>1, <2>2 DEF IP!Request, Built, Shown
  <2>4. QED
    BY <2>3 DEF IP!Next
<1>3. CASE \E t \in Thread : WorkerCallback(t)
  <2>1. PICK t \in Thread : WorkerCallback(t)
    BY <1>3
  <2> DEFINE w == workerMsg[t]
  <2>2. w \in Worker /\ WorkerReplies(w)
    BY <2>1 DEF WorkerCallback, WP!TypeOK
  <2>3. tiles' = tiles \cup {w} /\ ProcOf[w] \in requested /\ UNCHANGED <<requested, result>>
    BY <2>1, <2>2 DEF WorkerCallback, WorkerReplies, IndInv, WorkHasRows, mergerVars
  <2>4. CASE w \in tiles
    <3>1. T!PublishAgain(ProcOf[w])
      BY <2>1, <2>4 DEF WorkerCallback
    <3>2. UNCHANGED progress /\ secondCallbacks' = secondCallbacks + 1 /\ secondCallbacks \in Nat
      BY <3>1, TrackerConstants DEF T!PublishAgain, T!row, TP!TypeOK, TP!TrackerAssumption
    <3>3. twice' = TRUE
      BY <3>2
    <3>4. IP!Recount
      BY <1>1, <2>3, <2>4, <3>2, <3>3 DEF IP!Recount, Built, Shown
    <3>5. QED
      BY <3>4 DEF IP!Next
  <2>5. CASE w \notin tiles
    <3>1. T!PublishWorkerCallback(ProcOf[w])
      BY <2>1, <2>5 DEF WorkerCallback
    <3>2. UNCHANGED <<progress, secondCallbacks>>
      BY <3>1 DEF T!PublishWorkerCallback, T!row
    <3>3. IP!Make(w)
      BY <1>1, <2>3, <3>2 DEF IP!Make, Built, Shown
    <3>4. QED
      BY <2>2, <3>3 DEF IP!Next
  <2>6. QED
    BY <2>4, <2>5
<1>4. CASE \E t \in Thread : MergeCallback(t)
  <2>1. PICK t \in Thread : MergeCallback(t)
    BY <1>4
  <2> DEFINE p == mergerMsg[t].processingId
  <2>2. UNCHANGED <<requested, tiles, result>>
    BY <2>1 DEF MergeCallback, vars, queues, M!SendCallback
  <2>3. CASE p \in reported
    <3>1. T!PublishAgain(p)
      BY <2>1, <2>3 DEF MergeCallback
    <3>2. UNCHANGED progress /\ secondCallbacks' = secondCallbacks + 1 /\ secondCallbacks \in Nat
      BY <3>1, TrackerConstants DEF T!PublishAgain, T!row, TP!TypeOK, TP!TrackerAssumption
    <3>3. twice' = TRUE
      BY <3>2
    <3>4. IP!Recount
      BY <1>1, <2>2, <3>2, <3>3 DEF IP!Recount, Built, Shown
    <3>5. QED
      BY <3>4 DEF IP!Next
  <2>4. CASE p \notin reported
    <3>1. T!PublishMergeCallback(p)
      BY <2>1, <2>4 DEF MergeCallback
    <3>2. UNCHANGED <<progress, secondCallbacks>>
      BY <3>1 DEF T!PublishMergeCallback, T!row
    <3>3. QED
      BY <1>0, <1>1, <2>2, <3>2
  <2>5. QED
    BY <2>3, <2>4
<1>5. CASE Merges
  <2>1. PICK t \in Thread : M!ExistAndIsValid(t) \/ M!CreateVRT(t) \/ M!CreateVRTFails(t) \/ M!Ack(t)
    BY <1>5 DEF Merges
  <2>2. UNCHANGED <<requested, tiles, progress, secondCallbacks>>
    BY <1>5 DEF Merges, vars, queues, trackerVars
  <2>3. CASE M!CreateVRT(t)
    <3> DEFINE m == mergerMsg[t]
    <3>0. PICK p \in Processing : p = m.processingId
      BY <2>3, MP!MessageParts, MergerConstants DEF M!CreateVRT, MP!TypeOK
    <3>1. mergerPc[t] = "build" /\ result' = [result EXCEPT ![p] = m.tileURLs]
      BY <2>3, <3>0 DEF M!CreateVRT
    <3>2. \E i \in DOMAIN mergeQ : mergeQ[i] = m
      BY <3>1 DEF MP!MergerInv, MP!MergeConsumers
    <3>3. m \in EchoMergeMessage
      BY <3>2 DEF TypeOK
    <3>4. m.tileURLs # {}
      BY <3>1, <3>2, MP!MessageParts, MergerConstants DEF MP!TypeOK
    <3>5. WorkersOf(p) \subseteq tiles
      BY <3>0, <3>2 DEF IndInv, MergeBarrier
    <3>6. p \in requested
      <4>1. PICK w \in WorkersOf(p) : TRUE
        BY SystemAssumption
      <4>2. w \in tiles /\ ProcOf[w] = p
        BY <3>5 DEF WorkersOf
      <4>3. QED
        BY <4>2 DEF MadeOnRequest
    <3>7. Built' = Built \cup {p}
      BY <3>1, <3>4 DEF Built, MP!TypeOK
    <3>8. IP!Tiles(p) \subseteq tiles
      BY <3>5 DEF IP!Tiles, WorkersOf
    <3>9. IP!Build(p)
      BY <1>1, <2>2, <3>6, <3>7, <3>8 DEF IP!Build, Built, Shown
    <3>10. QED
      BY <3>9 DEF IP!Next
  <2>4. CASE ~M!CreateVRT(t)
    <3>1. UNCHANGED result
      BY <2>1, <2>4 DEF M!ExistAndIsValid, M!CreateVRTFails, M!Ack
    <3>2. QED
      BY <1>0, <1>1, <2>2, <3>1
  <2>5. QED
    BY <2>3, <2>4
<1>6. CASE \E p \in Processing : Tracks(T!StartProcessing(p)) \/ Tracks(T!CallbackHandler(p))
  <2>1. PICK p \in Processing : Tracks(T!StartProcessing(p)) \/ Tracks(T!CallbackHandler(p))
    BY <1>6
  <2>2. UNCHANGED <<requested, tiles, result, secondCallbacks>>
    BY <2>1
       DEF Tracks, vars, queues, mergerVars, T!StartProcessing, T!CallbackHandler,
           T!UpdateProcessingWhenWorkerFinished, T!FinishProcessing
  <2>3. \A q \in Processing : q # p => progress'[q] = progress[q]
    BY <2>1
       DEF Tracks, T!StartProcessing, T!CallbackHandler, T!UpdateProcessingWhenWorkerFinished,
           T!FinishProcessing, TP!TypeOK
  <2>4. Shown \subseteq Shown'
    BY ShownStays
  <2>5. CASE p \in Shown \/ p \notin Shown'
    <3>1. Shown' = Shown
      BY <2>3, <2>4, <2>5 DEF Shown
    <3>2. QED
      BY <1>0, <1>1, <2>2, <3>1
  <2>6. CASE p \notin Shown /\ p \in Shown'
    <3>1. Shown' = Shown \cup {p}
      BY <2>3, <2>4, <2>6 DEF Shown
    <3>2. p \in Built \/ twice
      <4>1. secondCallbacks \in Nat
        BY TrackerConstants DEF TP!TypeOK, TP!TrackerAssumption
      <4>2. secondCallbacks' = 0 => p \in Built'
        BY <2>6 DEF ShownCompleteHasResult, Built, Shown
      <4>3. QED
        BY <1>1, <2>2, <4>1, <4>2
    <3>3. IP!Show(p)
      BY <1>1, <2>2, <3>1, <3>2 DEF IP!Show, Built, Shown
    <3>4. QED
      BY <3>3 DEF IP!Next
  <2>7. QED
    BY <2>5, <2>6
<1>7. CASE \E q \in T!Queue : Tracks(T!Ack(q))
  <2>1. UNCHANGED <<requested, tiles, result, progress, secondCallbacks>>
    BY <1>7 DEF Tracks, vars, queues, mergerVars, T!Ack, T!row
  <2>2. QED
    BY <1>0, <1>1, <2>1
<1>8. CASE \/ \E w \in Worker : WorkerMessage(w)
           \/ \E t \in Thread : MergeMessage(t)
           \/ Orchestrates \/ MakesTiles \/ UNCHANGED systemVars
           \/ \E m \in M!EchoMergeMessage : TakesMerge(m)
  <2>1. UNCHANGED <<requested, tiles>>
    BY <1>8
       DEF WorkerMessage, StartEchoWorker, MergeMessage, SendMerge, Orchestrates, MakesTiles,
           TakesMerge, systemVars, vars, queues, ReceiveStartMessage, CreateOrchestrator,
           CreateWorkers, CommitStartedWorker, AckStartMessage, FindByWorkerId, CheckStates,
           CommitCallback, AckCallbackMessage, CallbackFails, StartFails
  <2>2. UNCHANGED <<result, progress, secondCallbacks>>
    BY <1>8
       DEF WorkerMessage, MergeMessage, Orchestrates, MakesTiles, TakesMerge, systemVars,
           mergerVars, trackerVars, M!SendMerge, M!SendMergeAgain, M!Publish, M!ReceiveMessage
  <2>3. QED
    BY <1>0, <1>1, <2>1, <2>2
<1>9. QED
  BY <1>2, <1>3, <1>4, <1>5, <1>6, <1>7, <1>8 DEF SystemNext

\* The services together implement ImageProcessing: results only of whole sets of tiles, completion
\* shown only of what is built, unless a callback was counted twice, and nothing taken back.
THEOREM SystemRefinement == SystemSpec => ImplementsImageProcessing
<1>1. SystemInit => IP!Init
  BY DEF SystemInit, Init, M!Init, T!Init, IP!Init, T!Complete
<1>2. /\ TypeOK /\ IndInv /\ WP!TypeOK /\ WP!WorkerInv /\ MP!TypeOK /\ MP!MergerInv
      /\ TP!TypeOK /\ TP!ProgressIsEarned /\ TP!Untracked /\ MadeOnRequest
      /\ ShownCompleteHasResult' /\ [SystemNext]_systemVars
      => [IP!Next]_IP!vars
  BY ImageProcessingStep
<1>3. QED
  BY <1>1, <1>2, SystemFacts, TrackerFacts, TrackerRows, TilesAreRequested, CompleteMeansResult,
     PTL
     DEF SystemSpec, IP!Spec, ImplementsImageProcessing

=============================================================================
