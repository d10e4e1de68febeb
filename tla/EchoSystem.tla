----------------------------- MODULE EchoSystem -----------------------------
(***************************************************************************)
(* The services of one processing together: the orchestrator, the worker   *)
(* service, the merger and the tracker, over the queues they share.  A     *)
(* message is one step of the service that publishes it and of every       *)
(* service that gets a copy; everything else is a step of one service.     *)
(* What the components leave to an environment (WorkerReplies,             *)
(* PublishMergeCallback, SendMerge...) is what the others really do here.  *)
(*                                                                         *)
(* Failures are those of the orchestrator: they are what makes it publish  *)
(* a message twice, and the others must live with it.  Their own deaths    *)
(* are in their modules.  No grid is empty.                                *)
(***************************************************************************)
EXTENDS EchoOrchestrator, FiniteSets

CONSTANT NoMessage

VARIABLES
  \* -- worker service -------------------------------------------------------
  dispatched, workerReady, callbacks, file, workerPc, workerMsg, totalWorkers,
  \* -- merger -----------------------------------------------------------------
  mergeReady, result, reported, mergerPc, mergerMsg,
  \* -- tracker ------------------------------------------------------------------
  ready, unacked, tracked, progress, maxProgress,
  \* -- messages published once more -----------------------------------------------
  secondDispatches, secondMerges, secondCallbacks

workerVars  == <<dispatched, workerReady, callbacks, file, workerPc, workerMsg, totalWorkers,
                 secondDispatches>>
mergerVars  == <<mergeReady, result, reported, mergerPc, mergerMsg, secondMerges>>
trackerVars == <<ready, unacked, tracked, progress, maxProgress, secondCallbacks>>
systemVars  == <<vars, workerVars, mergerVars, trackerVars>>

GridSize(p) == Cardinality(WorkersOf(p))

ASSUME SystemAssumption ==
  /\ \A p \in Processing : IsFiniteSet(WorkersOf(p)) /\ WorkersOf(p) # {}
  /\ NoMessage \notin EchoMergeMessage

\* Bound: more messages published again than the failures can cause (ServicesFitTogether).
MaxDuplicates == 2 * MaxFaults + 1

W == INSTANCE EchoWorker WITH
       TotalWorkers <- [w \in Worker |-> GridSize(ProcOf[w])], Unreadable <- {},
       workerQ <- workerReady, pc <- workerPc, msg <- workerMsg,
       MaxFaults <- MaxDuplicates, faults <- secondDispatches

M == INSTANCE EchoMerger WITH
       published <- {mergeQ[i] : i \in DOMAIN mergeQ},
       mergeQ <- mergeReady, pc <- mergerPc, msg <- mergerMsg,
       MaxFaults <- MaxDuplicates, faults <- secondMerges

T == INSTANCE EchoTracker WITH
       TotalWorkers <- [p \in Processing |-> GridSize(p)], Elapsed <- {},
       finishedWorkers <- [p \in Processing |-> Cardinality(tiles \cap WorkersOf(p))],
       merged <- reported,
       MaxFaults <- MaxDuplicates, faults <- secondCallbacks

SystemInit == Init /\ W!Init /\ M!Init /\ T!Init

-----------------------------------------------------------------------------
(* Messages. *)

\* ProcessingService.start
StartMessage(p) ==
  /\ StartEchoProcessing(p) /\ T!PublishStart(p)
  /\ UNCHANGED <<workerVars, mergerVars>>

\* startEchoWorker
WorkerMessage(w) ==
  /\ StartEchoWorker(w)
  /\ W!Dispatch(w) \/ W!DispatchAgain(w)
  /\ UNCHANGED <<mergerVars, trackerVars>>

\* callbackEchoWorker
MergeMessage(t) ==
  /\ SendMerge(t)
  /\ LET m == mergeQ'[Len(mergeQ')] IN M!SendMerge(m) \/ M!SendMergeAgain(m)
  /\ UNCHANGED <<workerVars, trackerVars>>

\* EchoWorkerService.start: the exchange copies the callback into two queues.
WorkerCallback(t) ==
  LET w == workerMsg[t]
      p == ProcOf[w]
  IN  /\ workerPc[t] = "callback"
      /\ WorkerReplies(w)
      /\ W!SendCallback(t)
      /\ IF w \in tiles THEN T!PublishAgain(p) ELSE T!PublishWorkerCallback(p)
      /\ ready'["worker.callback"] # ready["worker.callback"]
      /\ UNCHANGED mergerVars

\* EchoMergerService.start; the orchestrator ignores its copy.
MergeCallback(t) ==
  LET p == mergerMsg[t].processingId
  IN  /\ mergerPc[t] = "callback"
      /\ UNCHANGED vars
      /\ M!SendCallback(t)
      /\ IF p \in reported THEN T!PublishAgain(p) ELSE T!PublishMergeCallback(p)
      /\ ready'["merge.callback"] # ready["merge.callback"]
      /\ UNCHANGED workerVars

-----------------------------------------------------------------------------
(* Steps of one service. *)

Orchestrates ==
  /\ \/ \E p \in Processing : ReceiveStartMessage(p)
     \/ CreateOrchestrator \/ CreateWorkers \/ CommitStartedWorker \/ AckStartMessage
     \/ \E t \in Thread :
          \/ \E w \in Worker : FindByWorkerId(t, w)
          \/ CheckStates(t) \/ CommitCallback(t) \/ AckCallbackMessage(t) \/ CallbackFails(t)
     \/ StartFails
  /\ UNCHANGED <<workerVars, mergerVars, trackerVars>>

MakesTiles ==
  /\ UNCHANGED <<vars, mergerVars, trackerVars>>
  /\ \E t \in Thread :
       \/ \E w \in Worker : W!ReceiveMessage(t, w)
       \/ W!ExistAndIsValid(t) \/ W!CreateTile(t) \/ W!WarpTile(t) \/ W!Ack(t)

TakesMerge(m) ==
  /\ UNCHANGED <<vars, workerVars, trackerVars>>
  /\ \E t \in Thread : M!ReceiveMessage(t, m)

Merges ==
  /\ UNCHANGED <<vars, workerVars, trackerVars>>
  /\ \E t \in Thread : M!ExistAndIsValid(t) \/ M!CreateVRT(t) \/ M!CreateVRTFails(t) \/ M!Ack(t)

Tracks(A) == UNCHANGED <<vars, workerVars, mergerVars>> /\ A

SystemNext ==
  \/ \E p \in Processing : StartMessage(p)
  \/ \E w \in Worker : WorkerMessage(w)
  \/ \E t \in Thread : MergeMessage(t) \/ WorkerCallback(t) \/ MergeCallback(t)
  \/ Orchestrates \/ MakesTiles \/ Merges
  \/ \E m \in M!EchoMergeMessage : TakesMerge(m)
  \/ \E p \in Processing : Tracks(T!StartProcessing(p)) \/ Tracks(T!CallbackHandler(p))
  \/ \E q \in T!Queue : Tracks(T!Ack(q))

SystemSpec == SystemInit /\ [][SystemNext]_systemVars

-----------------------------------------------------------------------------
(* Properties. *)

\* What the services' modules assume of each other is what the others do: every message the
\* orchestrator takes as unanswered is in the queue or in the hands of a worker consumer, the
\* merger calls back only when the tracker has a message of every worker in its queue or in
\* its row, and a failure of the orchestrator makes at most one worker message and one merge
\* message be published again, and each of these one callback: no bound keeps one back.
ServicesFitTogether ==
  /\ \A w \in Worker :
       workerQ[w] = workerReady[w]
                    + Cardinality({t \in Thread : workerMsg[t] = w /\ workerPc[t] # "ack"})
  /\ \A t \in Thread :
       mergerPc[t] = "callback" => WorkersOf(mergerMsg[t].processingId) \subseteq tiles
  /\ secondDispatches <= faults
  /\ secondMerges <= faults
  /\ secondCallbacks <= secondDispatches + secondMerges

\* A result is built from finished tiles only, although a start or a callback that failed
\* makes the orchestrator ask again for tiles and merges that are under way.
ResultHasCompleteTiles == \A p \in Processing : \A w \in result[p] : file[w] = "complete"

\* Nothing is shown complete before its result is there, unless a callback was counted
\* twice: four services agree on what is done.
ShownCompleteHasResult ==
  secondCallbacks = 0 => \A p \in Processing : progress[p] >= T!Complete => result[p] # {}

IP == INSTANCE ImageProcessing WITH
        made      <- tiles,
        built     <- {p \in Processing : result[p] # {}},
        shown     <- {p \in Processing : progress[p] >= T!Complete},
        recounted <- secondCallbacks > 0

\* The services together do what a user asks of them: a result only when every tile is
\* made, completion shown only of what is built, unless a callback was counted twice, and
\* no tile, result or completion ever taken back, whatever fails in between.
ImplementsImageProcessing == IP!Spec

=============================================================================
