-------------------------- MODULE EchoOrchestrator --------------------------
(***************************************************************************)
(* The echo-orchestrator service: it turns a start message into one row    *)
(* and one message per tile (map), collects the callbacks of the tiles and *)
(* publishes a merge message when the database shows every tile DONE       *)
(* (reduce).                                                               *)
(*                                                                         *)
(* Three things make it hard, and the model keeps all of them.             *)
(*  - The database runs at READ COMMITTED: a transaction reads what is     *)
(*    committed at each statement, an UPDATE writes every column of its    *)
(*    row and holds the row's lock to the end of the transaction.          *)
(*  - RabbitTemplate is not transacted: a message is out as soon as        *)
(*    convertAndSend returns, before the surrounding transaction commits,  *)
(*    and stays out when that transaction rolls back.                      *)
(*  - A message is acknowledged when its handler returns; when the handler *)
(*    throws or the process dies it is put back and delivered again.       *)
(*                                                                         *)
(* The workers and the controller appear as environment actions.           *)
(***************************************************************************)
EXTENDS Naturals, Sequences, FiniteSets

CONSTANTS
  Processing,   \* processing identifiers (one UUID per accepted request)
  Worker,       \* worker identifiers: one row and one tile each
  ProcOf,       \* the processing each worker belongs to
  Thread,       \* consumers of the callback queue (concurrent.worker.callback)
  NoProcessing, \* the start consumer holds no message
  NoWorker,     \* a thread holds no worker
  MaxFaults     \* bound: exceptions and crashes in one behaviour

ASSUME ConstantsAssumption ==
  /\ ProcOf \in [Worker -> Processing]
  /\ NoProcessing \notin Processing
  /\ NoWorker \notin Worker
  /\ MaxFaults \in Nat

VARIABLES
  requested,     \* processings the controller has accepted
  \* -- RabbitMQ ----------------------------------------------------------
  startQ,        \* queue.processing.echo.start: ready messages per processing
  workerQ,       \* queue.processing.echo.worker: messages per worker
  callbackQ,     \* queue.processing.echo.worker.callback: ready, per worker
  mergeQ,        \* queue.processing.echo.merge: messages in publication order
  \* -- bucket ------------------------------------------------------------
  tiles,         \* workers whose tile the worker service has reported
  \* -- committed database rows -------------------------------------------
  orchestrators, \* processings with an EchoOrchestrator row
  state,         \* state column of each EchoWorker row, or "ABSENT"
  tileURL,       \* workers whose tileURL column is not null
  \* -- the consumer of the start queue -------------------------------------
  startPc, startMsg,
  todo,          \* workers the in-memory list holds in state INIT
  current,       \* worker of the open startEchoWorker transaction
  \* -- the consumers of the callback queue -----------------------------------
  cbPc, cbMsg,
  dirty,         \* threads whose managed EchoWorker differs from the loaded row
  \* -- bound ---------------------------------------------------------------
  faults

queues  == <<startQ, workerQ, callbackQ, mergeQ>>
rows    == <<orchestrators, state, tileURL>>
starter == <<startPc, startMsg, todo, current>>
callers == <<cbPc, cbMsg, dirty>>
vars    == <<requested, queues, tiles, rows, starter, callers, faults>>

State == {"INIT", "PROCESSING", "DONE"}

StartPc == {"idle", "createOrchestrator", "createWorkers", "startWorkers", "commit"}

CallbackPc == {"idle", "check", "merge", "commit", "ack"}

\* The workers of a processing: one per cell of its grid.
WorkersOf(p) == {w \in Worker : ProcOf[w] = p}

\* tileURLs lists the URLs of the message's list that are not null.
EchoMergeMessage == [processingId : Processing, tileURLs : SUBSET Worker]

-----------------------------------------------------------------------------
(* Repository queries on the committed rows. *)

ExistsByProcessingId(p) == \E w \in WorkersOf(p) : state[w] # "ABSENT"

FindByProcessingId(p) == {w \in WorkersOf(p) : state[w] # "ABSENT"}

\* The rows an open callback transaction has updated and still locks.
Holds(t, w) == t \in dirty /\ cbPc[t] \in {"merge", "commit"} /\ cbMsg[t] = w

RowLocked(w) == \E t \in Thread : Holds(t, w)

\* Mutant: the query does not flush the thread's own change first.
StateSeenUnflushed(t, w) == state[w]

\* Mutant: the consumers share one persistence context.
StateSeenInSharedSession(t, w) ==
  IF \E u \in dirty : w = cbMsg[u] THEN "DONE" ELSE state[w]

\* What the distinct query of thread t sees: committed rows, its own UPDATE first.
StateSeenBy(t, w) == IF t \in dirty /\ w = cbMsg[t] THEN "DONE" ELSE state[w]

FindDistinctState(t, p) == {StateSeenBy(t, w) : w \in FindByProcessingId(p)}

Init ==
  /\ requested = {}
  /\ startQ = [p \in Processing |-> 0]
  /\ workerQ = [w \in Worker |-> 0]
  /\ callbackQ = [w \in Worker |-> 0]
  /\ mergeQ = <<>>
  /\ tiles = {}
  /\ orchestrators = {}
  /\ state = [w \in Worker |-> "ABSENT"]
  /\ tileURL = {}
  /\ startPc = "idle" /\ startMsg = NoProcessing /\ todo = {} /\ current = NoWorker
  /\ cbPc = [t \in Thread |-> "idle"]
  /\ cbMsg = [t \in Thread |-> NoWorker]
  /\ dirty = {}
  /\ faults = 0

-----------------------------------------------------------------------------
(* Environment: the controller and the worker service. *)

\* POST /processing/echo: a fresh processing, one start message.
StartEchoProcessing(p) ==
  /\ p \notin requested
  /\ requested' = requested \cup {p}
  /\ startQ' = [startQ EXCEPT ![p] = @ + 1]
  /\ UNCHANGED <<workerQ, callbackQ, mergeQ, tiles, rows, starter, callers, faults>>

\* A worker makes the tile, publishes the callback and acknowledges.
WorkerReplies(w) ==
  /\ workerQ[w] > 0
  /\ workerQ' = [workerQ EXCEPT ![w] = @ - 1]
  /\ callbackQ' = [callbackQ EXCEPT ![w] = @ + 1]
  /\ tiles' = tiles \cup {w}
  /\ UNCHANGED <<requested, startQ, mergeQ, rows, starter, callers, faults>>

\* A worker dies between publishing the callback and acknowledging: its message
\* will be delivered, and answered, a second time.
WorkerRepliesTwice(w) ==
  /\ workerQ[w] > 0
  /\ faults < MaxFaults
  /\ faults' = faults + 1
  /\ callbackQ' = [callbackQ EXCEPT ![w] = @ + 1]
  /\ tiles' = tiles \cup {w}
  /\ UNCHANGED <<requested, startQ, workerQ, mergeQ, rows, starter, callers>>

-----------------------------------------------------------------------------
(* Listener.receiveStartMessage and EchoService.start: one consumer. *)

ReceiveStartMessage(p) ==
  /\ startPc = "idle"
  /\ startQ[p] > 0
  /\ startQ' = [startQ EXCEPT ![p] = @ - 1]
  /\ startMsg' = p
  /\ startPc' = "createOrchestrator"
  /\ UNCHANGED <<requested, workerQ, callbackQ, mergeQ, tiles, rows, todo, current,
                 callers, faults>>

\* First transaction: find the orchestrator row or insert it.
CreateOrchestrator ==
  /\ startPc = "createOrchestrator"
  /\ orchestrators' = orchestrators \cup {startMsg}
  /\ startPc' = "createWorkers"
  /\ UNCHANGED <<requested, queues, tiles, state, tileURL, startMsg, todo, current,
                 callers, faults>>

\* Mutant: the failed start is retried in place, it never gives the consumer back.
SplitEmptyGridInPlace ==
  /\ startPc = "createWorkers"
  /\ WorkersOf(startMsg) = {}
  /\ UNCHANGED vars

\* GridService.split throws on an empty grid (a size of zero or less): the start
\* message goes back to its queue, every time it is delivered.
SplitEmptyGrid ==
  /\ startPc = "createWorkers"
  /\ WorkersOf(startMsg) = {}
  /\ startQ' = [startQ EXCEPT ![startMsg] = @ + 1]
  /\ startPc' = "idle" /\ startMsg' = NoProcessing
  /\ UNCHANGED <<requested, workerQ, callbackQ, mergeQ, tiles, rows, todo, current,
                 callers, faults>>

\* Mutant: without a transaction around it, a failure leaves some of the rows behind.
CreateWorkersRowByRow ==
  /\ startPc = "createWorkers"
  /\ \E inserted \in SUBSET {w \in WorkersOf(startMsg) : state[w] = "ABSENT"} :
       /\ state' = [w \in Worker |-> IF w \in inserted THEN "INIT" ELSE state[w]]
       /\ todo' = inserted
  /\ startPc' = "startWorkers"
  /\ UNCHANGED <<requested, queues, tiles, orchestrators, tileURL, startMsg, current,
                 callers, faults>>

\* Second transaction: insert all rows of the grid in state INIT, or read the rows
\* an earlier delivery inserted.  Only the entries in state INIT are started.
CreateWorkers ==
  /\ startPc = "createWorkers"
  /\ WorkersOf(startMsg) # {}
  /\ LET inserted == IF ExistsByProcessingId(startMsg) THEN {} ELSE WorkersOf(startMsg)
     IN  /\ state' = [w \in Worker |-> IF w \in inserted THEN "INIT" ELSE state[w]]
         /\ todo' = inserted \cup {w \in FindByProcessingId(startMsg) : state[w] = "INIT"}
  /\ startPc' = "startWorkers"
  /\ UNCHANGED <<requested, queues, tiles, orchestrators, tileURL, startMsg, current,
                 callers, faults>>

\* One transaction per worker, first part: the detached entity becomes PROCESSING,
\* save() copies it into a managed one, the message is published.
StartEchoWorker(w) ==
  /\ startPc = "startWorkers"
  /\ w \in todo
  /\ workerQ' = [workerQ EXCEPT ![w] = @ + 1]
  /\ todo' = todo \ {w}
  /\ current' = w
  /\ startPc' = "commit"
  /\ UNCHANGED <<requested, startQ, callbackQ, mergeQ, tiles, rows, startMsg, callers,
                 faults>>

\* Second part, the commit: the flush writes every column of the row from the
\* entity read when the list was built (state PROCESSING, no tileURL), whatever
\* the row holds by now, as soon as no callback transaction locks it.  There is no
\* version column, so the overwritten value is not noticed.
CommitStartedWorker ==
  /\ startPc = "commit"
  /\ ~RowLocked(current)
  /\ state' = [state EXCEPT ![current] = "PROCESSING"]
  /\ tileURL' = tileURL \ {current}
  /\ current' = NoWorker
  /\ startPc' = "startWorkers"
  /\ UNCHANGED <<requested, queues, tiles, orchestrators, startMsg, todo, callers, faults>>

\* The handler returns: the container acknowledges the start message.
AckStartMessage ==
  /\ startPc = "startWorkers"
  /\ todo = {}
  /\ startPc' = "idle" /\ startMsg' = NoProcessing
  /\ UNCHANGED <<requested, queues, tiles, rows, todo, current, callers, faults>>

-----------------------------------------------------------------------------
(* Listener.receiveWorkerCallbackMessage and callbackEchoWorker, per thread. *)

\* findByWorkerId loads the row and the setters make it DONE with its tile URL; the
\* entity is dirty unless the row was DONE already.  An unknown worker is skipped.
FindByWorkerId(t, w) ==
  /\ cbPc[t] = "idle"
  /\ callbackQ[w] > 0
  /\ callbackQ' = [callbackQ EXCEPT ![w] = @ - 1]
  /\ cbMsg' = [cbMsg EXCEPT ![t] = w]
  /\ cbPc' = [cbPc EXCEPT ![t] = IF state[w] = "ABSENT" THEN "ack" ELSE "check"]
  /\ dirty' = IF state[w] # "ABSENT" /\ ~(state[w] = "DONE" /\ w \in tileURL)
              THEN dirty \cup {t}
              ELSE dirty
  /\ UNCHANGED <<requested, startQ, workerQ, mergeQ, tiles, rows, starter, faults>>

\* Mutant: the test for a single state is missing.
CheckSomeDone(t) ==
  /\ cbPc[t] = "check"
  /\ t \in dirty => ~RowLocked(cbMsg[t])
  /\ cbPc' = [cbPc EXCEPT ![t] =
                IF "DONE" \in FindDistinctState(t, ProcOf[cbMsg[t]]) THEN "merge"
                ELSE "commit"]
  /\ UNCHANGED <<requested, queues, tiles, rows, starter, cbMsg, dirty, faults>>

\* The query flushes the dirty entity first (an UPDATE, which waits for the row's
\* lock and then holds it) and reads the distinct states of the processing.
CheckStates(t) ==
  /\ cbPc[t] = "check"
  /\ t \in dirty => ~RowLocked(cbMsg[t])
  /\ cbPc' = [cbPc EXCEPT ![t] =
                IF FindDistinctState(t, ProcOf[cbMsg[t]]) = {"DONE"} THEN "merge"
                ELSE "commit"]
  /\ UNCHANGED <<requested, queues, tiles, rows, starter, cbMsg, dirty, faults>>

\* A second query lists the workers (the thread's own entity comes from its
\* session) and the merge message is published, inside the transaction.
SendMerge(t) ==
  LET p == ProcOf[cbMsg[t]]
      urls == {w \in FindByProcessingId(p) : w \in tileURL \/ w = cbMsg[t]}
  IN  /\ cbPc[t] = "merge"
      /\ p \in orchestrators
      /\ mergeQ' = Append(mergeQ, [processingId |-> p, tileURLs |-> urls])
      /\ cbPc' = [cbPc EXCEPT ![t] = "commit"]
      /\ UNCHANGED <<requested, startQ, workerQ, callbackQ, tiles, rows, starter,
                     cbMsg, dirty, faults>>

CommitCallback(t) ==
  /\ cbPc[t] = "commit"
  /\ IF t \in dirty
     THEN /\ state' = [state EXCEPT ![cbMsg[t]] = "DONE"]
          /\ tileURL' = tileURL \cup {cbMsg[t]}
     ELSE UNCHANGED <<state, tileURL>>
  /\ dirty' = dirty \ {t}
  /\ cbPc' = [cbPc EXCEPT ![t] = "ack"]
  /\ UNCHANGED <<requested, queues, tiles, orchestrators, starter, cbMsg, faults>>

AckCallbackMessage(t) ==
  /\ cbPc[t] = "ack"
  /\ cbPc' = [cbPc EXCEPT ![t] = "idle"]
  /\ cbMsg' = [cbMsg EXCEPT ![t] = NoWorker]
  /\ UNCHANGED <<requested, queues, tiles, rows, starter, dirty, faults>>

-----------------------------------------------------------------------------
(* Faults: an exception in a handler, a lost connection, the end of the process  *)
(* (the latter is one such step for each handler that is busy).                  *)

\* The start handler throws (an injected error, a database or broker failure) or its
\* process dies: its open transaction rolls back and its message is requeued.
StartFails ==
  /\ startPc # "idle"
  /\ faults < MaxFaults
  /\ faults' = faults + 1
  /\ startQ' = [startQ EXCEPT ![startMsg] = @ + 1]
  /\ startPc' = "idle" /\ startMsg' = NoProcessing /\ todo' = {} /\ current' = NoWorker
  /\ UNCHANGED <<requested, workerQ, callbackQ, mergeQ, tiles, rows, callers>>

CallbackFails(t) ==
  /\ cbPc[t] # "idle"
  /\ faults < MaxFaults
  /\ faults' = faults + 1
  /\ callbackQ' = [callbackQ EXCEPT ![cbMsg[t]] = @ + 1]
  /\ cbPc' = [cbPc EXCEPT ![t] = "idle"]
  /\ cbMsg' = [cbMsg EXCEPT ![t] = NoWorker]
  /\ dirty' = dirty \ {t}
  /\ UNCHANGED <<requested, startQ, workerQ, mergeQ, tiles, rows, starter>>

-----------------------------------------------------------------------------
StartConsumer ==
  \/ CreateOrchestrator \/ SplitEmptyGrid \/ CreateWorkers
  \/ \E w \in Worker : StartEchoWorker(w)
  \/ CommitStartedWorker \/ AckStartMessage

CallbackConsumer(t) ==
  \/ \E w \in Worker : FindByWorkerId(t, w)
  \/ CheckStates(t) \/ SendMerge(t) \/ CommitCallback(t) \/ AckCallbackMessage(t)

Next ==
  \/ \E p \in Processing : StartEchoProcessing(p) \/ ReceiveStartMessage(p)
  \/ \E w \in Worker : WorkerReplies(w) \/ WorkerRepliesTwice(w)
  \/ StartConsumer
  \/ \E t \in Thread : CallbackConsumer(t) \/ CallbackFails(t)
  \/ StartFails

Spec == Init /\ [][Next]_vars

\* Consumers run, the worker service answers.  A start message is not starved by one
\* that is requeued for ever: the consumer works through its prefetched messages in
\* order and a requeued one is delivered again behind them, hence SF.
Fairness ==
  /\ \A p \in Processing : SF_vars(ReceiveStartMessage(p))
  /\ WF_vars(StartConsumer)
  /\ \A t \in Thread : WF_vars(CallbackConsumer(t))
  /\ WF_vars(\E w \in Worker : WorkerReplies(w))

FairSpec == Spec /\ Fairness

-----------------------------------------------------------------------------
(* Properties. *)

TypeOK ==
  /\ requested \subseteq Processing
  /\ startQ \in [Processing -> Nat]
  /\ workerQ \in [Worker -> Nat]
  /\ callbackQ \in [Worker -> Nat]
  /\ mergeQ \in Seq(EchoMergeMessage)
  /\ tiles \subseteq Worker
  /\ orchestrators \subseteq Processing
  /\ state \in [Worker -> State \cup {"ABSENT"}]
  /\ tileURL \subseteq Worker
  /\ startPc \in StartPc
  /\ startMsg \in Processing \cup {NoProcessing}
  /\ startPc # "idle" => startMsg \in Processing
  /\ todo \subseteq Worker
  /\ current \in Worker \cup {NoWorker}
  /\ startPc = "commit" => current \in Worker
  /\ cbPc \in [Thread -> CallbackPc]
  /\ cbMsg \in [Thread -> Worker \cup {NoWorker}]
  /\ \A t \in Thread : cbPc[t] # "idle" => cbMsg[t] \in Worker
  /\ dirty \subseteq Thread
  /\ faults \in 0..MaxFaults

\* The barrier of the map-reduce: a merge message is published only for a processing
\* all of whose tiles have been made, whatever the interleaving of redelivered starts
\* and callbacks (callbackEchoWorker's test that DONE is the only state).
MergeBarrier ==
  \A i \in DOMAIN mergeQ : WorkersOf(mergeQ[i].processingId) \subseteq tiles

\* The start message is acknowledged only when every worker has been handed over: as
\* long as an accepted processing has a row to insert or a row in state INIT, its start
\* message is in the queue or in the hands of the consumer (receiveStartMessage).
StartKeptUntilDispatched ==
  \A w \in Worker :
    ProcOf[w] \in requested /\ state[w] \in {"ABSENT", "INIT"} =>
      startQ[ProcOf[w]] > 0 \/ startMsg = ProcOf[w]

\* No row says PROCESSING for work nobody was given: its message is queued, or its
\* tile is made already (startEchoWorker publishes before it commits).
DispatchedWorkIsNotLost ==
  \A w \in Worker : state[w] = "PROCESSING" => workerQ[w] > 0 \/ w \in tiles

\* A DONE row has its tile URL, and the tile is really there; no other row has a URL
\* (the full-row writes of startEchoWorker and callbackEchoWorker).
DoneHasTile ==
  \A w \in Worker : /\ state[w] = "DONE" <=> w \in tileURL
                    /\ w \in tileURL => w \in tiles

\* A callback never meets the "Can't find worker" branch of callbackEchoWorker, nor the
\* orElseThrow of the orchestrator row: both rows exist before a message can be out.
CallbackFindsItsRows ==
  \A w \in Worker :
    callbackQ[w] > 0 \/ (\E t \in Thread : cbMsg[t] = w) =>
      state[w] # "ABSENT" /\ ProcOf[w] \in orchestrators

\* When the database shows every worker of a processing DONE, its merge message has been
\* published.  True with one callback consumer; two consumers can each miss the
\* other's uncommitted row.
AllDone(p) == WorkersOf(p) # {} /\ \A w \in WorkersOf(p) : state[w] = "DONE"

MergePublished(p) == \E i \in DOMAIN mergeQ : mergeQ[i].processingId = p

AllDoneIsMerged == \A p \in Processing : AllDone(p) => MergePublished(p)

\* A processing is merged once, and a failure costs at most one merge message more, however
\* many callback consumers look at the same rows: of two callbacks at most one sees the
\* other's row committed, and only a message that is put back makes a thread look again.
Merged == {mergeQ[i].processingId : i \in DOMAIN mergeQ}

OneMergePerFailure == Len(mergeQ) <= Cardinality(Merged) + faults

\* A redelivered start message never inserts the rows of its processing again nor puts
\* one back to INIT (the existsByProcessingId test "for idempotent purpose").
RowsCreatedOnce ==
  [][\A w \in Worker : state[w] # "ABSENT" /\ state'[w] # state[w] =>
                         state'[w] \in {"PROCESSING", "DONE"}]_vars

\* Every accepted processing with a non-empty grid has all of its workers dispatched in
\* the end, through redeliveries and next to start messages that are requeued for ever.
EveryWorkerIsDispatched ==
  \A w \in Worker : ProcOf[w] \in requested ~> state[w] \in {"PROCESSING", "DONE"}

\* What the orchestrator is for: an accepted processing is merged in the end.
EveryProcessingIsMerged ==
  \A p \in Processing : p \in requested /\ WorkersOf(p) # {} ~> MergePublished(p)

-----------------------------------------------------------------------------
(* The promise, and the invariant the proofs rest on. *)

MR == INSTANCE MapReduce WITH
        accepted <- requested,
        planned  <- {w \in Worker : state[w] # "ABSENT"},
        mapped   <- tiles,
        reduced  <- {mergeQ[i].processingId : i \in DOMAIN mergeQ}

\* The orchestrator implements the map-reduce promise: rows of a processing are inserted
\* together and once, only planned tiles are made, and a merge waits for all of them.
ImplementsMapReduce == MR!Spec

\* Work exists only for rows that exist: every message, and everything a consumer holds
\* in memory, belongs to an accepted processing whose rows are committed.
WorkHasRows ==
  /\ \A p \in Processing : startQ[p] > 0 => p \in requested
  /\ startPc = "idle" <=> startMsg = NoProcessing
  /\ startPc # "idle" => startMsg \in requested
  /\ startPc \notin {"idle", "createOrchestrator"} => startMsg \in orchestrators
  /\ \A w \in Worker : state[w] # "ABSENT" =>
       ProcOf[w] \in requested \cap orchestrators
  /\ \A v, w \in Worker :
       ProcOf[v] = ProcOf[w] /\ state[v] # "ABSENT" => state[w] # "ABSENT"
  /\ \A w \in Worker : workerQ[w] > 0 => state[w] # "ABSENT"
  /\ \A w \in todo : state[w] # "ABSENT"
  /\ todo # {} => startPc \in {"startWorkers", "commit"}
  /\ startPc = "commit" => state[current] # "ABSENT"
  /\ CallbackFindsItsRows

\* A callback in flight stands for a tile that is made, and a thread on its way to
\* publish a merge has seen all of them.
CallbacksHaveTiles ==
  /\ \A w \in Worker : callbackQ[w] > 0 => w \in tiles
  /\ \A t \in Thread :
       /\ cbPc[t] = "idle" <=> cbMsg[t] = NoWorker
       /\ cbPc[t] # "idle" => cbMsg[t] \in tiles
       /\ t \in dirty => cbPc[t] \in {"check", "merge", "commit"}
       /\ cbPc[t] = "merge" => WorkersOf(ProcOf[cbMsg[t]]) \subseteq tiles

\* What the start consumer still has to do: while it works through the list, the INIT
\* rows of its processing are the ones it has not reached, and the message of an open
\* transaction is out.
StartProgress ==
  /\ startPc \in {"startWorkers", "commit"} =>
       \A w \in WorkersOf(startMsg) :
         /\ state[w] # "ABSENT"
         /\ state[w] = "INIT" => w \in todo \/ (startPc = "commit" /\ w = current)
  /\ startPc = "commit" => workerQ[current] > 0 \/ current \in tiles

\* The inductive invariant of EchoSystemProofs.
IndInv ==
  /\ WorkHasRows
  /\ CallbacksHaveTiles
  /\ StartProgress
  /\ MergeBarrier
  /\ StartKeptUntilDispatched
  /\ DispatchedWorkIsNotLost
  /\ DoneHasTile

\* With one callback consumer: a transaction about to commit the last DONE row of a
\* processing has published the merge.
LastCommitMerges ==
  \A t \in Thread, p \in Processing :
    /\ cbPc[t] = "commit" /\ t \in dirty /\ ProcOf[cbMsg[t]] = p
    /\ \A w \in WorkersOf(p) \ {cbMsg[t]} : state[w] = "DONE"
    => MergePublished(p)

=============================================================================
