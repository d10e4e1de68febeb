----------------------------- MODULE EchoWorker -----------------------------
(***************************************************************************)
(* The echo-worker service: a consumer takes a worker message, makes the   *)
(* tile unless its file is already there, publishes the callback and       *)
(* acknowledges.  The file is the only memory of a tile: a consumer that   *)
(* dies leaves it as it is, and whoever gets the message next decides by   *)
(* opening it.                                                             *)
(*                                                                         *)
(* GDAL and the bucket are external: a file under construction may open or *)
(* not, and two writers of one file may leave it whole or torn.            *)
(***************************************************************************)
EXTENDS Naturals

CONSTANTS
  Worker,        \* worker identifiers: one message and one tile file each
  TotalWorkers,  \* trackerTotalWorkers of each message
  Unreadable,    \* workers whose input image GDAL cannot open
  Thread,        \* consumers, of one process (concurrent.worker) or of several
  NoWorker,
  MaxFaults      \* bound: deaths of consumers and second dispatches

ASSUME WorkerAssumption ==
  /\ TotalWorkers \in [Worker -> Nat \ {0}]
  /\ Unreadable \subseteq Worker
  /\ NoWorker \notin Worker
  /\ MaxFaults \in Nat

VARIABLES
  dispatched,  \* workers the orchestrator has published a message for
  workerQ,     \* queue.processing.echo.worker: ready messages
  callbacks,   \* callback messages published so far
  file,        \* what the bucket holds under the name of each tile
  pc, msg,     \* of each consumer
  totalWorkers,\* the ThreadLocal Context of each consumer
  faults

consumers == <<pc, msg, totalWorkers>>
vars      == <<dispatched, workerQ, callbacks, file, consumers, faults>>

Pc == {"idle", "check", "create", "warp", "callback", "ack"}

\* "partial": created, not closed; "torn": created while another consumer wrote it.
File == {"absent", "partial", "torn", "complete"}

EchoWorkerCallbackMessage == [workerId : Worker, trackerTotalWorkers : Nat]

Init ==
  /\ dispatched = {}
  /\ workerQ = [w \in Worker |-> 0]
  /\ callbacks = {}
  /\ file = [w \in Worker |-> "absent"]
  /\ pc = [t \in Thread |-> "idle"]
  /\ msg = [t \in Thread |-> NoWorker]
  /\ totalWorkers = [t \in Thread |-> 0]
  /\ faults = 0

-----------------------------------------------------------------------------
(* The orchestrator. *)

Dispatch(w) ==
  /\ w \notin dispatched
  /\ dispatched' = dispatched \cup {w}
  /\ workerQ' = [workerQ EXCEPT ![w] = @ + 1]
  /\ UNCHANGED <<callbacks, file, consumers, faults>>

\* startEchoWorker published, its transaction rolled back, the start was redelivered.
DispatchAgain(w) ==
  /\ w \in dispatched
  /\ faults < MaxFaults
  /\ faults' = faults + 1
  /\ workerQ' = [workerQ EXCEPT ![w] = @ + 1]
  /\ UNCHANGED <<dispatched, callbacks, file, consumers>>

-----------------------------------------------------------------------------
(* Listener.receiveMessage and EchoWorkerService.start. *)

Goto(t, label) == pc' = [pc EXCEPT ![t] = label]

\* Mutant: the message was acknowledged when it was delivered.
RequeueNothing(t) ==
  /\ UNCHANGED workerQ
  /\ Goto(t, "idle")
  /\ msg' = [msg EXCEPT ![t] = NoWorker]

\* The message goes back to its queue and the consumer takes another one.
Requeue(t) ==
  /\ workerQ' = [workerQ EXCEPT ![msg[t]] = @ + 1]
  /\ Goto(t, "idle")
  /\ msg' = [msg EXCEPT ![t] = NoWorker]

\* Mutant: one Context for all threads.
SetSharedContext(t, n) == totalWorkers' = [u \in Thread |-> n]

\* The Context of the consumer's own thread.
SetContext(t, n) == totalWorkers' = [totalWorkers EXCEPT ![t] = n]

ReceiveMessage(t, w) ==
  /\ pc[t] = "idle"
  /\ workerQ[w] > 0
  /\ workerQ' = [workerQ EXCEPT ![w] = @ - 1]
  /\ msg' = [msg EXCEPT ![t] = w]
  /\ SetContext(t, TotalWorkers[w])
  /\ Goto(t, "check")
  /\ UNCHANGED <<dispatched, callbacks, file, faults>>

\* ImageService.existAndIsValid only tries to open the file: a missing one does not
\* open, a complete one does, one under construction or left behind may or may not.
Opens(w)       == file[w] # "absent"
DoesNotOpen(w) == file[w] # "complete"

ExistAndIsValid(t) ==
  /\ pc[t] = "check"
  /\ \/ Opens(msg[t]) /\ Goto(t, "callback")
     \/ DoesNotOpen(msg[t]) /\ Goto(t, "create")
  /\ UNCHANGED <<dispatched, workerQ, callbacks, file, msg, totalWorkers, faults>>

\* gdal.Open gives null for the input: its first use throws, the message is requeued.
InputUnreadable(t) ==
  /\ pc[t] = "create"
  /\ msg[t] \in Unreadable
  /\ Requeue(t)
  /\ UNCHANGED <<dispatched, callbacks, file, totalWorkers, faults>>

BeingWritten(w) == \E u \in Thread : pc[u] = "warp" /\ msg[u] = w

\* Mutant: the callback does not wait for the warp.
CreateTileAndReport(t) ==
  /\ pc[t] = "create"
  /\ msg[t] \notin Unreadable
  /\ file' = [file EXCEPT ![msg[t]] = IF BeingWritten(msg[t]) THEN "torn" ELSE "partial"]
  /\ Goto(t, "callback")
  /\ UNCHANGED <<dispatched, workerQ, callbacks, msg, totalWorkers, faults>>

\* Driver.Create truncates the file, also one another consumer writes or has finished.
CreateTile(t) ==
  /\ pc[t] = "create"
  /\ msg[t] \notin Unreadable
  /\ file' = [file EXCEPT ![msg[t]] = IF BeingWritten(msg[t]) THEN "torn" ELSE "partial"]
  /\ Goto(t, "warp")
  /\ UNCHANGED <<dispatched, workerQ, callbacks, msg, totalWorkers, faults>>

\* Warp, and delete() which flushes and closes the file.
WarpTile(t) ==
  /\ pc[t] = "warp"
  /\ \E written \in IF file[msg[t]] = "torn" THEN {"torn", "complete"} ELSE {"complete"} :
       file' = [file EXCEPT ![msg[t]] = written]
  /\ Goto(t, "callback")
  /\ UNCHANGED <<dispatched, workerQ, callbacks, msg, totalWorkers, faults>>

\* The number of workers comes from the thread's Context, not from the message.
SendCallback(t) ==
  /\ pc[t] = "callback"
  /\ callbacks' = callbacks \cup
       {[workerId |-> msg[t], trackerTotalWorkers |-> totalWorkers[t]]}
  /\ Goto(t, "ack")
  /\ UNCHANGED <<dispatched, workerQ, file, msg, totalWorkers, faults>>

Ack(t) ==
  /\ pc[t] = "ack"
  /\ Goto(t, "idle")
  /\ msg' = [msg EXCEPT ![t] = NoWorker]
  /\ UNCHANGED <<dispatched, workerQ, callbacks, file, totalWorkers, faults>>

\* The consumer dies wherever it is: the file stays, the message comes back.
Die(t) ==
  /\ pc[t] # "idle"
  /\ faults < MaxFaults
  /\ faults' = faults + 1
  /\ Requeue(t)
  /\ UNCHANGED <<dispatched, callbacks, file, totalWorkers>>

-----------------------------------------------------------------------------
Consumer(t) ==
  \/ ExistAndIsValid(t) \/ InputUnreadable(t) \/ CreateTile(t) \/ WarpTile(t)
  \/ SendCallback(t) \/ Ack(t)

Next ==
  \/ \E w \in Worker : Dispatch(w) \/ DispatchAgain(w)
  \/ \E t \in Thread : \E w \in Worker : ReceiveMessage(t, w)
  \/ \E t \in Thread : Consumer(t) \/ Die(t)

Spec == Init /\ [][Next]_vars

\* Consumers run; the broker offers the queue in order, so that a message that comes back
\* again and again does not keep another one from being delivered.
FairSpec ==
  /\ Spec
  /\ \A t \in Thread : WF_vars(Consumer(t))
  /\ \A w \in Worker : SF_vars(\E t \in Thread : ReceiveMessage(t, w))

-----------------------------------------------------------------------------
(* Properties. *)

TypeOK ==
  /\ dispatched \subseteq Worker
  /\ workerQ \in [Worker -> Nat]
  /\ callbacks \subseteq EchoWorkerCallbackMessage
  /\ file \in [Worker -> File]
  /\ pc \in [Thread -> Pc]
  /\ msg \in [Thread -> Worker \cup {NoWorker}]
  /\ \A t \in Thread : pc[t] # "idle" => msg[t] \in Worker
  /\ totalWorkers \in [Thread -> Nat]
  /\ faults \in 0..MaxFaults

Reported(w) == \E c \in callbacks : c.workerId = w

\* Each callback carries the number of workers of its own message, although start() takes
\* it from a ThreadLocal that the listener fills and consumers handle messages of
\* processings of different sizes at the same time.
CallbackTotalIsOwn ==
  \A c \in callbacks : c.trackerTotalWorkers = TotalWorkers[c.workerId]

\* A dispatched tile is queued, in the hands of a consumer, or reported.
NoTileIsForgotten ==
  \A w \in dispatched :
    workerQ[w] > 0 \/ (\E t \in Thread : msg[t] = w) \/ Reported(w)

\* With one consumer a redelivered message never touches a complete tile again.
CompleteTileIsKept ==
  [][\A w \in Worker : file[w] = "complete" => file'[w] = "complete"]_vars

\* Every tile whose input can be read is reported in the end, next to messages that fail at
\* every delivery and through the deaths of consumers.
EveryTileIsReported ==
  \A w \in Worker \ Unreadable : w \in dispatched ~> Reported(w)

=============================================================================
