----------------------------- MODULE EchoMerger -----------------------------
(***************************************************************************)
(* The echo-merger service: a consumer takes a merge message, builds the   *)
(* result file of the processing unless it opens already, publishes the    *)
(* callback and acknowledges.  As for tiles, the file is the only memory:  *)
(* whoever comes first decides which tiles the result is made of.          *)
(*                                                                         *)
(* The result is a .vrt, a small text that the last call writes as a       *)
(* whole; a file cut short does not open, which is no file.  GDAL is       *)
(* external: a null in the list of tiles makes BuildVRT fail or is left    *)
(* out; tiles whose URL is listed are taken to open (EchoWorker says when  *)
(* a reported tile is complete).                                           *)
(***************************************************************************)
EXTENDS Naturals

CONSTANTS
  Processing,
  Worker,       \* worker identifiers: one tile each
  ProcOf,       \* the processing each worker belongs to
  Thread,       \* consumers of queue.processing.echo.merge
  NoMessage,
  MaxFaults     \* bound: deaths of consumers and second merge messages

\* tileURLs lists the URLs of the message's list that are not null.
WorkersOf(p) == {w \in Worker : ProcOf[w] = p}

EchoMergeMessage ==
  {m \in [processingId : Processing, tileURLs : (SUBSET Worker) \ {{}}] :
     m.tileURLs \subseteq WorkersOf(m.processingId)}

ASSUME MergerAssumption ==
  /\ ProcOf \in [Worker -> Processing]
  /\ NoMessage \notin EchoMergeMessage
  /\ MaxFaults \in Nat

VARIABLES
  published,  \* merge messages the orchestrator has published
  mergeQ,     \* queue.processing.echo.merge: ready messages
  result,     \* tiles the result file of each processing was built from, {} if none
  reported,   \* processings with a merge callback
  pc, msg,    \* of each consumer
  faults

consumers == <<pc, msg>>
vars      == <<published, mergeQ, result, reported, consumers, faults>>

Pc == {"idle", "check", "build", "callback", "ack"}

Whole(m) == m.tileURLs = WorkersOf(m.processingId)

Init ==
  /\ published = {}
  /\ mergeQ = [m \in EchoMergeMessage |-> 0]
  /\ result = [p \in Processing |-> {}]
  /\ reported = {}
  /\ pc = [t \in Thread |-> "idle"]
  /\ msg = [t \in Thread |-> NoMessage]
  /\ faults = 0

-----------------------------------------------------------------------------
(* The orchestrator: a null stands in its list for a tile URL that a late commit of      *)
(* startEchoWorker took back between EchoWorkerService's two queries.                     *)

Merging(p) == \E m \in published : m.processingId = p

Publish(m) ==
  /\ published' = published \cup {m}
  /\ mergeQ' = [mergeQ EXCEPT ![m] = @ + 1]
  /\ UNCHANGED <<result, reported, consumers>>

SendMerge(m) ==
  /\ ~Merging(m.processingId)
  /\ Publish(m)
  /\ UNCHANGED faults

\* A callback transaction published the merge and rolled back; its message came again.
SendMergeAgain(m) ==
  /\ Merging(m.processingId)
  /\ faults < MaxFaults
  /\ faults' = faults + 1
  /\ Publish(m)

-----------------------------------------------------------------------------
(* Listener.receiveMessage and EchoMergerService.start. *)

Goto(t, label) == pc' = [pc EXCEPT ![t] = label]

\* Mutant: the message was acknowledged when it was delivered.
RequeueNothing(t) ==
  /\ UNCHANGED mergeQ
  /\ Goto(t, "idle")
  /\ msg' = [msg EXCEPT ![t] = NoMessage]

Requeue(t) ==
  /\ mergeQ' = [mergeQ EXCEPT ![msg[t]] = @ + 1]
  /\ Goto(t, "idle")
  /\ msg' = [msg EXCEPT ![t] = NoMessage]

ReceiveMessage(t, m) ==
  /\ pc[t] = "idle"
  /\ mergeQ[m] > 0
  /\ mergeQ' = [mergeQ EXCEPT ![m] = @ - 1]
  /\ msg' = [msg EXCEPT ![t] = m]
  /\ Goto(t, "check")
  /\ UNCHANGED <<published, result, reported, faults>>

\* Mutant: the negation of the test is lost.
InvertedTest(t) ==
  /\ pc[t] = "check"
  /\ Goto(t, IF result[msg[t].processingId] = {} THEN "callback" ELSE "build")
  /\ UNCHANGED <<published, mergeQ, result, reported, msg, faults>>

ExistAndIsValid(t) ==
  /\ pc[t] = "check"
  /\ Goto(t, IF result[msg[t].processingId] = {} THEN "build" ELSE "callback")
  /\ UNCHANGED <<published, mergeQ, result, reported, msg, faults>>

CreateVRT(t) ==
  /\ pc[t] = "build"
  /\ result' = [result EXCEPT ![msg[t].processingId] = msg[t].tileURLs]
  /\ Goto(t, "callback")
  /\ UNCHANGED <<published, mergeQ, reported, msg, faults>>

\* BuildVRT gives null, its first use throws, the message is requeued.
CreateVRTFails(t) ==
  /\ pc[t] = "build"
  /\ ~Whole(msg[t])
  /\ Requeue(t)
  /\ UNCHANGED <<published, result, reported, faults>>

SendCallback(t) ==
  /\ pc[t] = "callback"
  /\ reported' = reported \cup {msg[t].processingId}
  /\ Goto(t, "ack")
  /\ UNCHANGED <<published, mergeQ, result, msg, faults>>

Ack(t) ==
  /\ pc[t] = "ack"
  /\ Goto(t, "idle")
  /\ msg' = [msg EXCEPT ![t] = NoMessage]
  /\ UNCHANGED <<published, mergeQ, result, reported, faults>>

\* The consumer dies wherever it is: the file stays, the message comes back.
Die(t) ==
  /\ pc[t] # "idle"
  /\ faults < MaxFaults
  /\ faults' = faults + 1
  /\ Requeue(t)
  /\ UNCHANGED <<published, result, reported>>

-----------------------------------------------------------------------------
Quiescent ==
  /\ \A p \in Processing : Merging(p)
  /\ \A m \in EchoMergeMessage : mergeQ[m] = 0
  /\ \A t \in Thread : pc[t] = "idle"

Wait == Quiescent /\ UNCHANGED vars

Consumer(t) ==
  ExistAndIsValid(t) \/ CreateVRT(t) \/ CreateVRTFails(t) \/ SendCallback(t) \/ Ack(t)

Next ==
  \/ \E m \in EchoMergeMessage : SendMerge(m) \/ SendMergeAgain(m)
  \/ \E t \in Thread : \E m \in EchoMergeMessage : ReceiveMessage(t, m)
  \/ \E t \in Thread : Consumer(t) \/ Die(t)
  \/ Wait

Spec == Init /\ [][Next]_vars

\* Consumers run; a message that comes back again and again does not keep another one from
\* being delivered.
FairSpec ==
  /\ Spec
  /\ \A t \in Thread : WF_vars(Consumer(t))
  /\ \A m \in EchoMergeMessage : SF_vars(\E t \in Thread : ReceiveMessage(t, m))

-----------------------------------------------------------------------------
(* Properties. *)

TypeOK ==
  /\ published \subseteq EchoMergeMessage
  /\ mergeQ \in [EchoMergeMessage -> Nat]
  /\ result \in [Processing -> SUBSET Worker]
  /\ reported \subseteq Processing
  /\ pc \in [Thread -> Pc]
  /\ msg \in [Thread -> EchoMergeMessage \cup {NoMessage}]
  /\ \A t \in Thread : pc[t] # "idle" => msg[t] \in EchoMergeMessage
  /\ faults \in 0..MaxFaults

\* A callback names a file that exists, and unless a list with a null was published for the
\* processing the file is built from all its tiles, through deaths and second messages.
ReportedResult ==
  \A p \in reported :
    /\ result[p] # {}
    /\ (\A m \in published : m.processingId = p => Whole(m)) => result[p] = WorkersOf(p)

\* A merge message is queued, in the hands of a consumer, or its processing is reported.
NoMergeIsForgotten ==
  \A m \in published :
    mergeQ[m] > 0 \/ (\E t \in Thread : msg[t] = m) \/ m.processingId \in reported

\* With one consumer a result is built once: second messages, also with another list, and
\* redeliveries leave it alone (existAndIsValid before createVRT).
ResultIsKept == [][\A p \in Processing : result[p] # {} => result'[p] = result[p]]_vars

\* A processing whose merge lists all tiles is reported in the end, also next to a message
\* with a null that fails at every delivery.
EveryMergeIsReported ==
  \A m \in EchoMergeMessage :
    Whole(m) => (m \in published ~> m.processingId \in reported)

=============================================================================
