---------------------------- MODULE EchoTracker ----------------------------
(***************************************************************************)
(* The tracker service: one row per processing with a progress on ten      *)
(* thousand, fed by three queues that are consumed independently of each   *)
(* other (start, worker callback, merge callback).                         *)
(*                                                                         *)
(* Every handler is one SQL statement, so receiving a message and          *)
(* committing its effect is one action; the acknowledgement is another,    *)
(* and a process that dies in between sees the message again.  A handler   *)
(* that fails before its commit changes nothing: that is stuttering.       *)
(* The columns lastRefresh, creationDate and velocity are left out: no     *)
(* handler reads them to decide anything, and what is shown of them is     *)
(* stated for all the times in Elapsed (TrackerEstimate), negative ones    *)
(* among them: a handler takes its date before its statement, beside the   *)
(* other consumers, so a row may be refreshed with an older date than the  *)
(* one it has.                                                             *)
(***************************************************************************)
EXTENDS TrackerEstimate

CONSTANTS
  Processing,
  TotalWorkers,  \* trackerTotalWorkers of each processing: the size of its grid
  NoProcessing,
  Elapsed,       \* times between refreshes and polls, in milliseconds
  MaxFaults      \* bound: process deaths and duplicated messages

ASSUME TrackerAssumption ==
  /\ TotalWorkers \in [Processing -> Nat \ {0}]
  /\ NoProcessing \notin Processing
  /\ Elapsed \subseteq (-MaxElapsed)..MaxElapsed
  /\ MaxFaults \in Nat

VARIABLES
  ready,        \* messages per queue and processing
  unacked,      \* the message each consumer has applied and not acknowledged
  tracked,      \* processings with a Tracker row
  progress, maxProgress,
  \* -- what the other services have published ------------------------------
  requested,    \* processings the controller accepted
  finishedWorkers, \* workers of each processing that have called back
  merged,       \* processings the merger has called back for
  faults

row      == <<tracked, progress, maxProgress>>
services == <<requested, finishedWorkers, merged>>
vars     == <<ready, unacked, row, services, faults>>

Queue == {"start", "worker.callback", "merge.callback"}

Complete == 10000

Publish(q, p) == ready' = [ready EXCEPT ![q][p] = @ + 1]

\* The consumer of q takes a message; it is idle, and stays busy until it acknowledges.
Receive(q, p) ==
  /\ unacked[q] = NoProcessing
  /\ ready[q][p] > 0
  /\ ready' = [ready EXCEPT ![q][p] = @ - 1]
  /\ unacked' = [unacked EXCEPT ![q] = p]

Init ==
  /\ ready = [q \in Queue |-> [p \in Processing |-> 0]]
  /\ unacked = [q \in Queue |-> NoProcessing]
  /\ tracked = {}
  /\ progress = [p \in Processing |-> 0]
  /\ maxProgress = [p \in Processing |-> 0]
  /\ requested = {}
  /\ finishedWorkers = [p \in Processing |-> 0]
  /\ merged = {}
  /\ faults = 0

-----------------------------------------------------------------------------
(* The publishers: the exchange copies each message into the tracker's queue. *)

PublishStart(p) ==
  /\ p \notin requested
  /\ requested' = requested \cup {p}
  /\ Publish("start", p)
  /\ UNCHANGED <<unacked, row, finishedWorkers, merged, faults>>

PublishWorkerCallback(p) ==
  /\ p \in requested
  /\ finishedWorkers[p] < TotalWorkers[p]
  /\ finishedWorkers' = [finishedWorkers EXCEPT ![p] = @ + 1]
  /\ Publish("worker.callback", p)
  /\ UNCHANGED <<unacked, row, requested, merged, faults>>

\* The merge starts when every worker has called back.
PublishMergeCallback(p) ==
  /\ finishedWorkers[p] = TotalWorkers[p]
  /\ p \notin merged
  /\ merged' = merged \cup {p}
  /\ Publish("merge.callback", p)
  /\ UNCHANGED <<unacked, row, requested, finishedWorkers, faults>>

\* A worker or the merger was given its message twice and answers twice.
PublishAgain(p) ==
  /\ faults < MaxFaults
  /\ faults' = faults + 1
  /\ \/ finishedWorkers[p] > 0 /\ Publish("worker.callback", p)
     \/ p \in merged /\ Publish("merge.callback", p)
  /\ UNCHANGED <<unacked, row, services>>

-----------------------------------------------------------------------------
(* TrackerService. *)

\* Mutant: the row is inserted or overwritten.
StartProcessingUpsert(p) ==
  /\ Receive("start", p)
  /\ tracked' = tracked \cup {p}
  /\ progress' = [progress EXCEPT ![p] = 0]
  /\ maxProgress' = [maxProgress EXCEPT ![p] = 0]
  /\ UNCHANGED <<services, faults>>

\* Insert the row; the unique index on processingId lets only one through.
StartProcessing(p) ==
  /\ Receive("start", p)
  /\ p \notin tracked
  /\ tracked' = tracked \cup {p}
  /\ progress' = [progress EXCEPT ![p] = 0]
  /\ maxProgress' = [maxProgress EXCEPT ![p] = 0]
  /\ UNCHANGED <<services, faults>>

\* The insert violates the unique index: the message is requeued, and so for ever.
StartAgain(p) ==
  /\ unacked["start"] = NoProcessing
  /\ ready["start"][p] > 0
  /\ p \in tracked
  /\ UNCHANGED vars

DeltaProgress(p)    == 9000 \div TotalWorkers[p]
DeltaMaxProgress(p) == (2 * 9000) \div TotalWorkers[p]

\* Mutant: the two deltas are swapped.
UpdateWithSwappedDeltas(p) ==
  /\ Receive("worker.callback", p)
  /\ IF p \in tracked
     THEN /\ progress' = [progress EXCEPT ![p] = @ + DeltaMaxProgress(p)]
          /\ maxProgress' = [maxProgress EXCEPT ![p] = progress[p] + DeltaProgress(p)]
     ELSE UNCHANGED <<progress, maxProgress>>
  /\ UNCHANGED <<tracked, services, faults>>

\* One UPDATE: the right-hand sides read the old row; without a row it updates nothing.
UpdateProcessingWhenWorkerFinished(p) ==
  /\ Receive("worker.callback", p)
  /\ IF p \in tracked
     THEN /\ progress' = [progress EXCEPT ![p] = @ + DeltaProgress(p)]
          /\ maxProgress' = [maxProgress EXCEPT ![p] = progress[p] + DeltaMaxProgress(p)]
     ELSE UNCHANGED <<progress, maxProgress>>
  /\ UNCHANGED <<tracked, services, faults>>

\* Mutant: finished only when all worker callbacks are counted.
FinishIfAllCounted(p) ==
  /\ Receive("merge.callback", p)
  /\ IF p \in tracked /\ progress[p] >= 9000
     THEN /\ progress' = [progress EXCEPT ![p] = Complete]
          /\ maxProgress' = [maxProgress EXCEPT ![p] = Complete]
     ELSE UNCHANGED <<progress, maxProgress>>
  /\ UNCHANGED <<tracked, services, faults>>

FinishProcessing(p) ==
  /\ Receive("merge.callback", p)
  /\ IF p \in tracked
     THEN /\ progress' = [progress EXCEPT ![p] = Complete]
          /\ maxProgress' = [maxProgress EXCEPT ![p] = Complete]
     ELSE UNCHANGED <<progress, maxProgress>>
  /\ UNCHANGED <<tracked, services, faults>>

Ack(q) ==
  /\ unacked[q] # NoProcessing
  /\ unacked' = [unacked EXCEPT ![q] = NoProcessing]
  /\ UNCHANGED <<ready, row, services, faults>>

\* The process dies, or loses its channel, between the commit and the acknowledgement.
DieBeforeAck(q) ==
  /\ unacked[q] # NoProcessing
  /\ faults < MaxFaults
  /\ faults' = faults + 1
  /\ Publish(q, unacked[q])
  /\ unacked' = [unacked EXCEPT ![q] = NoProcessing]
  /\ UNCHANGED <<row, services>>

-----------------------------------------------------------------------------
Quiescent ==
  /\ merged = Processing
  /\ \A q \in Queue : unacked[q] = NoProcessing /\ \A p \in Processing : ready[q][p] = 0

Wait == Quiescent /\ UNCHANGED vars

Publisher(p) ==
  PublishStart(p) \/ PublishWorkerCallback(p) \/ PublishMergeCallback(p) \/ PublishAgain(p)

CallbackHandler(p) == UpdateProcessingWhenWorkerFinished(p) \/ FinishProcessing(p)

Next ==
  \/ \E p \in Processing : Publisher(p) \/ StartProcessing(p) \/ StartAgain(p)
                             \/ CallbackHandler(p)
  \/ \E q \in Queue : Ack(q) \/ DieBeforeAck(q)
  \/ Wait

Spec == Init /\ [][Next]_vars

\* The consumers run.  A start message is not kept out for ever by one that is requeued
\* over and over: the broker offers the queue in order.
FairSpec ==
  /\ Spec
  /\ \A p \in Processing : SF_vars(StartProcessing(p))
  /\ \A p \in Processing : WF_vars(FinishProcessing(p))
  /\ \A q \in Queue : WF_vars(Ack(q))

-----------------------------------------------------------------------------
(* Properties. *)

TypeOK ==
  /\ ready \in [Queue -> [Processing -> Nat]]
  /\ unacked \in [Queue -> Processing \cup {NoProcessing}]
  /\ tracked \subseteq Processing
  /\ progress \in [Processing -> Nat]
  /\ maxProgress \in [Processing -> Nat]
  /\ requested \subseteq Processing
  /\ finishedWorkers \in [Processing -> Nat]
  /\ merged \subseteq Processing
  /\ faults \in 0..MaxFaults

\* The cap of the estimate is never below the progress itself, although the UPDATE computes
\* the cap from the old progress, in whatever order the three queues are drained.
MaxIsAhead == \A p \in Processing : progress[p] <= maxProgress[p]

\* The velocities the row of p can have.  Its insertion and its completion set the velocity
\* to 0 and leave the progress at its cap; a worker callback takes the time elapsed since the
\* last refresh, and its share leaves the progress below the cap (unless it is rounded to 0).
Velocities(p) ==
  IF progress[p] = maxProgress[p] /\ DeltaProgress(p) > 0 THEN {0}
  ELSE {0} \cup {VelocityAfter(e) : e \in Elapsed}

\* The estimate of a row whose last refresh is its insertion or its completion is never behind
\* the progress stored, whatever the dates: such a complete row is shown complete.  After a
\* worker callback it is not behind either, although the estimate reads the time backwards
\* (getProgressPercent) and is cut off at maxProgress, provided the callback was not dated
\* before the refresh that precedes it.  The code does not see to that (Listener.receive...
\* take the dates before the UPDATE): a velocity below 0 shows less than is stored.
EstimateIsNotBehind ==
  \A p \in tracked : \A v \in Velocities(p), e \in Elapsed :
    LET shown == GetProgressPercent(progress[p], maxProgress[p], v, e)
    IN  IF v >= 0 THEN shown >= Percent(progress[p]) ELSE shown <= Percent(progress[p])

\* Without duplicates and deaths no progress is shown that no service has earned: a
\* processing is not shown complete before the merger called back.
ProgressIsEarned ==
  faults = 0 =>
    \A p \in Processing :
      progress[p] * TotalWorkers[p] <=
        9000 * finishedWorkers[p] + (IF p \in merged THEN Complete * TotalWorkers[p] ELSE 0)

\* What is shown complete stays complete, through duplicates, deaths and late callbacks.
CompletionIsStable ==
  [][\A p \in Processing : progress[p] >= Complete => progress'[p] >= Complete]_vars

\* A merge callback that finds the row makes the processing complete in the end.
CompletionIsShown ==
  \A p \in Processing :
    p \in tracked /\ ready["merge.callback"][p] > 0 ~> progress[p] >= Complete

=============================================================================
