------------------------- MODULE EchoTrackerProofs -------------------------
(***************************************************************************)
(* Proofs about EchoTracker, for any processings, any sizes of their grids *)
(* and any number of duplicates and deaths.                                *)
(***************************************************************************)
EXTENDS EchoTracker, TLAPS

\* The share of one worker is a natural number, and its cap is at least the share.
LEMMA DeltaBounds ==
  ASSUME NEW p \in Processing
  PROVE  /\ DeltaProgress(p) \in Nat
         /\ DeltaMaxProgress(p) \in Nat
         /\ DeltaProgress(p) <= DeltaMaxProgress(p)
<1>1. TotalWorkers[p] \in Nat /\ TotalWorkers[p] > 0
  BY TrackerAssumption
<1>2. \A n \in Nat : n > 0 => /\ 9000 \div n \in Nat
                             /\ 18000 \div n \in Nat
                             /\ 9000 \div n <= 18000 \div n
  OBVIOUS
<1>3. QED
  BY <1>1, <1>2 DEF DeltaProgress, DeltaMaxProgress

\* A message taken from or put back into a queue keeps the types of the queues.
LEMMA QueueStep ==
  ASSUME TypeOK, NEW q \in Queue, NEW p \in Processing
  PROVE  /\ Publish(q, p) => ready' \in [Queue -> [Processing -> Nat]]
         /\ Receive(q, p) => /\ ready' \in [Queue -> [Processing -> Nat]]
                             /\ unacked' \in [Queue -> Processing \cup {NoProcessing}]
<1>1. ready \in [Queue -> [Processing -> Nat]] /\ ready[q] \in [Processing -> Nat]
  BY DEF TypeOK
<1>2. ASSUME Publish(q, p) PROVE ready' \in [Queue -> [Processing -> Nat]]
  BY <1>1, <1>2 DEF Publish
<1>3. ASSUME Receive(q, p)
      PROVE  /\ ready' \in [Queue -> [Processing -> Nat]]
             /\ unacked' \in [Queue -> Processing \cup {NoProcessing}]
  <2>1. [ready[q] EXCEPT ![p] = @ - 1] \in [Processing -> Nat]
    BY <1>1, <1>3 DEF Receive
  <2>2. ready' = [ready EXCEPT ![q] = [ready[q] EXCEPT ![p] = @ - 1]]
    BY <1>3 DEF Receive
  <2>3. QED
    BY <1>1, <1>3, <2>1, <2>2 DEF Receive, TypeOK
<1>4. QED
  BY <1>2, <1>3

LEMMA TrackerTypeStep == TypeOK /\ [Next]_vars => TypeOK'
<1> SUFFICES ASSUME TypeOK, [Next]_vars PROVE TypeOK'
  OBVIOUS
<1> USE TrackerAssumption
<1>1. ASSUME NEW p \in Processing, Publisher(p) PROVE TypeOK'
  <2>1. ready' \in [Queue -> [Processing -> Nat]]
    BY <1>1, QueueStep
       DEF Publisher, PublishStart, PublishWorkerCallback, PublishMergeCallback,
           PublishAgain, Queue
  <2>2. QED
    BY <1>1, <2>1
       DEF Publisher, PublishStart, PublishWorkerCallback, PublishMergeCallback,
           PublishAgain, TypeOK, row, services
<1>2. ASSUME NEW p \in Processing, StartProcessing(p) PROVE TypeOK'
  <2>1. /\ ready' \in [Queue -> [Processing -> Nat]]
        /\ unacked' \in [Queue -> Processing \cup {NoProcessing}]
    BY <1>2, QueueStep DEF StartProcessing, Queue
  <2>2. QED
    BY <1>2, <2>1 DEF StartProcessing, TypeOK, services
<1>3. ASSUME NEW p \in Processing, CallbackHandler(p) PROVE TypeOK'
  <2>1. /\ ready' \in [Queue -> [Processing -> Nat]]
        /\ unacked' \in [Queue -> Processing \cup {NoProcessing}]
    BY <1>3, QueueStep
       DEF CallbackHandler, UpdateProcessingWhenWorkerFinished, FinishProcessing, Queue
  <2>2. /\ progress' \in [Processing -> Nat]
        /\ maxProgress' \in [Processing -> Nat]
    BY <1>3, DeltaBounds
       DEF CallbackHandler, UpdateProcessingWhenWorkerFinished, FinishProcessing, TypeOK,
           Complete
  <2>3. QED
    BY <1>3, <2>1, <2>2
       DEF CallbackHandler, UpdateProcessingWhenWorkerFinished, FinishProcessing, TypeOK,
           services
<1>4. ASSUME NEW q \in Queue, Ack(q) PROVE TypeOK'
  BY <1>4 DEF Ack, TypeOK, row, services
<1>5. ASSUME NEW q \in Queue, DieBeforeAck(q) PROVE TypeOK'
  <2>1. unacked[q] \in Processing
    BY <1>5 DEF DieBeforeAck, TypeOK
  <2>2. ready' \in [Queue -> [Processing -> Nat]]
    BY <1>5, <2>1 DEF DieBeforeAck, Publish, TypeOK
  <2>3. faults' \in 0..MaxFaults
    BY <1>5 DEF DieBeforeAck, TypeOK
  <2>4. QED
    BY <1>5, <2>2, <2>3 DEF DieBeforeAck, TypeOK, row, services
<1>6. CASE UNCHANGED vars
  BY <1>6 DEF vars, row, services, TypeOK
<1>7. QED
  BY <1>1, <1>2, <1>3, <1>4, <1>5, <1>6 DEF Next, StartAgain, Wait

\* The row and the queues keep their types.
THEOREM TrackerTypeCorrect == Spec => []TypeOK
<1>1. Init => TypeOK
  BY TrackerAssumption DEF Init, TypeOK
<1>2. QED
  BY <1>1, TrackerTypeStep, PTL DEF Spec

\* Absent rows have progress 0, so that inserting one takes nothing back.
Untracked == \A p \in Processing \ tracked : progress[p] = 0

\* What a step can do to the row of p: insert it, add a share, complete it, or nothing.
RowChange(p) ==
  \/ p \notin tracked /\ p \in tracked' /\ progress'[p] = 0 /\ maxProgress'[p] = 0
  \/ /\ p \in tracked /\ p \in tracked'
     /\ progress'[p] = progress[p] + DeltaProgress(p)
     /\ maxProgress'[p] = progress[p] + DeltaMaxProgress(p)
  \/ /\ p \in tracked /\ p \in tracked'
     /\ progress'[p] = Complete /\ maxProgress'[p] = Complete
  \/ /\ p \in tracked <=> p \in tracked'
     /\ progress'[p] = progress[p] /\ maxProgress'[p] = maxProgress[p]

LEMMA RowStep == TypeOK /\ [Next]_vars => \A p \in Processing : RowChange(p)
<1> SUFFICES ASSUME TypeOK, [Next]_vars, NEW p \in Processing PROVE RowChange(p)
  OBVIOUS
<1>1. ASSUME NEW r \in Processing, StartProcessing(r) PROVE RowChange(p)
  BY <1>1 DEF StartProcessing, TypeOK, RowChange
<1>2. ASSUME NEW r \in Processing, CallbackHandler(r) PROVE RowChange(p)
  <2>1. CASE UpdateProcessingWhenWorkerFinished(r)
    BY <2>1 DEF UpdateProcessingWhenWorkerFinished, TypeOK, RowChange
  <2>2. CASE FinishProcessing(r)
    BY <2>2 DEF FinishProcessing, TypeOK, RowChange
  <2>3. QED
    BY <1>2, <2>1, <2>2 DEF CallbackHandler
<1>3. CASE UNCHANGED row
  BY <1>3 DEF row, RowChange
<1>4. QED
  BY <1>1, <1>2, <1>3
     DEF Next, Publisher, PublishStart, PublishWorkerCallback, PublishMergeCallback,
         PublishAgain, StartAgain, Ack, DieBeforeAck, Wait, vars

\* Absent rows have progress 0, so that inserting one takes nothing back.
LEMMA UntrackedIsZero == Spec => []Untracked
<1>1. Init => Untracked
  BY DEF Init, Untracked
<1>2. TypeOK /\ Untracked /\ [Next]_vars => Untracked'
  BY RowStep DEF Untracked, RowChange
<1>3. QED
  BY <1>1, <1>2, TrackerTypeCorrect, PTL DEF Spec

\* The cap of the estimate never falls below the progress, for every grid size (also those
\* that do not divide 9000, and those above 9000 whose share is zero).
THEOREM CapIsNeverBelowProgress == Spec => []MaxIsAhead
<1>1. Init => MaxIsAhead
  <2> SUFFICES ASSUME Init, NEW p \in Processing PROVE progress[p] <= maxProgress[p]
    BY DEF MaxIsAhead
  <2>1. progress[p] = 0 /\ maxProgress[p] = 0
    BY DEF Init
  <2>2. QED
    BY <2>1
<1>2. TypeOK /\ MaxIsAhead /\ [Next]_vars => MaxIsAhead'
  <2> SUFFICES ASSUME TypeOK, MaxIsAhead, [Next]_vars, NEW p \in Processing
               PROVE  progress'[p] <= maxProgress'[p]
    BY DEF MaxIsAhead
  <2>1. RowChange(p)
    BY RowStep
  <2>2. progress[p] \in Nat /\ maxProgress[p] \in Nat /\ progress[p] <= maxProgress[p]
    BY DEF TypeOK, MaxIsAhead
  <2>3. QED
    BY <2>1, <2>2, DeltaBounds DEF RowChange, Complete
<1>3. QED
  BY <1>1, <1>2, TrackerTypeCorrect, PTL DEF Spec

LEMMA CompletionStep ==
  ASSUME TypeOK, Untracked, [Next]_vars, NEW p \in Processing, progress[p] >= Complete
  PROVE  progress'[p] >= Complete
<1>1. RowChange(p)
  BY RowStep
<1>2. progress[p] \in Nat /\ p \in tracked
  BY DEF TypeOK, Untracked, Complete
<1>3. QED
  BY <1>1, <1>2, DeltaBounds DEF RowChange, Complete

\* A processing shown complete stays complete, whatever is delivered late or twice.
THEOREM CompleteForever == Spec => CompletionIsStable
<1> DEFINE Stable == \A p \in Processing : progress[p] >= Complete => progress'[p] >= Complete
<1>1. TypeOK /\ Untracked /\ [Next]_vars => Stable
  BY CompletionStep
<1>2. QED
  BY <1>1, TrackerTypeCorrect, UntrackedIsZero, PTL DEF Spec, CompletionIsStable

-----------------------------------------------------------------------------
\* A velocity is an integer, of the sign of the time elapsed.
LEMMA VelocityIsInt == \A p \in Processing : \A v \in Velocities(p) : v \in Int
<1> SUFFICES ASSUME NEW e \in Elapsed PROVE VelocityAfter(e) \in Int
  BY DEF Velocities
<1>1. e \in Int
  BY TrackerAssumption
<1>2. \A t \in Int : t \div 60000 \in Int /\ t % 60000 \in Int
  OBVIOUS
<1>3. VelocityOver(e) \in Int /\ VelocityOver(-e) \in Int
  BY <1>1, <1>2 DEF VelocityOver
<1>4. QED
  BY <1>1, <1>3 DEF VelocityAfter

LEMMA PercentIsMonotone ==
  ASSUME NEW a \in Int, NEW b \in Int, a <= b
  PROVE  Percent(a) \in Int /\ Percent(b) \in Int /\ Percent(a) <= Percent(b)
  BY DEF Percent

\* A share that is not rounded to 0 leaves the progress below the cap: a row at its cap was last
\* refreshed by its insertion or its completion, as Velocities has it.
LEMMA ShareStaysBelowCap ==
  ASSUME NEW p \in Processing, DeltaProgress(p) > 0
  PROVE  DeltaProgress(p) < DeltaMaxProgress(p)
<1>1. TotalWorkers[p] \in Nat /\ TotalWorkers[p] > 0
  BY TrackerAssumption
<1>2. \A n \in Nat : n > 0 /\ 9000 \div n > 0 => 9000 \div n < 18000 \div n
  OBVIOUS
<1>3. QED
  BY <1>1, <1>2 DEF DeltaProgress, DeltaMaxProgress

\* The milliseconds that multiply a velocity are not negative, whatever the dates.
LEMMA MillisAreNat == \A e \in Int : MillisOfReversedDuration(e) \in Nat
<1> SUFFICES ASSUME NEW e \in Int PROVE MillisOfReversedDuration(e) \in Nat
  OBVIOUS
<1>1. e % 1000 \in 0..999
  OBVIOUS
<1>2. 1000 - (e % 1000) \in Nat
  BY <1>1
<1>3. QED
  BY <1>2 DEF MillisOfReversedDuration

\* What is shown is at least the stored progress, if the cap is and the velocity is not negative,
\* and at most the stored progress, if the velocity is negative.
LEMMA EstimateBound ==
  ASSUME NEW v \in Int, NEW e \in Int, NEW a \in Nat, NEW b \in Nat, a <= b
  PROVE  /\ v >= 0 => GetProgressPercent(a, b, v, e) >= Percent(a)
         /\ v < 0 => GetProgressPercent(a, b, v, e) <= Percent(a)
<1> DEFINE d == MillisOfReversedDuration(e) * v
<1>1. d \in Int /\ (v >= 0 => d >= 0) /\ (v < 0 => d <= 0)
  <2>1. /\ \A m \in Nat, n \in Int : m * n \in Int
        /\ \A m \in Nat, n \in Nat : m * n >= 0
        /\ \A m \in Nat, n \in Int : n < 0 => m * n <= 0
    OBVIOUS
  <2>2. QED
    BY <2>1, MillisAreNat
<1>2. GetProgressPercent(a, b, v, e) = Lesser(Percent(a + d), Percent(b))
  BY DEF GetProgressPercent
<1> HIDE DEF d
<1>3. Percent(a) \in Int /\ Percent(b) \in Int /\ Percent(a) <= Percent(b) /\ Percent(a + d) \in Int
  BY <1>1, PercentIsMonotone
<1>4. (v >= 0 => Percent(a) <= Percent(a + d)) /\ (v < 0 => Percent(a + d) <= Percent(a))
  BY <1>1, PercentIsMonotone
<1>5. QED
  BY <1>2, <1>3, <1>4 DEF Lesser

\* For every grid and at all times the estimate of a row is not behind the stored progress, if
\* its last refresh was its insertion, its completion, or a worker callback that was not dated
\* before the refresh it follows; behind or equal if it was.
THEOREM EstimateFollowsDates == Spec => []EstimateIsNotBehind
<1>1. TypeOK /\ MaxIsAhead => EstimateIsNotBehind
  <2> SUFFICES ASSUME TypeOK, MaxIsAhead, NEW p \in tracked, NEW v \in Velocities(p),
                      NEW e \in Elapsed
               PROVE  LET shown == GetProgressPercent(progress[p], maxProgress[p], v, e)
                      IN  IF v >= 0 THEN shown >= Percent(progress[p])
                          ELSE shown <= Percent(progress[p])
    BY DEF EstimateIsNotBehind
  <2>1. progress[p] \in Nat /\ maxProgress[p] \in Nat /\ progress[p] <= maxProgress[p]
    BY DEF TypeOK, MaxIsAhead
  <2>2. v \in Int /\ e \in Int
    BY VelocityIsInt, TrackerAssumption DEF TypeOK
  <2>3. QED
    BY <2>1, <2>2, EstimateBound
<1>2. QED
  BY <1>1, TrackerTypeCorrect, CapIsNeverBelowProgress, PTL

-----------------------------------------------------------------------------
(* What is shown is earned. *)

\* The messages of p that wait for the tracker.
WorkerMessages(p) == ready["worker.callback"][p]
MergeMessages(p)  == ready["merge.callback"][p]

\* While nothing failed they are among those the services have sent.
MessagesAreSent(p) ==
  /\ WorkerMessages(p) <= finishedWorkers[p]
  /\ MergeMessages(p) <= IF p \in merged THEN 1 ELSE 0

\* What the tracker may have counted for p: the callbacks it took, and all once it took
\* the merge.
Earned(p) ==
  9000 * (finishedWorkers[p] - WorkerMessages(p))
    + (IF p \in merged /\ MergeMessages(p) = 0 THEN Complete * TotalWorkers[p] ELSE 0)

CountsMessages ==
  faults = 0 =>
    \A p \in Processing : MessagesAreSent(p) /\ progress[p] * TotalWorkers[p] <= Earned(p)

\* The shares of all workers are not more than the 9000 that are shared.
LEMMA SharesFit == ASSUME NEW n \in Nat \ {0} PROVE (9000 \div n) * n <= 9000
  OBVIOUS

LEMMA SumsScale ==
  ASSUME NEW a \in Int, NEW b \in Int, NEW n \in Int
  PROVE  (a + b) * n = a * n + b * n /\ a * n \in Int /\ b * n \in Int
  OBVIOUS

\* What a step can do to the messages of p and to its progress when nothing fails.
Keeps(p) == p \in merged' <=> p \in merged
CountChange(p) ==
  \/ /\ WorkerMessages(p)' = WorkerMessages(p) /\ MergeMessages(p)' = MergeMessages(p)
     /\ finishedWorkers'[p] = finishedWorkers[p] /\ Keeps(p) /\ progress'[p] = progress[p]
  \/ /\ WorkerMessages(p)' = WorkerMessages(p) + 1 /\ MergeMessages(p)' = MergeMessages(p)
     /\ finishedWorkers'[p] = finishedWorkers[p] + 1 /\ Keeps(p) /\ progress'[p] = progress[p]
  \/ /\ WorkerMessages(p)' = WorkerMessages(p) /\ MergeMessages(p)' = MergeMessages(p) + 1
     /\ finishedWorkers'[p] = finishedWorkers[p] /\ p \notin merged /\ p \in merged'
     /\ progress'[p] = progress[p]
  \/ /\ WorkerMessages(p) > 0
     /\ WorkerMessages(p)' = WorkerMessages(p) - 1 /\ MergeMessages(p)' = MergeMessages(p)
     /\ finishedWorkers'[p] = finishedWorkers[p] /\ Keeps(p)
     /\ progress'[p] \in {progress[p], progress[p] + DeltaProgress(p)}
  \/ /\ MergeMessages(p) > 0
     /\ WorkerMessages(p)' = WorkerMessages(p) /\ MergeMessages(p)' = MergeMessages(p) - 1
     /\ finishedWorkers'[p] = finishedWorkers[p] /\ Keeps(p)
     /\ progress'[p] \in {progress[p], Complete}

LEMMA CountStep ==
  ASSUME TypeOK, Untracked, [Next]_vars, faults' = faults, NEW p \in Processing
  PROVE  CountChange(p)
<1> USE DEF CountChange, Keeps, WorkerMessages, MergeMessages, Queue
<1>0. /\ ready \in [Queue -> [Processing -> Nat]] /\ finishedWorkers \in [Processing -> Nat]
      /\ progress \in [Processing -> Nat] /\ faults \in Nat
  BY TrackerAssumption DEF TypeOK
<1>1. ASSUME NEW r \in Processing, PublishStart(r) PROVE CountChange(p)
  BY <1>0, <1>1 DEF PublishStart, Publish, row
<1>2. ASSUME NEW r \in Processing, PublishWorkerCallback(r) PROVE CountChange(p)
  BY <1>0, <1>2 DEF PublishWorkerCallback, Publish, row
<1>3. ASSUME NEW r \in Processing, PublishMergeCallback(r) PROVE CountChange(p)
  BY <1>0, <1>3 DEF PublishMergeCallback, Publish, row
<1>4. ASSUME NEW r \in Processing, PublishAgain(r) PROVE CountChange(p)
  BY <1>0, <1>4 DEF PublishAgain
<1>5. ASSUME NEW r \in Processing, StartProcessing(r) PROVE CountChange(p)
  BY <1>0, <1>5 DEF StartProcessing, Receive, Untracked, services
<1>6. ASSUME NEW r \in Processing, UpdateProcessingWhenWorkerFinished(r) PROVE CountChange(p)
  BY <1>0, <1>6 DEF UpdateProcessingWhenWorkerFinished, Receive, services
<1>7. ASSUME NEW r \in Processing, FinishProcessing(r) PROVE CountChange(p)
  BY <1>0, <1>7 DEF FinishProcessing, Receive, services
<1>8. ASSUME NEW q \in Queue, Ack(q) PROVE CountChange(p)
  BY <1>8 DEF Ack, row, services
<1>9. ASSUME NEW q \in Queue, DieBeforeAck(q) PROVE CountChange(p)
  BY <1>0, <1>9 DEF DieBeforeAck
<1>10. CASE UNCHANGED vars
  BY <1>10 DEF vars, row, services
<1>11. QED
  BY <1>1, <1>2, <1>3, <1>4, <1>5, <1>6, <1>7, <1>8, <1>9, <1>10
     DEF Next, Publisher, CallbackHandler, StartAgain, Wait

LEMMA CountsMessagesStep ==
  TypeOK /\ Untracked /\ CountsMessages /\ [Next]_vars => CountsMessages'
<1> SUFFICES ASSUME TypeOK, Untracked, CountsMessages, [Next]_vars, faults' = 0, NEW p \in Processing
             PROVE  MessagesAreSent(p)' /\ progress'[p] * TotalWorkers[p] <= Earned(p)'
  BY DEF CountsMessages
<1> DEFINE n == TotalWorkers[p]
<1>1. /\ n \in Nat \ {0} /\ WorkerMessages(p) \in Nat /\ MergeMessages(p) \in Nat
      /\ progress[p] \in Nat /\ finishedWorkers[p] \in Nat
  BY TrackerAssumption DEF TypeOK, Queue, WorkerMessages, MergeMessages
<1>2. faults = 0
  BY DEF Next, Publisher, PublishStart, PublishWorkerCallback, PublishMergeCallback,
         PublishAgain, StartProcessing, StartAgain, CallbackHandler,
         UpdateProcessingWhenWorkerFinished, FinishProcessing, Ack, DieBeforeAck, Wait, vars, TypeOK
<1>3. MessagesAreSent(p) /\ progress[p] * n <= Earned(p)
  BY <1>2 DEF CountsMessages
<1>4. CountChange(p)
  BY <1>2, CountStep
<1>5. DeltaProgress(p) \in Nat /\ DeltaProgress(p) * n <= 9000
  BY <1>1, SharesFit, DeltaBounds DEF DeltaProgress
<1>6. /\ progress[p] * n \in Int /\ Complete * n \in Int /\ Complete * n >= 0
      /\ (progress[p] + DeltaProgress(p)) * n = progress[p] * n + DeltaProgress(p) * n
      /\ DeltaProgress(p) * n \in Int
  BY <1>1, <1>5, SumsScale DEF Complete
<1> HIDE DEF n
<1>7. MessagesAreSent(p)'
  BY <1>1, <1>3, <1>4 DEF CountChange, Keeps, MessagesAreSent
<1>8. progress'[p] * n <= Earned(p)'
  <2> USE <1>1, <1>3, <1>5, <1>6 DEF MessagesAreSent, Keeps
  <2>1. Earned(p) = 9000 * (finishedWorkers[p] - WorkerMessages(p))
                      + (IF p \in merged /\ MergeMessages(p) = 0 THEN Complete * n ELSE 0)
    BY DEF Earned, n
  <2>2. Earned(p)' = 9000 * (finishedWorkers'[p] - WorkerMessages(p)')
                      + (IF p \in merged' /\ MergeMessages(p)' = 0 THEN Complete * n ELSE 0)
    BY DEF Earned, n
  <2>3. CASE progress'[p] = progress[p]
    BY <1>4, <2>1, <2>2, <2>3 DEF CountChange
  <2>4. CASE progress'[p] = progress[p] + DeltaProgress(p) /\ progress'[p] # progress[p]
    BY <1>4, <2>1, <2>2, <2>4 DEF CountChange
  <2>5. CASE progress'[p] = Complete /\ progress'[p] # progress[p] /\ progress'[p] # progress[p] + DeltaProgress(p)
    BY <1>4, <2>1, <2>2, <2>5 DEF CountChange
  <2>6. QED
    BY <1>4, <2>3, <2>4, <2>5 DEF CountChange
<1>9. QED
  BY <1>7, <1>8 DEF n

\* Without duplicates and deaths no progress is shown that was not earned, for grids of any
\* size and messages in any order (the increments of TrackerRepository).
THEOREM ShownIsEarned == Spec => []ProgressIsEarned
<1>1. Init => CountsMessages
  BY TrackerAssumption
     DEF Init, CountsMessages, MessagesAreSent, Earned, WorkerMessages, MergeMessages, Queue, Complete
<1>2. Spec => []CountsMessages
  BY <1>1, CountsMessagesStep, TrackerTypeCorrect, UntrackedIsZero, PTL DEF Spec
<1>3. TypeOK /\ CountsMessages => ProgressIsEarned
  <2> SUFFICES ASSUME TypeOK, CountsMessages, faults = 0, NEW p \in Processing
               PROVE  progress[p] * TotalWorkers[p] <=
                        9000 * finishedWorkers[p] + (IF p \in merged THEN Complete * TotalWorkers[p] ELSE 0)
    BY DEF ProgressIsEarned
  <2>1. /\ TotalWorkers[p] \in Nat /\ WorkerMessages(p) \in Nat
        /\ progress[p] \in Nat /\ finishedWorkers[p] \in Nat
    BY TrackerAssumption DEF TypeOK, Queue, WorkerMessages
  <2>2. Complete * TotalWorkers[p] \in Nat /\ progress[p] * TotalWorkers[p] \in Int
    BY <2>1, SumsScale DEF Complete
  <2>3. progress[p] * TotalWorkers[p] <= Earned(p)
    BY DEF CountsMessages
  <2>4. QED
    BY <2>1, <2>2, <2>3 DEF Earned
<1>4. QED
  BY <1>2, <1>3, TrackerTypeCorrect, PTL

=============================================================================
