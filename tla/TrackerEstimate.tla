-------------------------- MODULE TrackerEstimate --------------------------
(***************************************************************************)
(* What the tracker's REST resource shows of a row between two refreshes.  *)
(* Times are milliseconds elapsed between two refreshes of the row, or     *)
(* between the last refresh and a poll.  A refresh is dated when its       *)
(* message is received and committed later, beside other consumers, so the *)
(* dates of one row need not follow its commits: the time elapsed may be   *)
(* negative.                                                               *)
(***************************************************************************)
EXTENDS Integers

\* Twenty days: beyond, the product of GetProgressPercent leaves the 32 bits of an int.
MaxElapsed == 20 * 24 * 3600 * 1000

\* The velocity column as the UPDATE computes it: whole minutes times sixty, plus the
\* seconds (DATE_PART keeps their fraction) times 1000, plus the milliseconds, which
\* DATE_PART gives with the seconds in them.  The parts of a negative interval are negative.
VelocityOver(time) == 60 * (time \div 60000) + (time % 60000) + (time % 60000)
VelocityAfter(elapsed) == IF elapsed >= 0 THEN VelocityOver(elapsed) ELSE -VelocityOver(-elapsed)

\* getNano() / 1000000 of Duration.between(currentDate, lastRefresh), the elapsed time with
\* the other sign; the nanoseconds of a negative duration count up from the second below.
MillisOfReversedDuration(elapsed) == (1000 - (elapsed % 1000)) % 1000

\* What is shown of a progress on ten thousand; the division rounds towards zero.
Percent(progress) == IF progress >= 0 THEN progress \div 100 ELSE -((-progress) \div 100)

Lesser(a, b) == IF a < b THEN a ELSE b

\* Mutant: the milliseconds of the reversed duration keep its sign.
GetSignedProgressPercent(progress, maxProgress, velocity, elapsed) ==
  LET progressEstimated == progress - (elapsed % 1000) * velocity
  IN  Lesser(Percent(progressEstimated), Percent(maxProgress))

GetProgressPercent(progress, maxProgress, velocity, elapsed) ==
  LET progressEstimated == progress + MillisOfReversedDuration(elapsed) * velocity
  IN  Lesser(Percent(progressEstimated), Percent(maxProgress))

=============================================================================
