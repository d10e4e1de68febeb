--------------------------- MODULE MCEchoTracker ---------------------------
(* Small instances of EchoTracker for TLC. *)
EXTENDS EchoTracker, TLC

CONSTANTS p1, p2

\* Seven is the smallest grid whose share of 9000 is rounded; with a grid of one tile a
\* callback that is counted twice already exceeds 10000.
MCSevenAndOne == (p1 :> 7) @@ (p2 :> 1)

\* The ends of a second and of a minute and the largest time, in both directions.
MCElapsed == LET times == {0, 999, 59999, 1728000000} IN times \cup {-t : t \in times}
=============================================================================
