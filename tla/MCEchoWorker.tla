---------------------------- MODULE MCEchoWorker ----------------------------
(* Small instances of EchoWorker for TLC. *)
EXTENDS EchoWorker, TLC

CONSTANTS w1, w2

\* Tiles of two processings with grids of different sizes.
MCTotalWorkers == (w1 :> 1) @@ (w2 :> 2)
=============================================================================
