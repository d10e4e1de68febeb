------------------------- MODULE MCEchoOrchestrator -------------------------
(* Small instances of EchoOrchestrator for TLC. *)
EXTENDS EchoOrchestrator, TLC

CONSTANTS p1, p2, w1, w2, w3

\* Two tiles for p1, one for p2.
MCProcOf == (w1 :> p1) @@ (w2 :> p1) @@ (w3 :> p2)

\* Two tiles for p1; the grid of p2 (if there is a p2) is empty.
MCProcOfEmptyGrid == (w1 :> p1) @@ (w2 :> p1)
=============================================================================
