---------------------------- MODULE MCEchoMerger ----------------------------
(* A small instance of EchoMerger for TLC. *)
EXTENDS EchoMerger, TLC

CONSTANTS p1, p2, w1, w2, w3

\* Two tiles for p1 (its list may lack one), one for p2.
MCProcOf == (w1 :> p1) @@ (w2 :> p1) @@ (w3 :> p2)
=============================================================================
